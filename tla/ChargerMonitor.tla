---------------------------- MODULE ChargerMonitor ----------------------------
(***************************************************************************)
(* The charger monitoring unit (simulation/charger_monitor_sim.py).  It    *)
(* evaluates every reading a charger publishes against thresholds, injects *)
(* faults of bounded duration, debounces what it detects, and reports a    *)
(* fault or, when it has been quiet for long enough, that there is none.   *)
(*                                                                         *)
(* Times are counted in ticks and kept as what is left or has passed, so   *)
(* that no clock grows without bound.                                      *)
(***************************************************************************)
EXTENDS Naturals

CONSTANTS
    Charger,        \* the chargers whose readings arrive
    Readings,       \* the readings they may publish
    Injected,       \* the faults that may be injected
    MaxDuration,    \* longest injection
    Heartbeat       \* HEARTBEAT_INTERVAL_S

\* Where thresholds are exceeded, the first of this order is what is detected.
Threshold ==
    <<"OverCurrentFailure", "OverVoltage", "UnderVoltage", "HighTemperature",
      "GroundFailure", "WeakSignal">>

ThresholdCode == {Threshold[i] : i \in 1 .. 6}

\* Faults no sensor shows: they are detected because they were injected.
Direct == {"ConnectorLockFailure", "ReaderFailure", "PowerSwitchFailure", "InternalError"}

Critical ==
    {"OverCurrentFailure", "OverVoltage", "HighTemperature", "GroundFailure",
     "PowerSwitchFailure", "PowerMeterFailure"}

FaultCode == ThresholdCode \cup Direct \cup {"PowerMeterFailure"}

Severity(code) ==
    IF code = "NoError" THEN "info" ELSE IF code \in Critical THEN "critical" ELSE "warning"

\* A reading: whether the charger is occupied, whether current flows (0.5 A or
\* more), the thresholds it exceeds by itself and those an injection would push
\* it over (a current near the rated one, a temperature within 28 degrees).
Reading ==
    [occupied : BOOLEAN, current : BOOLEAN,
     over : SUBSET ThresholdCode, near : SUBSET {"OverCurrentFailure", "HighTemperature"}]

ASSUME MonitorAssumption ==
    /\ Readings \subseteq Reading
    /\ Injected \subseteq ThresholdCode \cup Direct
    /\ MaxDuration \in Nat \ {0}
    /\ Heartbeat \in Nat

ZeroCurrentDebounce == 3
FaultDebounce == 2

VARIABLES
    monitor,        \* Charger -> ChargerMonitorState
    said,           \* Charger -> what the last evaluation reported
    seen            \* history: Charger -> what the last two evaluations detected

monitorVars == <<monitor, said, seen>>

\* Streaks saturate at the debounce limit: nothing compares beyond it.
MonitorState ==
    [zero : 0 .. ZeroCurrentDebounce, streak : [FaultCode -> 0 .. FaultDebounce],
     injected : Injected \cup {"none"}, left : 0 .. MaxDuration, quiet : 0 .. Heartbeat + 1]

\* last_report_at starts at the epoch: the first reading is answered.
NewMonitor ==
    [zero |-> 0, streak |-> [c \in FaultCode |-> 0],
     injected |-> "none", left |-> 0, quiet |-> Heartbeat + 1]

MonitorInit ==
    /\ monitor = [k \in Charger |-> NewMonitor]
    /\ said = [k \in Charger |-> "nothing"]
    /\ seen = [k \in Charger |-> <<"none", "none">>]

-----------------------------------------------------------------------------

UpTo(n, limit) == IF n > limit THEN limit ELSE n

\* What an injected fault makes of the reading.
Exceeded(reading, fault) ==
    reading.over \cup
    (({fault} \cap ThresholdCode)
        \ ({"OverCurrentFailure", "HighTemperature"} \ reading.near))

\* An injection that ran out is removed before a new one may begin.
Injections(m) ==
    IF m.injected # "none" /\ m.left > 0
    THEN {[fault |-> m.injected, left |-> m.left]}
    ELSE {[fault |-> f, left |-> d] : f \in Injected, d \in 1 .. MaxDuration}
         \cup {[fault |-> "none", left |-> 0]}

ZeroTicksKept(m, reading) ==
    IF reading.occupied /\ ~reading.current
    THEN UpTo(m.zero + 1, ZeroCurrentDebounce) ELSE m.zero

ZeroTicks(m, reading) ==
    IF reading.occupied /\ ~reading.current
    THEN UpTo(m.zero + 1, ZeroCurrentDebounce) ELSE 0

\* The missing current overrides whatever else is detected.
Detected(zero, reading, fault) ==
    LET exceeded == Exceeded(reading, fault) IN
    CASE zero = ZeroCurrentDebounce -> "PowerMeterFailure"
      [] zero # ZeroCurrentDebounce /\ exceeded # {} ->
            LET first == CHOOSE i \in 1 .. 6 :
                            /\ Threshold[i] \in exceeded
                            /\ \A j \in 1 .. (i - 1) : Threshold[j] \notin exceeded
            IN  Threshold[first]
      [] OTHER -> IF fault \in Direct THEN fault ELSE "none"

StreaksKept(m, code) ==
    [c \in FaultCode |-> IF c = code THEN UpTo(m.streak[c] + 1, FaultDebounce) ELSE m.streak[c]]

\* Every other code starts again.
Streaks(m, code) ==
    [c \in FaultCode |-> IF c = code THEN UpTo(m.streak[c] + 1, FaultDebounce) ELSE 0]

HeartbeatFirst(m, streak, code) ==
    IF m.quiet > Heartbeat THEN "NoError"
    ELSE IF code # "none" /\ streak[code] >= FaultDebounce THEN code ELSE "nothing"

Reported(m, streak, code) ==
    IF code # "none" /\ streak[code] >= FaultDebounce THEN code
    ELSE IF m.quiet > Heartbeat THEN "NoError" ELSE "nothing"

\* evaluate(): one reading of charger k.
Evaluate(k, reading) ==
    LET m == monitor[k]
        zero == ZeroTicks(m, reading)
    IN \E injection \in Injections(m) :
        LET code == Detected(zero, reading, injection.fault)
            streak == Streaks(m, code)
            report == Reported(m, streak, code)
        IN  /\ monitor' = [monitor EXCEPT ![k] =
                  [zero |-> zero, streak |-> streak, injected |-> injection.fault,
                   left |-> injection.left,
                   quiet |-> IF report = "nothing" THEN m.quiet ELSE 0]]
            /\ said' = [said EXCEPT ![k] = report]
            /\ seen' = [seen EXCEPT ![k] = <<@[2], code>>]

\* The monitor's share of a tick.
Age(m) == [m EXCEPT !.left = IF @ > 0 THEN @ - 1 ELSE 0, !.quiet = UpTo(@ + 1, Heartbeat + 1)]

MonitorTick ==
    /\ monitor' = [k \in Charger |-> Age(monitor[k])]
    /\ UNCHANGED <<said, seen>>

\* The process restarts with an empty dictionary of states.
MonitorRestart ==
    /\ monitor' = [k \in Charger |-> NewMonitor]
    /\ said' = [k \in Charger |-> "nothing"]
    /\ seen' = [k \in Charger |-> <<"none", "none">>]

-----------------------------------------------------------------------------

MonitorTypeOK ==
    /\ monitor \in [Charger -> MonitorState]
    /\ said \in [Charger -> FaultCode \cup {"NoError", "nothing"}]
    /\ seen \in [Charger -> (FaultCode \cup {"none"}) \X (FaultCode \cup {"none"})]

\* A fault is reported only when the last two readings both showed it: a single
\* bad reading, or bad readings of changing kinds, are noise.
ReportsAreDebounced ==
    \A k \in Charger : said[k] \in FaultCode => seen[k] = <<said[k], said[k]>>

\* A heartbeat never hides a fault that stands: "NoError" is not said when the
\* last two readings showed the same fault.
HeartbeatHidesNoFault ==
    \A k \in Charger : said[k] = "NoError" => ~(seen[k][1] = seen[k][2] /\ seen[k][1] # "none")

=============================================================================
