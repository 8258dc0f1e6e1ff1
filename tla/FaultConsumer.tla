----------------------------- MODULE FaultConsumer -----------------------------
(***************************************************************************)
(* The backend's consumer of charger/fault/# (services/fault_consumer.py). *)
(* It keeps, in memory, a rolling window of the faults it received for     *)
(* each port of a station, scores the risk of each port from its window    *)
(* (ml/maintenance_predictor.py), and takes a port out of service once the *)
(* window holds enough critical faults.                                    *)
(*                                                                         *)
(* One station is modelled: a fault of any simulated charger of it is      *)
(* applied to all its ports.  Faults of one severity and one age are       *)
(* indistinguishable, so a port's list of (timestamp, severity) is kept as *)
(* the number of entries of each severity and age.                         *)
(***************************************************************************)
EXTENDS Naturals, Functions

CONSTANTS
    DbPort,         \* the ports of the station
    Window,         \* FAULT_WINDOW_SECONDS, in ticks
    MaxFaults       \* bound: faults received within one window

ASSUME ConsumerAssumption == Window \in Nat /\ MaxFaults \in Nat

\* CRITICAL_FAULT_STATUS_THRESHOLD
CriticalThreshold == 2

VARIABLES
    port,           \* the chargers table: DbPort -> status and risk
    events,         \* _fault_events: DbPort -> what its list holds
    apply,          \* the message being applied
    receipts        \* history: what was received within the window since start

consumerVars == <<port, events, apply, receipts>>

FaultSeverity == {"critical", "warning"}

\* The last age stands for everything older than the window.
FaultAge == 0 .. Window + 1

FaultList == [FaultSeverity -> [FaultAge -> Nat]]
NoFaults == [s \in FaultSeverity |-> [a \in FaultAge |-> 0]]

PortStatus == {"available", "occupied", "maintenance"}
PortRow == [status : PortStatus, risk : Nat]
NewPort == [status |-> "available", risk |-> 0]

\* The unit of work of a message; loaded and assigned mean something only while
\* it waits for its commit.  evidence is history: what it was decided on.
Idle(rows) ==
    [phase |-> "idle", loaded |-> rows, assigned |-> rows, evidence |-> 0]

BlankPorts == [p \in DbPort |-> NewPort]

ConsumerInit ==
    /\ port = BlankPorts
    /\ events = [p \in DbPort |-> NoFaults]
    /\ apply = Idle(BlankPorts)
    /\ receipts = NoFaults

-----------------------------------------------------------------------------

InWindow(cells) == [a \in 0 .. Window |-> cells[a]]
Counted(list, s) == SumFunctionOnSet(list[s], FaultAge)

Recorded(list, severity) == [list EXCEPT ![severity][0] = @ + 1]

Unpruned(list) == list

PrunedEarly(list) ==
    [s \in FaultSeverity |-> [a \in FaultAge |-> IF a < Window THEN list[s][a] ELSE 0]]

\* _prune_and_count keeps what is at most a window old.
Pruned(list) ==
    [s \in FaultSeverity |-> [a \in FaultAge |-> IF a <= Window THEN list[s][a] ELSE 0]]

\* The excess that compute_maintenance_risk_score scales into [0, 1], in tenths
\* (a port's sessions are not passed to it).
Risk(list) == 8 * Counted(list, "critical") + 3 * Counted(list, "warning")

DecidedMisspelt(row, list) ==
    [status |-> IF Counted(list, "critical") >= CriticalThreshold /\ row.status = "available"
                THEN "out_of_order" ELSE row.status,
     risk |-> Risk(list)]

Decided(row, list) ==
    [status |-> IF Counted(list, "critical") >= CriticalThreshold /\ row.status = "available"
                THEN "maintenance" ELSE row.status,
     risk |-> Risk(list)]

\* _apply_fault up to its commit: the ports are loaded, and for each of them
\* the fault is recorded, the list pruned and the row decided.  NoError and
\* stations without a counterpart are returned from before anything is kept.
Receive(severity) ==
    /\ severity \in FaultSeverity
    /\ apply.phase = "idle"
    /\ \A s \in FaultSeverity : Counted(receipts, s) < MaxFaults
    /\ events' = [p \in DbPort |-> Pruned(Recorded(events[p], severity))]
    /\ receipts' = Recorded(receipts, severity)
    /\ apply' = [phase |-> "commit", loaded |-> port,
                 assigned |-> [p \in DbPort |-> Decided(port[p], events'[p])],
                 evidence |-> Counted(receipts', "critical")]
    /\ UNCHANGED port

Written(current, loaded, assigned) ==
    [status |-> IF assigned.status = loaded.status THEN current.status ELSE assigned.status,
     risk |-> IF assigned.risk = loaded.risk THEN current.risk ELSE assigned.risk]

\* The commit flushes the columns that changed.
CommitFault ==
    /\ apply.phase = "commit"
    /\ port' = [p \in DbPort |-> Written(port[p], apply.loaded[p], apply.assigned[p])]
    /\ apply' = Idle(BlankPorts)
    /\ UNCHANGED <<events, receipts>>

\* The commit raises: _on_message logs it, and the fault stays counted.
FailFault ==
    /\ apply.phase = "commit"
    /\ apply' = Idle(BlankPorts)
    /\ UNCHANGED <<port, events, receipts>>

\* get_fault_summary, from a request's thread, prunes what it reads.
Summarise ==
    /\ events' = [p \in DbPort |-> Pruned(events[p])]
    /\ UNCHANGED <<port, apply, receipts>>

\* The backend restarts: the lists are gone, the table is not.
ConsumerRestart ==
    /\ events' = [p \in DbPort |-> NoFaults]
    /\ receipts' = NoFaults
    /\ apply' = Idle(BlankPorts)
    /\ UNCHANGED port

SetStatus(p, from, to) ==
    /\ port[p].status = from
    /\ port' = [port EXCEPT ![p].status = to]
    /\ UNCHANGED <<events, apply, receipts>>

\* The commits of the other writers: a session starts, it ends, and an operator
\* puts a port back into service.
StartCharging(p) == SetStatus(p, "available", "occupied")
EndCharging(p) == SetStatus(p, "occupied", "available")
Repair(p) == SetStatus(p, "maintenance", "available")

Older(list) ==
    [s \in FaultSeverity |-> [a \in FaultAge |->
        IF a = 0 THEN 0
        ELSE IF a = Window + 1 THEN list[s][a] + list[s][Window] ELSE list[s][a - 1]]]

Recent(list) == [list EXCEPT !["critical"][Window + 1] = 0, !["warning"][Window + 1] = 0]

\* The consumer's share of a tick; the history forgets what left the window.
ConsumerTick ==
    /\ events' = [p \in DbPort |-> Older(events[p])]
    /\ receipts' = Recent(Older(receipts))
    /\ UNCHANGED <<port, apply>>

-----------------------------------------------------------------------------

ConsumerTypeOK ==
    /\ port \in [DbPort -> PortRow]
    /\ events \in [DbPort -> FaultList]
    /\ receipts \in FaultList
    /\ apply \in [phase : {"idle", "commit"}, loaded : [DbPort -> PortRow],
                  assigned : [DbPort -> PortRow], evidence : Nat]

\* What a port's list counts is what was received within the window since the
\* process started, whatever the order of pruning reads, failed commits, ticks
\* and restarts: no fault is lost early or counted twice.
WindowMatchesReceipts ==
    \A p \in DbPort : \A s \in FaultSeverity :
        InWindow(events[p][s]) = InWindow(receipts[s])

\* A message takes a port out of service only if it arrived as at least the
\* second critical fault within one window, never on older or milder faults.
MaintenanceIsEarned ==
    [][\A p \in DbPort :
          port[p].status # "maintenance" /\ port'[p].status = "maintenance"
              => apply.evidence >= CriticalThreshold]_consumerVars

=============================================================================
