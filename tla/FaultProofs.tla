------------------------------ MODULE FaultProofs ------------------------------
(***************************************************************************)
(* Proofs about the fault pipeline, for any chargers, readings, injected   *)
(* faults, ports, window and bounds.                                       *)
(***************************************************************************)
EXTENDS FaultPipeline, Sums, TLAPS

-----------------------------------------------------------------------------
(***************************************************************************)
(* One evaluation of the monitor                                           *)
(***************************************************************************)

\* A streak is as long as its code has been detected without interruption, as
\* far as the debounce looks back.
StreaksAreRuns ==
    \A k \in Charger : \A c \in FaultCode :
        /\ monitor[k].streak[c] >= 1 <=> seen[k][2] = c
        /\ monitor[k].streak[c] >= 2 <=> seen[k] = <<c, c>>

MonitorInv ==
    /\ MonitorTypeOK
    /\ StreaksAreRuns
    /\ ReportsAreDebounced
    /\ HeartbeatHidesNoFault

LEMMA Codes ==
    /\ ThresholdCode \subseteq FaultCode
    /\ Direct \subseteq FaultCode
    /\ "PowerMeterFailure" \in FaultCode
    /\ "none" \notin FaultCode
    /\ "nothing" \notin FaultCode
    /\ "NoError" \notin FaultCode
    /\ \A i \in 1 .. 6 : Threshold[i] \in ThresholdCode
BY DEF FaultCode, ThresholdCode, Direct, Threshold

\* Whatever the reading, a known code or none is detected.
LEMMA DetectedType ==
    ASSUME NEW zero \in Nat, NEW reading \in Reading, NEW fault \in Injected \cup {"none"}
    PROVE  Detected(zero, reading, fault) \in FaultCode \cup {"none"}
<1> DEFINE exceeded == Exceeded(reading, fault)
           First(i) == /\ Threshold[i] \in exceeded
                       /\ \A j \in 1 .. (i - 1) : Threshold[j] \notin exceeded
<1>1. exceeded \subseteq ThresholdCode
  BY DEF Exceeded, Reading
<1>2. ASSUME exceeded # {} PROVE \E i \in 1 .. 6 : First(i)
  <2>1. PICK n \in 1 .. 6 : Threshold[n] \in exceeded
    BY <1>1, <1>2 DEF ThresholdCode
  <2> HIDE DEF exceeded
  <2>2. \A i \in 1 .. 6 : i = 1 \/ i = 2 \/ i = 3 \/ i = 4 \/ i = 5 \/ i = 6
    OBVIOUS
  <2>3. /\ 1 .. (1 - 1) = {}
        /\ 1 .. (2 - 1) = {1}
        /\ 1 .. (3 - 1) = {1, 2}
        /\ 1 .. (4 - 1) = {1, 2, 3}
        /\ 1 .. (5 - 1) = {1, 2, 3, 4}
        /\ 1 .. (6 - 1) = {1, 2, 3, 4, 5}
    OBVIOUS
  <2>4. First(1) \/ First(2) \/ First(3) \/ First(4) \/ First(5) \/ First(6)
    BY <2>1, <2>2, <2>3
  <2> QED
    BY <2>4
<1>3. CASE zero = ZeroCurrentDebounce
  BY <1>3, Codes DEF Detected
<1>4. CASE zero # ZeroCurrentDebounce /\ exceeded # {}
  <2>1. PICK i \in 1 .. 6 : i = CHOOSE n \in 1 .. 6 : First(n)
    BY <1>2, <1>4
  <2>2. Detected(zero, reading, fault) = Threshold[i]
    BY <1>4, <2>1 DEF Detected
  <2> QED
    BY <2>2, Codes
<1>5. CASE zero # ZeroCurrentDebounce /\ exceeded = {}
  BY <1>5, Codes DEF Detected
<1> QED
  BY <1>3, <1>4, <1>5

\* After an evaluation the detected code's streak has grown, up to the limit,
\* and no other code has one.
LEMMA StreaksType ==
    ASSUME NEW m \in MonitorState, NEW code \in FaultCode \cup {"none"}
    PROVE  /\ Streaks(m, code) \in [FaultCode -> 0 .. FaultDebounce]
           /\ \A c \in FaultCode :
                 Streaks(m, code)[c] =
                    IF c # code THEN 0 ELSE IF m.streak[c] = 0 THEN 1 ELSE 2
BY DEF Streaks, UpTo, FaultDebounce, MonitorState

\* An evaluation keeps the monitor's invariant.
LEMMA EvaluateKeeps ==
    ASSUME MonitorInv, NEW k \in Charger, NEW reading \in Readings, Evaluate(k, reading)
    PROVE  MonitorInv'
<1> DEFINE m == monitor[k]
           zero == ZeroTicks(m, reading)
<1>1. PICK injection \in Injections(m) :
         LET code == Detected(zero, reading, injection.fault)
             streak == Streaks(m, code)
             report == Reported(m, streak, code)
         IN  /\ monitor' = [monitor EXCEPT ![k] =
                   [zero |-> zero, streak |-> streak, injected |-> injection.fault,
                    left |-> injection.left,
                    quiet |-> IF report = "nothing" THEN m.quiet ELSE 0]]
             /\ said' = [said EXCEPT ![k] = report]
             /\ seen' = [seen EXCEPT ![k] = <<@[2], code>>]
  BY DEF Evaluate
<1> DEFINE code == Detected(zero, reading, injection.fault)
           streak == Streaks(m, code)
           report == Reported(m, streak, code)
<1>2. /\ m \in MonitorState
      /\ zero \in 0 .. ZeroCurrentDebounce
  BY DEF MonitorInv, MonitorTypeOK, MonitorState, ZeroTicks, UpTo, ZeroCurrentDebounce
<1>3. injection.fault \in Injected \cup {"none"} /\ injection.left \in 0 .. MaxDuration
  BY <1>2, MonitorAssumption DEF Injections, MonitorState
<1>4. code \in FaultCode \cup {"none"}
  BY <1>2, <1>3, DetectedType, MonitorAssumption DEF ZeroCurrentDebounce
<1>5. /\ streak \in [FaultCode -> 0 .. FaultDebounce]
      /\ \A c \in FaultCode : streak[c] = IF c # code THEN 0 ELSE IF m.streak[c] = 0 THEN 1 ELSE 2
  BY <1>2, <1>4, StreaksType
<1>6. /\ report \in FaultCode \cup {"NoError", "nothing"}
      /\ report \in FaultCode => report = code /\ streak[code] >= 2
      /\ report = "NoError" => ~(code # "none" /\ streak[code] >= 2)
  BY <1>4, Codes DEF Reported, FaultDebounce
<1>7. /\ seen[k] \in (FaultCode \cup {"none"}) \X (FaultCode \cup {"none"})
      /\ \A c \in FaultCode : m.streak[c] \in 0 .. 2 /\ (m.streak[c] >= 1 <=> seen[k][2] = c)
  BY <1>2 DEF MonitorInv, MonitorTypeOK, StreaksAreRuns, MonitorState, FaultDebounce
<1>8. /\ monitor' = [monitor EXCEPT ![k] =
             [zero |-> zero, streak |-> streak, injected |-> injection.fault,
              left |-> injection.left, quiet |-> IF report = "nothing" THEN m.quiet ELSE 0]]
      /\ said' = [said EXCEPT ![k] = report]
      /\ seen' = [seen EXCEPT ![k] = <<seen[k][2], code>>]
  BY <1>1
<1> HIDE DEF code, streak, report, zero
<1>9. MonitorTypeOK'
  <2>1. [zero |-> zero, streak |-> streak, injected |-> injection.fault,
         left |-> injection.left, quiet |-> IF report = "nothing" THEN m.quiet ELSE 0]
           \in MonitorState
    BY <1>2, <1>3, <1>5, MonitorAssumption DEF MonitorState
  <2>2. <<seen[k][2], code>> \in (FaultCode \cup {"none"}) \X (FaultCode \cup {"none"})
    BY <1>4, <1>7
  <2> QED
    BY <1>6, <1>8, <2>1, <2>2 DEF MonitorInv, MonitorTypeOK
<1>10. \A j \in Charger \ {k} :
          monitor'[j] = monitor[j] /\ said'[j] = said[j] /\ seen'[j] = seen[j]
  BY <1>8 DEF MonitorInv, MonitorTypeOK
<1>11. /\ monitor'[k].streak = streak
       /\ said'[k] = report
       /\ seen'[k] = <<seen[k][2], code>>
  BY <1>8 DEF MonitorInv, MonitorTypeOK
<1>12. \A c \in FaultCode : (streak[c] >= 1 <=> code = c)
                            /\ (streak[c] >= 2 <=> code = c /\ seen[k][2] = c)
  BY <1>5, <1>7
<1>13. StreaksAreRuns'
  BY <1>10, <1>11, <1>12 DEF MonitorInv, StreaksAreRuns
<1>14. ReportsAreDebounced'
  <2>1. report \in FaultCode => <<seen[k][2], code>> = <<report, report>>
    BY <1>6, <1>12
  <2> QED
    BY <1>10, <1>11, <2>1 DEF MonitorInv, ReportsAreDebounced
<1>15. HeartbeatHidesNoFault'
  <2>1. report = "NoError" => ~(seen[k][2] = code /\ code # "none")
    BY <1>4, <1>6, <1>12
  <2> QED
    BY <1>10, <1>11, <2>1 DEF MonitorInv, HeartbeatHidesNoFault
<1> QED
  BY <1>9, <1>13, <1>14, <1>15 DEF MonitorInv

LEMMA MonitorStarts == MonitorInit => MonitorInv
<1> SUFFICES ASSUME MonitorInit PROVE MonitorInv
  OBVIOUS
<1>1. NewMonitor \in MonitorState
  BY MonitorAssumption DEF NewMonitor, MonitorState, ZeroCurrentDebounce, FaultDebounce
<1> QED
  BY <1>1, Codes DEF MonitorInit, MonitorInv, MonitorTypeOK, StreaksAreRuns,
     ReportsAreDebounced, HeartbeatHidesNoFault, NewMonitor

LEMMA AgeType ==
    ASSUME NEW m \in MonitorState
    PROVE  Age(m) \in MonitorState /\ Age(m).streak = m.streak
<1>1. \A q \in 0 .. Heartbeat + 1 : UpTo(q + 1, Heartbeat + 1) \in 0 .. Heartbeat + 1
  BY MonitorAssumption DEF UpTo
<1>2. \A l \in 0 .. MaxDuration : (IF l > 0 THEN l - 1 ELSE 0) \in 0 .. MaxDuration
  BY MonitorAssumption
<1> QED
  BY <1>1, <1>2 DEF Age, MonitorState

\* Ticks and restarts keep it too.
LEMMA MonitorTickKeeps == MonitorInv /\ MonitorTick => MonitorInv'
<1> SUFFICES ASSUME MonitorInv, MonitorTick PROVE MonitorInv'
  OBVIOUS
<1>1. \A k \in Charger : monitor'[k] \in MonitorState /\ monitor'[k].streak = monitor[k].streak
  BY AgeType DEF MonitorInv, MonitorTypeOK, MonitorTick
<1> QED
  BY <1>1 DEF MonitorInv, MonitorTypeOK, MonitorTick, StreaksAreRuns,
     ReportsAreDebounced, HeartbeatHidesNoFault

LEMMA MonitorRestartKeeps == MonitorRestart => MonitorInv'
<1> SUFFICES ASSUME MonitorRestart PROVE MonitorInv'
  OBVIOUS
<1>1. NewMonitor \in MonitorState
  BY MonitorAssumption DEF NewMonitor, MonitorState, ZeroCurrentDebounce, FaultDebounce
<1> QED
  BY <1>1, Codes DEF MonitorRestart, MonitorInv, MonitorTypeOK, StreaksAreRuns,
     ReportsAreDebounced, HeartbeatHidesNoFault, NewMonitor

LEMMA MonitorStutters == MonitorInv /\ UNCHANGED monitorVars => MonitorInv'
BY DEF MonitorInv, MonitorTypeOK, StreaksAreRuns, ReportsAreDebounced,
   HeartbeatHidesNoFault, monitorVars

LEMMA MonitorInvariant == Spec => []MonitorInv
<1>1. Init => MonitorInv
  BY MonitorStarts DEF Init
<1>2. MonitorInv /\ [Next]_vars => MonitorInv'
  <2> SUFFICES ASSUME MonitorInv, [Next]_vars PROVE MonitorInv'
    OBVIOUS
  <2>1. ASSUME NEW k \in Charger, NEW reading \in Readings, Publish(k, reading)
        PROVE  MonitorInv'
    BY <2>1, EvaluateKeeps DEF Publish
  <2>2. CASE Deliver
    BY <2>2, MonitorStutters DEF Deliver, monitorVars
  <2>3. CASE Ignore \/ Lose
    BY <2>3, MonitorStutters DEF Ignore, Lose, monitorVars
  <2>4. CASE Consume
    BY <2>4, MonitorStutters DEF Consume, monitorVars
  <2>5. CASE Restart
    BY <2>5, MonitorRestartKeeps DEF Restart
  <2>6. CASE Tick
    BY <2>6, MonitorTickKeeps DEF Tick
  <2>7. CASE UNCHANGED vars
    BY <2>7, MonitorStutters DEF vars, monitorVars
  <2> QED
    BY <2>1, <2>2, <2>3, <2>4, <2>5, <2>6, <2>7 DEF Next
<1> QED
  BY <1>1, <1>2, PTL DEF Spec

\* A fault is reported only when the charger's last two readings both showed it
\* (FAULT_DEBOUNCE_TICKS), whatever is injected, restarted or lost.
THEOREM Debounced == Spec => []ReportsAreDebounced
<1>1. MonitorInv => ReportsAreDebounced
  BY DEF MonitorInv
<1> QED
  BY <1>1, MonitorInvariant, PTL

\* A heartbeat is never sent in the place of a fault that two readings showed.
THEOREM HeartbeatIsHonest == Spec => []HeartbeatHidesNoFault
<1>1. MonitorInv => HeartbeatHidesNoFault
  BY DEF MonitorInv
<1> QED
  BY <1>1, MonitorInvariant, PTL

-----------------------------------------------------------------------------
(***************************************************************************)
(* The consumer's window                                                   *)
(***************************************************************************)

\* The history holds nothing older than the window, and the lists agree with it.
WindowInv ==
    /\ events \in [DbPort -> FaultList]
    /\ receipts \in FaultList
    /\ \A s \in FaultSeverity : receipts[s][Window + 1] = 0
    /\ WindowMatchesReceipts

\* What waits for its commit takes ports out only on enough evidence.
DecisionIsEarned ==
    \A p \in DbPort :
        apply.phase = "commit" /\ apply.assigned[p].status = "maintenance"
            => \/ apply.loaded[p].status = "maintenance"
               \/ apply.evidence >= CriticalThreshold

\* The table has a row of the two columns for every port.
PortsAreRows ==
    port = [p \in DbPort |-> [status |-> port[p].status, risk |-> port[p].risk]]

ConsumerInv == WindowInv /\ DecisionIsEarned /\ PortsAreRows

\* The operations on lists keep their shape and act on the window alone.
LEMMA ListTypes ==
    ASSUME NEW list \in FaultList
    PROVE  /\ \A s \in FaultSeverity : Recorded(list, s) \in FaultList
           /\ Pruned(list) \in FaultList
           /\ Older(list) \in FaultList
           /\ Recent(list) \in FaultList
<1>1. 0 \in FaultAge /\ Window \in FaultAge /\ Window + 1 \in FaultAge
  BY ConsumerAssumption DEF FaultAge
<1>2. \A a \in FaultAge : a # 0 => a - 1 \in FaultAge
  BY ConsumerAssumption DEF FaultAge
<1>3. ASSUME NEW s \in FaultSeverity PROVE Recorded(list, s) \in FaultList
  BY <1>1 DEF FaultList, Recorded
<1>4. Pruned(list) \in FaultList
  BY DEF FaultList, Pruned
<1>5. Older(list) \in FaultList
  BY <1>1, <1>2 DEF FaultList, Older
<1>6. Recent(list) \in FaultList
  BY <1>1 DEF FaultList, Recent
<1> QED
  BY <1>3, <1>4, <1>5, <1>6

\* Lists that agree within the window do so after the same operation on both,
\* and after one of them is pruned.
Agree(list, other) == \A s \in FaultSeverity : InWindow(list[s]) = InWindow(other[s])

LEMMA AgreeCells ==
    ASSUME NEW list \in FaultList, NEW other \in FaultList
    PROVE  Agree(list, other) <=>
              \A s \in FaultSeverity : \A a \in 0 .. Window : list[s][a] = other[s][a]
BY DEF Agree, InWindow

LEMMA RecordAgrees ==
    ASSUME NEW list \in FaultList, NEW other \in FaultList, NEW s \in FaultSeverity,
           Agree(list, other)
    PROVE  Agree(Pruned(Recorded(list, s)), Recorded(other, s))
<1>1. \A t \in FaultSeverity : \A a \in 0 .. Window : list[t][a] = other[t][a]
  BY AgreeCells
<1>2. 0 .. Window \subseteq FaultAge /\ 0 \in FaultAge
  BY ConsumerAssumption DEF FaultAge
<1>3. /\ Recorded(list, s) \in FaultList
      /\ Recorded(other, s) \in FaultList
      /\ Pruned(Recorded(list, s)) \in FaultList
  BY ListTypes
<1>4. \A t \in FaultSeverity : \A a \in 0 .. Window :
         Recorded(list, s)[t][a] = Recorded(other, s)[t][a]
  BY <1>1, <1>2 DEF Recorded, FaultList
<1>5. \A t \in FaultSeverity : \A a \in 0 .. Window :
         Pruned(Recorded(list, s))[t][a] = Recorded(list, s)[t][a]
  BY <1>2, ConsumerAssumption DEF Pruned
<1> QED
  BY <1>3, <1>4, <1>5, AgreeCells

LEMMA PruneAgrees ==
    ASSUME NEW list \in FaultList, NEW other \in FaultList, Agree(list, other)
    PROVE  Agree(Pruned(list), other)
<1>1. 0 .. Window \subseteq FaultAge
  BY ConsumerAssumption DEF FaultAge
<1>2. \A s \in FaultSeverity : \A a \in 0 .. Window : Pruned(list)[s][a] = list[s][a]
  BY <1>1, ConsumerAssumption DEF Pruned
<1> QED
  BY <1>2, ListTypes, AgreeCells

LEMMA TickAgrees ==
    ASSUME NEW list \in FaultList, NEW other \in FaultList, Agree(list, other)
    PROVE  Agree(Older(list), Recent(Older(other)))
<1>1. 0 .. Window \subseteq FaultAge
  BY ConsumerAssumption DEF FaultAge
<1>2. /\ Older(list) \in FaultList
      /\ Older(other) \in FaultList
      /\ Recent(Older(other)) \in FaultList
  BY ListTypes
<1>3. ASSUME NEW s \in FaultSeverity, NEW a \in 0 .. Window
      PROVE  Older(list)[s][a] = Older(other)[s][a]
  <2>1. a # Window + 1 /\ (a # 0 => a - 1 \in 0 .. Window)
    BY ConsumerAssumption
  <2> QED
    BY <1>1, <2>1, AgreeCells DEF Older
<1>4. ASSUME NEW s \in FaultSeverity, NEW a \in 0 .. Window
      PROVE  Recent(Older(other))[s][a] = Older(other)[s][a]
  <2>1. a # Window + 1
    BY ConsumerAssumption
  <2> QED
    BY <1>1, <1>2, <2>1 DEF Recent, FaultList
<1> QED
  BY <1>2, <1>3, <1>4, AgreeCells

-----------------------------------------------------------------------------
(***************************************************************************)
(* Every action keeps the window and the decisions                         *)
(***************************************************************************)

LEMMA ConsumerStarts == ConsumerInit => ConsumerInv
<1>1. NoFaults \in FaultList
  BY DEF NoFaults, FaultList
<1>2. \A s \in FaultSeverity : NoFaults[s][Window + 1] = 0
  BY ConsumerAssumption DEF NoFaults, FaultAge
<1> QED
  BY <1>1, <1>2 DEF ConsumerInit, ConsumerInv, WindowInv, WindowMatchesReceipts,
     DecisionIsEarned, Idle, PortsAreRows, BlankPorts, NewPort

LEMMA WindowAgrees ==
    WindowMatchesReceipts <=> \A p \in DbPort : Agree(events[p], receipts)
BY DEF WindowMatchesReceipts, Agree

LEMMA WindowAgreesNext ==
    WindowMatchesReceipts' <=> \A p \in DbPort : Agree(events'[p], receipts')
BY DEF WindowMatchesReceipts, Agree

\* A pruned list that agrees with the history within the window is the history:
\* neither holds anything older.
LEMMA PrunedIsHistory ==
    ASSUME NEW list \in FaultList, NEW other \in FaultList, Agree(Pruned(list), other),
           \A s \in FaultSeverity : other[s][Window + 1] = 0
    PROVE  Pruned(list) = other
<1>1. FaultAge = 0 .. Window \cup {Window + 1}
  BY ConsumerAssumption DEF FaultAge
<1>2. \A s \in FaultSeverity : Pruned(list)[s][Window + 1] = 0
  BY <1>1, ConsumerAssumption DEF Pruned
<1>3. \A s \in FaultSeverity : \A a \in FaultAge : Pruned(list)[s][a] = other[s][a]
  BY <1>1, <1>2, ListTypes, AgreeCells
<1>4. /\ Pruned(list) \in FaultList
      /\ other \in FaultList
  BY ListTypes
<1>5. \A s \in FaultSeverity : Pruned(list)[s] = other[s]
  BY <1>3, <1>4 DEF FaultList
<1> QED
  BY <1>4, <1>5 DEF FaultList

LEMMA ReceiveKeeps ==
    ASSUME ConsumerInv, NEW severity, Receive(severity)
    PROVE  ConsumerInv'
<1>1. severity \in FaultSeverity
  BY DEF Receive
<1>2. /\ events' = [p \in DbPort |-> Pruned(Recorded(events[p], severity))]
      /\ receipts' = Recorded(receipts, severity)
      /\ apply' = [phase |-> "commit", loaded |-> port,
                   assigned |-> [p \in DbPort |-> Decided(port[p], events'[p])],
                   evidence |-> Counted(receipts', "critical")]
  BY DEF Receive
<1>3. receipts' \in FaultList
  BY <1>1, <1>2, ListTypes DEF ConsumerInv, WindowInv
<1>4. \A p \in DbPort : Recorded(events[p], severity) \in FaultList /\ events'[p] \in FaultList
  BY <1>1, <1>2, ListTypes DEF ConsumerInv, WindowInv
<1>5. \A s \in FaultSeverity : receipts'[s][Window + 1] = 0
  <2>1. 0 \in FaultAge /\ 0 # Window + 1
    BY ConsumerAssumption DEF FaultAge
  <2> QED
    BY <1>1, <1>2, <2>1 DEF ConsumerInv, WindowInv, Recorded, FaultList
<1>6. \A p \in DbPort : Agree(events'[p], receipts')
  BY <1>1, <1>2, RecordAgrees, WindowAgrees DEF ConsumerInv, WindowInv
<1>7. WindowInv'
  BY <1>2, <1>3, <1>4, <1>5, <1>6, WindowAgreesNext DEF WindowInv
<1>8. \A p \in DbPort : events'[p] = receipts'
  BY <1>2, <1>3, <1>4, <1>5, <1>6, PrunedIsHistory
<1>9. DecisionIsEarned'
  <2>1. \A p \in DbPort :
           Decided(port[p], receipts').status = "maintenance" =>
              \/ port[p].status = "maintenance"
              \/ Counted(receipts', "critical") >= CriticalThreshold
    BY DEF Decided
  <2>2. /\ apply'.loaded = port
        /\ apply'.evidence = Counted(receipts', "critical")
        /\ \A p \in DbPort : apply'.assigned[p] = Decided(port[p], receipts')
    BY <1>2, <1>8
  <2> QED
    BY <2>1, <2>2 DEF DecisionIsEarned
<1>10. port' = port
  BY DEF Receive
<1> QED
  BY <1>7, <1>9, <1>10 DEF ConsumerInv, PortsAreRows

LEMMA SummariseKeeps == ConsumerInv /\ Summarise => ConsumerInv'
<1> SUFFICES ASSUME ConsumerInv, Summarise PROVE ConsumerInv'
  OBVIOUS
<1>1. /\ events' = [p \in DbPort |-> Pruned(events[p])]
      /\ receipts' = receipts /\ apply' = apply /\ port' = port
  BY DEF Summarise
<1>2. \A p \in DbPort : events'[p] \in FaultList /\ Agree(events'[p], receipts)
  BY <1>1, ListTypes, PruneAgrees, WindowAgrees DEF ConsumerInv, WindowInv
<1>3. WindowInv'
  BY <1>1, <1>2, WindowAgreesNext DEF ConsumerInv, WindowInv
<1> QED
  BY <1>1, <1>3 DEF ConsumerInv, DecisionIsEarned, PortsAreRows

LEMMA ConsumerTickKeeps == ConsumerInv /\ ConsumerTick => ConsumerInv'
<1> SUFFICES ASSUME ConsumerInv, ConsumerTick PROVE ConsumerInv'
  OBVIOUS
<1>1. /\ events' = [p \in DbPort |-> Older(events[p])]
      /\ receipts' = Recent(Older(receipts))
      /\ apply' = apply /\ port' = port
  BY DEF ConsumerTick
<1>2. \A p \in DbPort : events'[p] \in FaultList /\ Agree(events'[p], receipts')
  BY <1>1, ListTypes, TickAgrees, WindowAgrees DEF ConsumerInv, WindowInv
<1>3. receipts' \in FaultList /\ Older(receipts) \in FaultList
  BY <1>1, ListTypes DEF ConsumerInv, WindowInv
<1>4. \A s \in FaultSeverity : receipts'[s][Window + 1] = 0
  <2>1. Window + 1 \in FaultAge
    BY ConsumerAssumption DEF FaultAge
  <2> QED
    BY <1>1, <1>3, <2>1 DEF Recent, FaultList, FaultSeverity
<1>5. WindowInv'
  BY <1>1, <1>2, <1>3, <1>4, WindowAgreesNext DEF WindowInv
<1> QED
  BY <1>1, <1>5 DEF ConsumerInv, DecisionIsEarned, PortsAreRows

LEMMA ConsumerRestartKeeps == ConsumerInv /\ ConsumerRestart => ConsumerInv'
<1> SUFFICES ASSUME ConsumerInv, ConsumerRestart PROVE ConsumerInv'
  OBVIOUS
<1>1. NoFaults \in FaultList
  BY DEF NoFaults, FaultList
<1>2. \A s \in FaultSeverity : NoFaults[s][Window + 1] = 0
  BY ConsumerAssumption DEF NoFaults, FaultAge
<1>3. /\ events' = [p \in DbPort |-> NoFaults] /\ receipts' = NoFaults
      /\ apply'.phase = "idle" /\ port' = port
  BY DEF ConsumerRestart, Idle
<1> QED
  BY <1>1, <1>2, <1>3 DEF ConsumerInv, WindowInv, WindowMatchesReceipts, DecisionIsEarned,
     PortsAreRows

\* What a commit writes, and what the other writers write, are rows.
LEMMA CommitWrites ==
    ASSUME CommitFault
    PROVE  /\ PortsAreRows'
           /\ \A p \in DbPort : port'[p].status =
                 IF apply.assigned[p].status = apply.loaded[p].status
                 THEN port[p].status ELSE apply.assigned[p].status
BY DEF CommitFault, Written, PortsAreRows

LEMMA SetWrites ==
    ASSUME PortsAreRows, NEW q \in DbPort, NEW from, NEW to, SetStatus(q, from, to)
    PROVE  /\ PortsAreRows'
           /\ \A p \in DbPort : port'[p].status = IF p = q THEN to ELSE port[p].status
<1>1. port[q] = [status |-> port[q].status, risk |-> port[q].risk]
  BY DEF PortsAreRows
<1>2. DOMAIN port = DbPort
  BY DEF PortsAreRows
<1>3. port' = [p \in DbPort |-> IF p = q THEN [port[q] EXCEPT !.status = to] ELSE port[p]]
  BY <1>2 DEF SetStatus
<1>4. [port[q] EXCEPT !.status = to] = [status |-> to, risk |-> port[q].risk]
  BY <1>1
<1>5. \A p \in DbPort : port'[p] = [status |-> IF p = q THEN to ELSE port[p].status,
                                    risk |-> port[p].risk]
  BY <1>3, <1>4 DEF PortsAreRows
<1> QED
  BY <1>3, <1>5 DEF PortsAreRows

\* The other actions touch neither a list nor, unless they empty it, the
\* decision that waits.
LEMMA OthersKeep ==
    ASSUME ConsumerInv, UNCHANGED <<events, receipts>>,
           apply' = apply \/ apply'.phase = "idle",
           PortsAreRows' \/ port' = port
    PROVE  ConsumerInv'
BY DEF ConsumerInv, WindowInv, WindowMatchesReceipts, DecisionIsEarned, PortsAreRows

LEMMA ConsumeKeeps == ConsumerInv /\ Consume => ConsumerInv'
<1> SUFFICES ASSUME ConsumerInv, Consume PROVE ConsumerInv'
  OBVIOUS
<1>1. CASE CommitFault
  BY <1>1, OthersKeep, CommitWrites DEF CommitFault, Idle
<1>5. CASE FailFault
  BY <1>5, OthersKeep DEF FailFault, Idle
<1>2. CASE Summarise
  BY <1>2, SummariseKeeps
<1>3. CASE ConsumerRestart
  BY <1>3, ConsumerRestartKeeps
<1>4. CASE \E p \in DbPort : StartCharging(p) \/ EndCharging(p) \/ Repair(p)
  <2>1. PICK p \in DbPort : StartCharging(p) \/ EndCharging(p) \/ Repair(p)
    BY <1>4
  <2>2. \E from, to : SetStatus(p, from, to)
    BY <2>1 DEF StartCharging, EndCharging, Repair
  <2>3. PortsAreRows'
    BY <2>2, SetWrites DEF ConsumerInv
  <2>4. UNCHANGED <<events, apply, receipts>>
    BY <2>2 DEF SetStatus
  <2> QED
    BY <2>3, <2>4, OthersKeep
<1> QED
  BY <1>1, <1>2, <1>3, <1>4, <1>5 DEF Consume

LEMMA ConsumerInvariant == Spec => []ConsumerInv
<1>1. Init => ConsumerInv
  BY ConsumerStarts DEF Init
<1>2. ConsumerInv /\ [Next]_vars => ConsumerInv'
  <2> SUFFICES ASSUME ConsumerInv, [Next]_vars PROVE ConsumerInv'
    OBVIOUS
  <2>1. ASSUME NEW k \in Charger, NEW reading \in Readings, Publish(k, reading)
        PROVE  ConsumerInv'
    BY <2>1, OthersKeep DEF Publish, consumerVars
  <2>2. CASE Deliver
    BY <2>2, ReceiveKeeps DEF Deliver
  <2>3. CASE Ignore \/ Lose
    BY <2>3, OthersKeep DEF Ignore, Lose, consumerVars
  <2>4. CASE Consume
    BY <2>4, ConsumeKeeps
  <2>5. CASE Restart
    BY <2>5, OthersKeep DEF Restart, consumerVars
  <2>6. CASE Tick
    BY <2>6, ConsumerTickKeeps DEF Tick
  <2>7. CASE UNCHANGED vars
    BY <2>7, OthersKeep DEF vars, consumerVars
  <2> QED
    BY <2>1, <2>2, <2>3, <2>4, <2>5, <2>6, <2>7 DEF Next
<1> QED
  BY <1>1, <1>2, PTL DEF Spec

\* A port's list counts exactly the faults received for it within the window
\* since the process started (_prune_and_count, _record_event).
THEOREM WindowIsExact == Spec => []WindowMatchesReceipts
<1>1. ConsumerInv => WindowMatchesReceipts
  BY DEF ConsumerInv, WindowInv
<1> QED
  BY <1>1, ConsumerInvariant, PTL

\* Only a message that arrived as the second critical fault within a window, or
\* a later one, takes a port out of service (_apply_fault).
THEOREM EarnedMaintenance == Spec => MaintenanceIsEarned
<1> DEFINE Earned == \A p \in DbPort :
              port[p].status # "maintenance" /\ port'[p].status = "maintenance"
                 => apply.evidence >= CriticalThreshold
<1>1. ConsumerInv /\ [Next]_vars => [Earned]_consumerVars
  <2> SUFFICES ASSUME ConsumerInv, [Next]_vars, consumerVars' # consumerVars PROVE Earned
    OBVIOUS
  <2>1. CASE port' = port
    BY <2>1
  <2>2. CASE CommitFault
    <3> SUFFICES ASSUME NEW p \in DbPort, port[p].status # "maintenance",
                        port'[p].status = "maintenance"
                 PROVE  apply.evidence >= CriticalThreshold
      OBVIOUS
    <3>1. /\ apply.phase = "commit"
          /\ port'[p].status = IF apply.assigned[p].status = apply.loaded[p].status
                               THEN port[p].status ELSE apply.assigned[p].status
      BY <2>2, CommitWrites DEF CommitFault
    <3> QED
      BY <3>1 DEF ConsumerInv, DecisionIsEarned
  <2>3. CASE \E p \in DbPort : StartCharging(p) \/ EndCharging(p) \/ Repair(p)
    <3>1. PICK q \in DbPort : StartCharging(q) \/ EndCharging(q) \/ Repair(q)
      BY <2>3
    <3>2. PICK to \in {"occupied", "available"} : \E from : SetStatus(q, from, to)
      BY <3>1 DEF StartCharging, EndCharging, Repair
    <3>3. \A p \in DbPort : port'[p].status = IF p = q THEN to ELSE port[p].status
      BY <3>2, SetWrites DEF ConsumerInv
    <3> QED
      BY <3>2, <3>3
  <2>4. ASSUME NEW k \in Charger, NEW reading \in Readings, Publish(k, reading)
        PROVE  port' = port
    BY <2>4 DEF Publish, consumerVars
  <2>5. Deliver \/ Ignore \/ Lose \/ Restart \/ Tick \/ UNCHANGED vars => port' = port
    BY DEF Deliver, Receive, Ignore, Lose, Restart, Tick, ConsumerTick, vars, consumerVars
  <2>6. FailFault \/ Summarise \/ ConsumerRestart => port' = port
    BY DEF FailFault, Summarise, ConsumerRestart
  <2> QED
    BY <2>1, <2>2, <2>3, <2>4, <2>5, <2>6 DEF Next, Consume
<1> QED
  BY <1>1, ConsumerInvariant, PTL DEF Spec, MaintenanceIsEarned

-----------------------------------------------------------------------------
(***************************************************************************)
(* Types                                                                   *)
(***************************************************************************)

LEMMA CountedType ==
    ASSUME NEW list \in FaultList, NEW s \in FaultSeverity
    PROVE  Counted(list, s) \in Nat
<1>1. IsFiniteSet(FaultAge)
  BY ConsumerAssumption, FS_Interval DEF FaultAge
<1>2. \A a \in FaultAge : list[s][a] \in Nat
  BY DEF FaultList
<1> QED
  BY <1>1, <1>2, SumType DEF Counted

\* What is decided on a row is a row.
LEMMA DecidedType ==
    ASSUME NEW row \in PortRow, NEW list \in FaultList
    PROVE  Decided(row, list) \in PortRow
<1>1. Counted(list, "critical") \in Nat /\ Counted(list, "warning") \in Nat
  BY CountedType DEF FaultSeverity
<1>2. Risk(list) \in Nat
  BY <1>1 DEF Risk
<1> QED
  BY <1>2 DEF Decided, PortRow, PortStatus

LEMMA BlankType == BlankPorts \in [DbPort -> PortRow]
BY DEF BlankPorts, NewPort, PortRow, PortStatus

Unit ==
    [phase : {"idle", "commit"}, loaded : [DbPort -> PortRow],
     assigned : [DbPort -> PortRow], evidence : Nat]

LEMMA IdleType == Idle(BlankPorts) \in Unit
BY BlankType DEF Idle, Unit

LEMMA ReceiveTypes ==
    ASSUME ConsumerTypeOK, ConsumerInv', NEW severity, Receive(severity)
    PROVE  ConsumerTypeOK'
<1>1. events' \in [DbPort -> FaultList] /\ receipts' \in FaultList
  BY DEF ConsumerInv, WindowInv
<1>2. PICK assigned : assigned = [p \in DbPort |-> Decided(port[p], events'[p])]
  OBVIOUS
<1>3. PICK evidence : evidence = Counted(receipts', "critical")
  OBVIOUS
<1>4. apply' = [phase |-> "commit", loaded |-> port, assigned |-> assigned, evidence |-> evidence]
      /\ port' = port
  BY <1>2, <1>3 DEF Receive
<1>5. port \in [DbPort -> PortRow]
  BY DEF ConsumerTypeOK
<1>6. assigned \in [DbPort -> PortRow]
  BY <1>1, <1>2, <1>5, DecidedType
<1>7. evidence \in Nat
  BY <1>1, <1>3, CountedType DEF FaultSeverity
<1> QED
  BY <1>1, <1>4, <1>5, <1>6, <1>7 DEF ConsumerTypeOK

LEMMA ConsumeTypes ==
    ASSUME ConsumerTypeOK, ConsumerInv', Consume
    PROVE  ConsumerTypeOK'
<1>1. events' \in [DbPort -> FaultList] /\ receipts' \in FaultList
  BY DEF ConsumerInv, WindowInv
<1>2. port \in [DbPort -> PortRow] /\ apply \in Unit
  BY DEF ConsumerTypeOK, Unit
<1> SUFFICES port' \in [DbPort -> PortRow] /\ apply' \in Unit
  BY <1>1 DEF ConsumerTypeOK, Unit
<1>3. CASE CommitFault
  <2>1. \A p \in DbPort : apply.loaded[p] \in PortRow /\ apply.assigned[p] \in PortRow
    BY <1>2 DEF Unit
  <2>2. \A p \in DbPort : Written(port[p], apply.loaded[p], apply.assigned[p]) \in PortRow
    BY <1>2, <2>1 DEF Written, PortRow
  <2> QED
    BY <1>3, <2>2, IdleType DEF CommitFault
<1>4. CASE FailFault
  BY <1>2, <1>4, IdleType DEF FailFault
<1>5. CASE Summarise
  BY <1>2, <1>5 DEF Summarise
<1>6. CASE ConsumerRestart
  BY <1>2, <1>6, IdleType DEF ConsumerRestart
<1>7. CASE \E p \in DbPort : StartCharging(p) \/ EndCharging(p) \/ Repair(p)
  <2>1. PICK p \in DbPort : StartCharging(p) \/ EndCharging(p) \/ Repair(p)
    BY <1>7
  <2>2. PICK to \in PortStatus : port' = [port EXCEPT ![p].status = to] /\ apply' = apply
    BY <2>1 DEF StartCharging, EndCharging, Repair, SetStatus, PortStatus
  <2>3. [port[p] EXCEPT !.status = to] \in PortRow
    BY <1>2 DEF PortRow
  <2> QED
    BY <1>2, <2>2, <2>3
<1> QED
  BY <1>3, <1>4, <1>5, <1>6, <1>7 DEF Consume

\* The types that no other invariant gives: the table, the unit of work, the wire.
LEMMA TypesStep ==
    ASSUME TypeOK, MonitorInv', ConsumerInv', [Next]_vars
    PROVE  TypeOK'
<1>1. MonitorTypeOK'
  BY DEF MonitorInv
<1>2. wire \in Seq(FaultSeverity \cup {"info"}) /\ ConsumerTypeOK
  BY DEF TypeOK
<1>3. wire # << >> => /\ Tail(wire) \in Seq(FaultSeverity \cup {"info"})
  BY <1>2
<1>4. ASSUME NEW k \in Charger, NEW reading \in Readings, Publish(k, reading)
      PROVE  ConsumerTypeOK' /\ wire' \in Seq(FaultSeverity \cup {"info"})
  <2>1. Severity(said'[k]) \in FaultSeverity \cup {"info"}
    BY DEF Severity, FaultSeverity
  <2>2. wire' = wire \/ wire' = Append(wire, Severity(said'[k]))
    BY <1>4 DEF Publish
  <2>3. wire' \in Seq(FaultSeverity \cup {"info"})
    BY <1>2, <2>1, <2>2
  <2> QED
    BY <1>2, <1>4, <2>3 DEF Publish, consumerVars, ConsumerTypeOK
<1>5. CASE Deliver
  <2>1. ConsumerTypeOK'
    BY <1>2, <1>5, ReceiveTypes DEF Deliver
  <2> QED
    BY <1>1, <1>3, <1>5, <2>1 DEF Deliver, TypeOK
<1>6. CASE Ignore \/ Lose
  BY <1>1, <1>2, <1>3, <1>6 DEF Ignore, Lose, consumerVars, ConsumerTypeOK, TypeOK
<1>7. CASE Consume
  <2>1. ConsumerTypeOK'
    BY <1>2, <1>7, ConsumeTypes
  <2> QED
    BY <1>1, <1>2, <1>7, <2>1 DEF Consume, TypeOK
<1>8. CASE Restart
  BY <1>1, <1>2, <1>8 DEF Restart, consumerVars, ConsumerTypeOK, TypeOK
<1>9. CASE Tick
  <2>1. events' \in [DbPort -> FaultList] /\ receipts' \in FaultList
    BY DEF ConsumerInv, WindowInv
  <2> QED
    BY <1>1, <1>2, <1>9, <2>1 DEF Tick, ConsumerTick, ConsumerTypeOK, TypeOK
<1>10. CASE UNCHANGED vars
  BY <1>1, <1>2, <1>10 DEF vars, consumerVars, ConsumerTypeOK, TypeOK
<1> QED
  BY <1>1, <1>4, <1>5, <1>6, <1>7, <1>8, <1>9, <1>10 DEF Next, TypeOK

\* Every reachable state is well typed, for any chargers, ports, window and bounds: a
\* port's risk is a number because a sum of counts is one.
THEOREM TypeCorrect == Spec => []TypeOK
<1>1. Init => TypeOK
  <2> SUFFICES ASSUME Init PROVE TypeOK
    OBVIOUS
  <2>1. MonitorTypeOK
    BY MonitorStarts DEF Init, MonitorInv
  <2>2. ConsumerTypeOK
    BY ConsumerStarts, BlankType, IdleType
       DEF Init, ConsumerInit, ConsumerInv, WindowInv, ConsumerTypeOK, Unit
  <2>3. wire \in Seq(FaultSeverity \cup {"info"})
    BY DEF Init
  <2> QED
    BY <2>1, <2>2, <2>3 DEF TypeOK
<1> QED
  BY <1>1, TypesStep, MonitorInvariant, ConsumerInvariant, PTL DEF Spec

=============================================================================
