----------------------------- MODULE FaultPipeline -----------------------------
(***************************************************************************)
(* From a charger's readings to its status in the app: the charger monitor *)
(* publishes what it reports on charger/fault/{id} with QoS 0, the broker  *)
(* delivers in order or not at all, and the fault consumer applies what it *)
(* gets.  Time passes for both; either may restart on its own.             *)
(***************************************************************************)
EXTENDS ChargerMonitor, FaultConsumer, Sequences

CONSTANT
    MaxWire         \* bound: reports in transit

ASSUME WireAssumption == MaxWire \in Nat \ {0}

VARIABLE wire       \* the severities of the reports in transit

vars == <<monitorVars, consumerVars, wire>>

Init ==
    /\ MonitorInit
    /\ ConsumerInit
    /\ wire = <<>>

\* A reading is evaluated, and what is reported is published.
Publish(k, reading) ==
    /\ Len(wire) < MaxWire
    /\ Evaluate(k, reading)
    /\ wire' = IF said'[k] = "nothing" THEN wire ELSE Append(wire, Severity(said'[k]))
    /\ UNCHANGED consumerVars

\* The consumer's network thread handles one message at a time.
Deliver ==
    /\ wire # <<>>
    /\ Receive(Head(wire))
    /\ wire' = Tail(wire)
    /\ UNCHANGED monitorVars

\* A message without a fault to apply is dropped by its handler; any message may
\* be lost on the way.
Ignore ==
    /\ wire # <<>>
    /\ Head(wire) = "info"
    /\ apply.phase = "idle"
    /\ wire' = Tail(wire)
    /\ UNCHANGED <<monitorVars, consumerVars>>

Lose ==
    /\ wire # <<>>
    /\ wire' = Tail(wire)
    /\ UNCHANGED <<monitorVars, consumerVars>>

Consume ==
    /\ \/ CommitFault
       \/ FailFault
       \/ Summarise
       \/ ConsumerRestart
       \/ \E p \in DbPort : StartCharging(p) \/ EndCharging(p) \/ Repair(p)
    /\ UNCHANGED <<monitorVars, wire>>

Restart == MonitorRestart /\ UNCHANGED <<consumerVars, wire>>

Tick == MonitorTick /\ ConsumerTick /\ UNCHANGED wire

Next ==
    \/ \E k \in Charger, reading \in Readings : Publish(k, reading)
    \/ Deliver
    \/ Ignore
    \/ Lose
    \/ Consume
    \/ Restart
    \/ Tick

Spec == Init /\ [][Next]_vars

TypeOK ==
    /\ MonitorTypeOK
    /\ ConsumerTypeOK
    /\ wire \in Seq(FaultSeverity \cup {"info"})

=============================================================================
