------------------------------ MODULE FeederGrid ------------------------------
(***************************************************************************)
(* The grid simulator (simulation/grid_sim.py): it keeps the last power    *)
(* each charger and kiosk of a feeder reported and whether the scenario    *)
(* overloads the grid, both from MQTT at QoS 0, and publishes the load of  *)
(* the feeder from them, from another thread.  The power flow and the      *)
(* electrical readings derived from the load are left out.                 *)
(***************************************************************************)
EXTENDS Integers, Sequences, FiniteSets, FiniteSetsExt

CONSTANTS
    Plug,           \* the feeder's chargers and kiosks
    Power,          \* Plug -> its power_kw while it charges
    Stress,         \* what an overload adds: 85% of the feeder's capacity
    MaxWire         \* bound: messages on their way

ASSUME GridAssumption ==
    /\ IsFiniteSet(Plug) /\ "scenario/active" \notin Plug
    /\ Power \in [Plug -> Nat] /\ Stress \in Nat /\ MaxWire \in Nat

VARIABLES
    plug,           \* whether each plug charges
    overload,       \* whether the scenario in force overloads the grid
    wire,           \* the messages on their way to the simulator
    deaf,           \* its connection was lost: it is never subscribed again
    draw,           \* _draw_by_key
    stressed,       \* GridStressState._feeder_overload
    step,           \* the main loop: <<the sum it has taken>>, or nothing
    reading,        \* <<the load last published>>, or nothing yet
    behind,         \* history: whose last message never came
    calm            \* history: nothing was handled since the loop took its sum

gridVars ==
    <<plug, overload, wire, deaf, draw, stressed, step, reading, behind, calm>>

NoSum == << >>
Scenario == "scenario/active"
Topics == Plug \cup {Scenario}

Drawn(on) == [k \in Plug |-> IF on[k] THEN Power[k] ELSE 0]
Total(draws) == MapThenSumSet(LAMBDA k : draws[k], Plug)
Stressed(load, hot) == IF hot THEN load + Stress ELSE load

\* Everything is idle when the simulator subscribes.
GridInit ==
    /\ plug = [k \in Plug |-> FALSE]
    /\ overload = FALSE
    /\ wire = << >> /\ deaf = FALSE
    /\ draw = [k \in Plug |-> 0] /\ stressed = FALSE
    /\ step = NoSum /\ reading = NoSum
    /\ behind = {} /\ calm = FALSE

\* A message goes out to whoever is subscribed.
GoesOut(topic, value) ==
    IF deaf THEN behind' = behind \cup {topic} /\ UNCHANGED wire
    ELSE wire' = Append(wire, [topic |-> topic, value |-> value]) /\ UNCHANGED behind

\* A charger starts or ends a session, or repeats its reading.
PlugReports(k) ==
    /\ Len(wire) < MaxWire
    /\ \E on \in BOOLEAN :
         plug' = [plug EXCEPT ![k] = on] /\ GoesOut(k, Drawn(plug')[k])
    /\ UNCHANGED <<overload, deaf, draw, stressed, step, reading, calm>>

ScenarioReports ==
    /\ Len(wire) < MaxWire
    /\ overload' \in BOOLEAN
    /\ GoesOut(Scenario, overload')
    /\ UNCHANGED <<plug, deaf, draw, stressed, step, reading, calm>>

\* A wrong Handle: a power of nought counts as missing.
HandleUnlessZero ==
    /\ wire # << >>
    /\ LET m == Head(wire) IN
         /\ IF m.topic = Scenario THEN stressed' = m.value /\ UNCHANGED draw
            ELSE /\ draw' = IF m.value = 0 THEN draw ELSE [draw EXCEPT ![m.topic] = m.value]
                 /\ UNCHANGED stressed
         /\ behind' = behind \ {m.topic}
    /\ wire' = Tail(wire) /\ calm' = FALSE
    /\ UNCHANGED <<plug, overload, deaf, step, reading>>

\* on_message and the scenario's handler, on the network's thread.
Handle ==
    /\ wire # << >>
    /\ LET m == Head(wire) IN
         /\ IF m.topic = Scenario THEN stressed' = m.value /\ UNCHANGED draw
            ELSE draw' = [draw EXCEPT ![m.topic] = m.value] /\ UNCHANGED stressed
         /\ behind' = behind \ {m.topic}
    /\ wire' = Tail(wire) /\ calm' = FALSE
    /\ UNCHANGED <<plug, overload, deaf, step, reading>>

\* QoS 0: the broker drops a message.
Lose ==
    /\ wire # << >>
    /\ behind' = behind \cup {Head(wire).topic}
    /\ wire' = Tail(wire)
    /\ UNCHANGED <<plug, overload, deaf, draw, stressed, step, reading, calm>>

\* The connection is lost, with its clean session: paho reconnects, but main()
\* subscribes only once.
Disconnect ==
    /\ ~deaf
    /\ deaf' = TRUE
    /\ behind' = behind \cup {wire[i].topic : i \in DOMAIN wire}
    /\ wire' = << >>
    /\ UNCHANGED <<plug, overload, draw, stressed, step, reading, calm>>

\* The main loop sums the draws under one lock, and adds the stress under another.
SumDraws ==
    /\ step = NoSum
    /\ step' = <<Total(draw)>>
    /\ calm' = TRUE
    /\ UNCHANGED <<plug, overload, wire, deaf, draw, stressed, reading, behind>>

PublishLoad ==
    /\ step # NoSum
    /\ reading' = <<Stressed(step[1], stressed)>>
    /\ step' = NoSum
    /\ UNCHANGED <<plug, overload, wire, deaf, draw, stressed, behind, calm>>

GridNext ==
    \/ \E k \in Plug : PlugReports(k)
    \/ ScenarioReports \/ Handle \/ Lose \/ Disconnect \/ SumDraws \/ PublishLoad

GridSpec == GridInit /\ [][GridNext]_gridVars

-----------------------------------------------------------------------------
OnTheWay(topic) == \E i \in DOMAIN wire : wire[i].topic = topic

\* The simulator has each plug's power and the scenario's stress once their messages
\* are in, whatever was lost before (grid_sim.py:183-191); and a load published while
\* nothing was handled since its sum is that of every plug and of the scenario, though
\* the two are read under different locks (grid_sim.py:225).
LoadFollowsPlugs ==
    LET heard(topic) == topic \notin behind /\ ~OnTheWay(topic)
    IN /\ \A k \in Plug : heard(k) => draw[k] = Drawn(plug)[k]
       /\ heard(Scenario) => stressed = overload
       /\ calm /\ step = NoSum /\ (\A topic \in Topics : heard(topic)) =>
            reading = <<Stressed(Total(Drawn(plug)), overload)>>

=============================================================================
