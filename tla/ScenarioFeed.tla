----------------------------- MODULE ScenarioFeed -----------------------------
(***************************************************************************)
(* How a scenario reaches the simulators: the backend commits it to the    *)
(* station's ports (scenario_engine.apply_scenario), then publishes it on  *)
(* a retained topic through a client it connects on first use              *)
(* (routers/simulation.py).  The simulators (grid_sim.py, traci_bridge.py) *)
(* subscribe once, when they start.  The broker keeps nothing across its   *)
(* own restarts (infra/mosquitto/mosquitto.conf).                          *)
(***************************************************************************)
EXTENDS Naturals, Sequences

CONSTANTS
    Preset,         \* SCENARIOS
    NoScenario,     \* none so far
    Activator,         \* requests in the backend
    Simulator,      \* who listens
    MaxFeed         \* bound: messages on their way to a simulator

ASSUME FeedAssumption == NoScenario \notin Preset /\ MaxFeed \in Nat

VARIABLES
    ports,          \* the scenario last committed to the ports
    request,        \* Activator -> its phase and scenario
    client,         \* _mqtt_client: "none", made, not yet or never connected, or up or cut off
    broker,         \* whether the broker is up
    retained,       \* the message it retains
    hears,          \* the simulators that are connected and subscribed
    feed,           \* the messages on their way to each simulator
    heard,          \* the scenario each simulator runs
    told,           \* history: the scenario that last got to the broker
    missed,         \* history: simulators that lost a message or their subscription
    forgotten,      \* history: the broker restarted since
    failed,         \* history: a publication of this round failed
    crossed      \* history: two requests of this round were under way at once

feedVars == <<ports, request, client, broker, retained, hears, feed, heard,
              told, missed, forgotten, failed, crossed>>

NoRequest == [phase |-> "idle", scenario |-> NoScenario]
UnderWay == {t \in Activator : request[t] # NoRequest}

FeedInit ==
    /\ ports = NoScenario /\ request = [t \in Activator |-> NoRequest]
    /\ client = "none" /\ broker = TRUE /\ retained = NoScenario
    /\ hears = Simulator /\ feed = [s \in Simulator |-> << >>]
    /\ heard = [s \in Simulator |-> NoScenario]
    /\ told = NoScenario /\ missed = {} /\ forgotten = FALSE
    /\ failed = FALSE /\ crossed = FALSE

\* apply_scenario: every port and the queue are assigned, and committed.
Apply(t, scenario) ==
    /\ request[t] = NoRequest
    /\ ports' = scenario
    /\ request' = [request EXCEPT ![t] = [phase |-> "applied", scenario |-> scenario]]
    /\ failed' = IF UnderWay = {} THEN FALSE ELSE failed
    /\ crossed' = (UnderWay # {})
    /\ UNCHANGED <<client, broker, retained, hears, feed, heard, told, missed, forgotten>>

\* _get_mqtt_client sets the global before it connects.
MakeClient(t) ==
    /\ request[t].phase = "applied" /\ client = "none"
    /\ client' = "made"
    /\ request' = [request EXCEPT ![t].phase = "connecting"]
    /\ UNCHANGED <<ports, broker, retained, hears, feed, heard, told, missed, forgotten, failed, crossed>>

Connect(t) ==
    /\ request[t].phase = "connecting" /\ broker
    /\ client' = "up"
    /\ request' = [request EXCEPT ![t].phase = "applied"]
    /\ UNCHANGED <<ports, broker, retained, hears, feed, heard, told, missed, forgotten, failed, crossed>>

\* The broker is down: the request fails, with its scenario committed, and the client
\* stays as it is, never to be connected.
ConnectFails(t) ==
    /\ request[t].phase = "connecting" /\ ~broker
    /\ request' = [request EXCEPT ![t] = NoRequest]
    /\ failed' = TRUE
    /\ UNCHANGED <<ports, client, broker, retained, hears, feed, heard, told, missed, forgotten, crossed>>

Sent(scenario) ==
    [s \in Simulator |-> IF s \in hears THEN Append(feed[s], scenario) ELSE feed[s]]

\* A wrong Announce: the message is not retained.
AnnounceOnce(t) ==
    /\ request[t].phase = "applied" /\ client # "none"
    /\ \A s \in Simulator : Len(feed[s]) < MaxFeed
    /\ IF client = "up" THEN
          /\ told' = request[t].scenario
          /\ feed' = Sent(told') /\ missed' = missed \cup (Simulator \ hears)
          /\ forgotten' = FALSE /\ UNCHANGED <<failed, retained>>
       ELSE failed' = TRUE /\ UNCHANGED <<retained, told, feed, missed, forgotten>>
    /\ request' = [request EXCEPT ![t] = NoRequest]
    /\ UNCHANGED <<ports, client, broker, hears, heard, crossed>>

\* The scenario is published at QoS 0: it is gone if the client is not connected, and
\* the request is answered all the same.
Announce(t) ==
    /\ request[t].phase = "applied" /\ client # "none"
    /\ \A s \in Simulator : Len(feed[s]) < MaxFeed
    /\ IF client = "up" THEN
          /\ told' = request[t].scenario /\ retained' = told'
          /\ feed' = Sent(told') /\ missed' = missed \cup (Simulator \ hears)
          /\ forgotten' = FALSE /\ UNCHANGED failed
       ELSE failed' = TRUE /\ UNCHANGED <<retained, told, feed, missed, forgotten>>
    /\ request' = [request EXCEPT ![t] = NoRequest]
    /\ UNCHANGED <<ports, client, broker, hears, heard, crossed>>

\* _on_scenario_message: the simulator takes the scenario's axes over.
Hear(s) ==
    /\ feed[s] # << >>
    /\ heard' = [heard EXCEPT ![s] = Head(feed[s])]
    /\ feed' = [feed EXCEPT ![s] = Tail(@)]
    /\ missed' = missed \ {s}
    /\ UNCHANGED <<ports, request, client, broker, retained, hears, told, forgotten, failed, crossed>>

\* A connection is lost with what was on its way, and with it the subscription.
DropLink(s) ==
    /\ s \in hears
    /\ hears' = hears \ {s} /\ missed' = missed \cup {s}
    /\ feed' = [feed EXCEPT ![s] = << >>]
    /\ UNCHANGED <<ports, request, client, broker, retained, heard, told, forgotten, failed, crossed>>

\* A simulator's process starts again: it subscribes and is sent what is retained.
RestartSimulator(s) ==
    /\ broker
    /\ hears' = hears \cup {s}
    /\ heard' = [heard EXCEPT ![s] = NoScenario]
    /\ feed' = [feed EXCEPT ![s] = IF retained = NoScenario THEN << >> ELSE <<retained>>]
    /\ missed' = IF forgotten THEN missed \cup {s} ELSE missed \ {s}
    /\ UNCHANGED <<ports, request, client, broker, retained, told, forgotten, failed, crossed>>

\* The broker stops with all its connections, and starts without what it retained.
StopBroker ==
    /\ broker
    /\ broker' = FALSE /\ retained' = NoScenario /\ forgotten' = TRUE
    /\ client' = IF client = "up" THEN "cut off" ELSE client
    /\ hears' = {} /\ missed' = Simulator
    /\ feed' = [s \in Simulator |-> << >>]
    /\ UNCHANGED <<ports, request, heard, told, failed, crossed>>

StartBroker ==
    /\ ~broker
    /\ broker' = TRUE
    /\ UNCHANGED <<ports, request, client, retained, hears, feed, heard, told, missed, forgotten, failed, crossed>>

\* The backend's client, its loop started, connects again by itself.
Reconnect ==
    /\ broker /\ client = "cut off"
    /\ client' = "up"
    /\ UNCHANGED <<ports, request, broker, retained, hears, feed, heard, told, missed, forgotten, failed, crossed>>

FeedNext ==
    \/ \E t \in Activator :
         \/ \E scenario \in Preset : Apply(t, scenario)
         \/ MakeClient(t) \/ Connect(t) \/ ConnectFails(t) \/ Announce(t)
    \/ \E s \in Simulator : Hear(s) \/ DropLink(s) \/ RestartSimulator(s)
    \/ StopBroker \/ StartBroker \/ Reconnect

FeedSpec == FeedInit /\ [][FeedNext]_feedVars

-----------------------------------------------------------------------------
\* Once no activation is under way, the scenario of the ports is the one announced,
\* unless activations of this round crossed, each committing and publishing in its
\* own order, or one could not publish (simulation.py:157-168); and a simulator that
\* has its messages runs the scenario announced last, even one that started after it,
\* for it is retained (simulation.py:168), as long as the broker has not restarted.
ScenarioReachesSims ==
    /\ UnderWay = {} /\ ~crossed /\ ~failed => told = ports
    /\ \A s \in Simulator : s \notin missed /\ feed[s] = << >> => heard[s] = told

=============================================================================
