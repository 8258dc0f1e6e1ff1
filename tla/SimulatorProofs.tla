-------------------------- MODULE SimulatorProofs ---------------------------
(***************************************************************************)
(* Machine-checked proofs about the simulators and what they tell each     *)
(* other: the scenario announced to them, the power reported to the grid   *)
(* simulator, the feed of the digital twin, and the queues and batteries   *)
(* of the station and swap simulators, for any number of simulators,       *)
(* plugs, messages, viewers, chargers and vehicles.                        *)
(***************************************************************************)
EXTENDS ScenarioFeed, FeederGrid, TwinFeed, StationSim, SwapKiosk, Sums, FiniteSetTheorems, TLAPS

-----------------------------------------------------------------------------
(***************************************************************************)
(* Sequences of messages                                                   *)
(***************************************************************************)

LEMMA Appended ==
    ASSUME NEW S, NEW q \in Seq(S), NEW x \in S
    PROVE  /\ Append(q, x) \in Seq(S) /\ Append(q, x) # << >>
           /\ Append(q, x)[Len(Append(q, x))] = x
OBVIOUS

LEMMA TailOf ==
    ASSUME NEW S, NEW q \in Seq(S), q # << >>
    PROVE  /\ Head(q) \in S /\ Tail(q) \in Seq(S)
           /\ Tail(q) = << >> => Head(q) = q[Len(q)]
           /\ Tail(q) # << >> => Tail(q)[Len(Tail(q))] = q[Len(q)]
           /\ Len(Tail(q)) = Len(q) - 1
           /\ \A i \in 1 .. Len(q) - 1 : Tail(q)[i] = q[i + 1]
<1>1. Len(q) \in Nat /\ Len(q) # 0 /\ Head(q) = q[1]
  OBVIOUS
<1>2. Tail(q) \in Seq(S) /\ Len(Tail(q)) = Len(q) - 1
      /\ \A i \in 1 .. Len(q) - 1 : Tail(q)[i] = q[i + 1]
  BY <1>1
<1>3. Tail(q) = << >> => Len(q) = 1
  <2>1. Len(<< >>) = 0
    OBVIOUS
  <2>2. PICK rest : rest = Tail(q)
    OBVIOUS
  <2>3. Len(rest) = Len(q) - 1
    BY <1>2, <2>2
  <2>4. rest = << >> => Len(q) = 1
    BY <1>1, <2>1, <2>3
  <2>5. QED
    BY <2>2, <2>4
<1>4. Tail(q) # << >> => Len(Tail(q)) \in 1 .. Len(q) - 1
  BY <1>1, <1>2
<1>5. QED
  BY <1>1, <1>2, <1>3, <1>4

LEMMA EmptySeq ==
    ASSUME NEW S
    PROVE  << >> \in Seq(S) /\ \A x \in S : <<x>> \in Seq(S) /\ <<x>> # << >> /\ <<x>>[Len(<<x>>)] = x
OBVIOUS

-----------------------------------------------------------------------------
(***************************************************************************)
(* The scenario reaches the simulators                                     *)
(***************************************************************************)

FeedTypeOK ==
    /\ ports \in Preset \cup {NoScenario}
    /\ request \in [Activator -> [phase : {"idle", "applied", "connecting"},
                                  scenario : Preset \cup {NoScenario}]]
    /\ \A t \in Activator : request[t].phase # "idle" => request[t].scenario \in Preset
    /\ retained \in Preset \cup {NoScenario} /\ told \in Preset \cup {NoScenario}
    /\ hears \subseteq Simulator
    /\ feed \in [Simulator -> Seq(Preset)]
    /\ heard \in [Simulator -> Preset \cup {NoScenario}]
    /\ forgotten \in BOOLEAN /\ failed \in BOOLEAN /\ crossed \in BOOLEAN

\* While no two requests of the round were under way at once, the one that is will
\* announce what the ports have; after it, that has been announced.
RoundInv ==
    ~crossed =>
        /\ \A t, u \in UnderWay : t = u
        /\ \A t \in UnderWay : request[t].scenario = ports
        /\ UnderWay = {} /\ ~failed => told = ports

\* What is on its way to a simulator ends with the scenario announced last.
FeedEnds ==
    \A s \in Simulator :
        /\ s \notin hears => feed[s] = << >>
        /\ feed[s] # << >> => feed[s][Len(feed[s])] = told
        /\ s \notin missed /\ feed[s] = << >> => heard[s] = told

\* The broker retains the scenario announced last, or has forgotten it.
RetainedInv ==
    /\ retained # NoScenario => retained = told
    /\ ~forgotten => retained = told

FeedInv == FeedTypeOK /\ RoundInv /\ FeedEnds /\ RetainedInv

LEMMA FeedStarts == FeedInit => FeedInv
<1> SUFFICES ASSUME FeedInit PROVE FeedInv
  OBVIOUS
<1>1. FeedTypeOK
  BY EmptySeq DEF FeedInit, FeedTypeOK, NoRequest
<1>2. QED
  BY <1>1 DEF FeedInit, FeedInv, RoundInv, UnderWay, FeedEnds, RetainedInv

\* A request under way has been applied, and is no longer when it is answered.
LEMMA UnderWayIs ==
    ASSUME FeedTypeOK
    PROVE  UnderWay = {t \in Activator : request[t] # NoRequest}
           /\ \A t \in Activator : request[t].phase # "idle" => t \in UnderWay
BY DEF UnderWay, NoRequest

LEMMA ApplyKeeps ==
    ASSUME FeedInv, NEW t \in Activator, NEW scenario \in Preset, Apply(t, scenario)
    PROVE  FeedInv'
<1>1. request' = [request EXCEPT ![t] = [phase |-> "applied", scenario |-> scenario]]
      /\ request[t] = NoRequest
  BY DEF Apply
<1>2. FeedTypeOK'
  <2>1. crossed' \in BOOLEAN /\ failed' \in BOOLEAN
    BY DEF Apply, FeedInv, FeedTypeOK
  <2>2. request' \in [Activator -> [phase : {"idle", "applied", "connecting"},
                                    scenario : Preset \cup {NoScenario}]]
        /\ \A u \in Activator : request'[u].phase # "idle" => request'[u].scenario \in Preset
    BY <1>1 DEF FeedInv, FeedTypeOK
  <2>3. UNCHANGED <<retained, told, hears, feed, heard, forgotten>> /\ ports' = scenario
    BY DEF Apply
  <2>4. QED
    BY <2>1, <2>2, <2>3 DEF FeedInv, FeedTypeOK
<1>3. RoundInv'
  <2>1. /\ request'[t] = [phase |-> "applied", scenario |-> scenario]
        /\ \A u \in Activator \ {t} : request'[u] = request[u]
    BY <1>1 DEF FeedInv, FeedTypeOK
  <2>2. UnderWay' = UnderWay \cup {t}
    BY <2>1 DEF UnderWay, NoRequest
  <2>3. ~crossed' => UnderWay = {}
    BY DEF Apply
  <2>4. QED
    BY <2>1, <2>2, <2>3 DEF RoundInv, Apply
<1>4. FeedEnds' /\ RetainedInv'
  BY DEF FeedInv, FeedEnds, RetainedInv, Apply
<1>5. QED
  BY <1>2, <1>3, <1>4 DEF FeedInv

\* Connecting moves a request on; it stays under way with its scenario.
LEMMA ConnectKeeps ==
    ASSUME FeedInv, NEW t \in Activator, MakeClient(t) \/ Connect(t)
    PROVE  FeedInv'
<1>1. PICK phase \in {"applied", "connecting"} : request' = [request EXCEPT ![t].phase = phase]
  BY DEF MakeClient, Connect
<1>2. request[t].phase \in {"applied", "connecting"}
  BY DEF MakeClient, Connect
<1>3. UNCHANGED <<ports, broker, retained, hears, feed, heard, told, missed, forgotten,
                  failed, crossed>>
  BY DEF MakeClient, Connect
<1>4. /\ request'[t].phase = phase /\ request'[t].scenario = request[t].scenario
      /\ \A u \in Activator \ {t} : request'[u] = request[u]
  BY <1>1 DEF FeedInv, FeedTypeOK
<1>5. FeedTypeOK'
  BY <1>1, <1>2, <1>3 DEF FeedInv, FeedTypeOK
<1>6. UnderWay' = UnderWay
  BY <1>2, <1>4 DEF UnderWay, NoRequest
<1>7. RoundInv'
  BY <1>3, <1>4, <1>6 DEF FeedInv, RoundInv, UnderWay
<1>8. FeedEnds' /\ RetainedInv'
  BY <1>3 DEF FeedInv, FeedEnds, RetainedInv
<1>9. QED
  BY <1>5, <1>7, <1>8 DEF FeedInv

\* A request that is answered was the only one under way, unless requests crossed.
LEMMA AnswerKeeps ==
    ASSUME FeedInv, NEW t \in Activator, request[t].phase # "idle",
           request' = [request EXCEPT ![t] = NoRequest], UNCHANGED <<ports, crossed>>,
           failed' \in BOOLEAN, ~failed' => told' = request[t].scenario
    PROVE  RoundInv'
<1>1. t \in UnderWay
  BY UnderWayIs DEF FeedInv
<1>2. UnderWay' = UnderWay \ {t} /\ \A u \in Activator \ {t} : request'[u] = request[u]
  BY DEF FeedInv, FeedTypeOK, UnderWay
<1>3. QED
  BY <1>1, <1>2 DEF FeedInv, RoundInv, UnderWay

LEMMA ConnectFailsKeeps ==
    ASSUME FeedInv, NEW t \in Activator, ConnectFails(t)
    PROVE  FeedInv'
<1>1. RoundInv'
  BY AnswerKeeps DEF ConnectFails
<1>2. FeedTypeOK' /\ FeedEnds' /\ RetainedInv'
  BY DEF FeedInv, FeedTypeOK, FeedEnds, RetainedInv, ConnectFails, NoRequest
<1>3. QED
  BY <1>1, <1>2 DEF FeedInv

LEMMA AnnounceKeeps ==
    ASSUME FeedInv, NEW t \in Activator, Announce(t)
    PROVE  FeedInv'
<1>1. PICK scenario \in Preset : scenario = request[t].scenario
  BY DEF Announce, FeedInv, FeedTypeOK
<1>2. request' \in [Activator -> [phase : {"idle", "applied", "connecting"},
                                  scenario : Preset \cup {NoScenario}]]
      /\ \A u \in Activator : request'[u].phase # "idle" => request'[u].scenario \in Preset
  BY DEF Announce, FeedInv, FeedTypeOK, NoRequest
<1>3. CASE client = "up"
  <2>1. /\ told' = scenario /\ retained' = scenario /\ forgotten' = FALSE
        /\ feed' = Sent(scenario) /\ missed' = missed \cup (Simulator \ hears)
        /\ UNCHANGED <<failed, ports, hears, heard, crossed>>
    BY <1>1, <1>3 DEF Announce
  <2>2. \A s \in Simulator : feed'[s] = IF s \in hears THEN Append(feed[s], scenario) ELSE feed[s]
    BY <2>1 DEF Sent
  <2>3. ASSUME NEW s \in Simulator
        PROVE  /\ feed'[s] \in Seq(Preset)
               /\ s \in hears => feed'[s] # << >> /\ feed'[s][Len(feed'[s])] = scenario
               /\ s \notin hears => feed'[s] = << >>
    <3>1. feed[s] \in Seq(Preset) /\ (s \notin hears => feed[s] = << >>)
      BY DEF FeedInv, FeedTypeOK, FeedEnds
    <3>2. /\ Append(feed[s], scenario) \in Seq(Preset) /\ Append(feed[s], scenario) # << >>
          /\ Append(feed[s], scenario)[Len(Append(feed[s], scenario))] = scenario
      BY <3>1, Appended
    <3>3. QED
      BY <2>2, <3>1, <3>2
  <2>4. feed' \in [Simulator -> Seq(Preset)]
    BY <2>1, <2>3 DEF Sent
  <2>5. FeedTypeOK'
    BY <1>2, <2>1, <2>4 DEF FeedInv, FeedTypeOK
  <2>6. FeedEnds'
    BY <2>1, <2>3 DEF FeedEnds
  <2>7. RetainedInv'
    BY <2>1 DEF RetainedInv
  <2>8. RoundInv'
    BY <1>1, <2>1, AnswerKeeps DEF Announce, FeedInv, FeedTypeOK
  <2>9. QED
    BY <2>5, <2>6, <2>7, <2>8 DEF FeedInv
<1>4. CASE client # "up"
  <2>1. failed' = TRUE /\ UNCHANGED <<retained, told, feed, missed, forgotten,
                                       ports, hears, heard, crossed>>
    BY <1>4 DEF Announce
  <2>2. RoundInv'
    BY <2>1, AnswerKeeps DEF Announce
  <2>3. FeedTypeOK' /\ FeedEnds' /\ RetainedInv'
    BY <1>2, <2>1 DEF FeedInv, FeedTypeOK, FeedEnds, RetainedInv
  <2>4. QED
    BY <2>2, <2>3 DEF FeedInv
<1>5. QED
  BY <1>3, <1>4

\* What happens at the simulators and the broker leaves the requests alone.
LEMMA RoundStays ==
    ASSUME FeedInv, UNCHANGED <<ports, request, told, failed, crossed>>
    PROVE  RoundInv'
BY DEF FeedInv, RoundInv, UnderWay

LEMMA HearKeeps ==
    ASSUME FeedInv, NEW s \in Simulator, Hear(s)
    PROVE  FeedInv'
<1>1. feed[s] \in Seq(Preset) /\ feed[s] # << >> /\ s \in hears
      /\ feed[s][Len(feed[s])] = told
  BY DEF FeedInv, FeedTypeOK, FeedEnds, Hear
<1>2. /\ Head(feed[s]) \in Preset /\ Tail(feed[s]) \in Seq(Preset)
      /\ Tail(feed[s]) = << >> => Head(feed[s]) = told
      /\ Tail(feed[s]) # << >> => Tail(feed[s])[Len(Tail(feed[s]))] = told
  BY <1>1, TailOf
<1>3. /\ feed'[s] = Tail(feed[s]) /\ heard'[s] = Head(feed[s])
      /\ \A u \in Simulator \ {s} : feed'[u] = feed[u] /\ heard'[u] = heard[u]
      /\ missed' = missed \ {s}
  BY DEF Hear, FeedInv, FeedTypeOK
<1>4. FeedTypeOK'
  BY <1>2 DEF Hear, FeedInv, FeedTypeOK
<1>5. FeedEnds'
  BY <1>1, <1>2, <1>3 DEF Hear, FeedInv, FeedEnds
<1>6. RoundInv' /\ RetainedInv'
  BY RoundStays DEF Hear, FeedInv, RetainedInv
<1>7. QED
  BY <1>4, <1>5, <1>6 DEF FeedInv

LEMMA DropLinkKeeps ==
    ASSUME FeedInv, NEW s \in Simulator, DropLink(s)
    PROVE  FeedInv'
<1>1. FeedTypeOK'
  BY EmptySeq DEF DropLink, FeedInv, FeedTypeOK
<1>2. FeedEnds'
  BY DEF DropLink, FeedInv, FeedEnds, FeedTypeOK
<1>3. RoundInv' /\ RetainedInv'
  BY RoundStays DEF DropLink, FeedInv, RetainedInv
<1>4. QED
  BY <1>1, <1>2, <1>3 DEF FeedInv

LEMMA RestartSimulatorKeeps ==
    ASSUME FeedInv, NEW s \in Simulator, RestartSimulator(s)
    PROVE  FeedInv'
<1> DEFINE backlog == IF retained = NoScenario THEN << >> ELSE <<retained>>
<1>1. /\ backlog \in Seq(Preset)
      /\ backlog # << >> => backlog[Len(backlog)] = told
      /\ backlog = << >> => retained = NoScenario
  BY EmptySeq DEF FeedInv, FeedTypeOK, RetainedInv
<1>2. /\ feed' = [feed EXCEPT ![s] = backlog] /\ heard' = [heard EXCEPT ![s] = NoScenario]
      /\ hears' = hears \cup {s}
      /\ missed' = IF forgotten THEN missed \cup {s} ELSE missed \ {s}
  BY DEF RestartSimulator
<1> HIDE DEF backlog
<1>3. FeedTypeOK'
  BY <1>1, <1>2 DEF RestartSimulator, FeedInv, FeedTypeOK
<1>4. FeedEnds'
  BY <1>1, <1>2 DEF RestartSimulator, FeedInv, FeedTypeOK, FeedEnds, RetainedInv
<1>5. RoundInv' /\ RetainedInv'
  BY RoundStays DEF RestartSimulator, FeedInv, RetainedInv
<1>6. QED
  BY <1>3, <1>4, <1>5 DEF FeedInv

LEMMA BrokerKeeps ==
    ASSUME FeedInv, StopBroker \/ StartBroker \/ Reconnect
    PROVE  FeedInv'
<1>1. FeedTypeOK'
  <2>1. CASE StopBroker
    <3>1. feed' \in [Simulator -> Seq(Preset)]
      BY <2>1, EmptySeq DEF StopBroker
    <3>2. UNCHANGED <<ports, request, heard, told, failed, crossed>>
          /\ hears' = {} /\ retained' = NoScenario /\ forgotten' = TRUE
      BY <2>1 DEF StopBroker
    <3>3. QED
      BY <3>1, <3>2 DEF FeedInv, FeedTypeOK
  <2>2. CASE StartBroker \/ Reconnect
    BY <2>2 DEF StartBroker, Reconnect, FeedInv, FeedTypeOK
  <2>3. QED
    BY <2>1, <2>2
<1>2. FeedEnds'
  BY DEF StopBroker, StartBroker, Reconnect, FeedInv, FeedEnds
<1>3. RoundInv'
  BY RoundStays DEF StopBroker, StartBroker, Reconnect
<1>4. RetainedInv'
  BY DEF StopBroker, StartBroker, Reconnect, FeedInv, RetainedInv
<1>5. QED
  BY <1>1, <1>2, <1>3, <1>4 DEF FeedInv

\* After every round of activations that did not cross and could publish, the ports
\* have the scenario announced last; and whatever restarts, links and brokers do, a
\* simulator that has its messages runs that scenario.
THEOREM ScenarioArrives == FeedSpec => []ScenarioReachesSims
<1>1. FeedInv /\ [FeedNext]_feedVars => FeedInv'
  <2> SUFFICES ASSUME FeedInv, [FeedNext]_feedVars PROVE FeedInv'
    OBVIOUS
  <2>1. CASE UNCHANGED feedVars
    BY <2>1 DEF feedVars, FeedInv, FeedTypeOK, RoundInv, UnderWay, FeedEnds, RetainedInv
  <2>2. QED
    BY <2>1, ApplyKeeps, ConnectKeeps, ConnectFailsKeeps, AnnounceKeeps, HearKeeps,
       DropLinkKeeps, RestartSimulatorKeeps, BrokerKeeps DEF FeedNext
<1>2. FeedInv => ScenarioReachesSims
  BY DEF FeedInv, RoundInv, FeedEnds, ScenarioReachesSims
<1>3. QED
  BY <1>1, <1>2, FeedStarts, PTL DEF FeedSpec

-----------------------------------------------------------------------------
(***************************************************************************)
(* The grid simulator follows the plugs                                    *)
(***************************************************************************)

\* What a message may say: a power, or whether the grid is overloaded.
Value == {0} \cup {Power[k] : k \in Plug} \cup BOOLEAN
Message == [topic : Topics, value : Value]

\* What there is to say on a topic, and what the simulator knows of it.
Current(topic) == IF topic = Scenario THEN overload ELSE Drawn(plug)[topic]
Known(topic) == IF topic = Scenario THEN stressed ELSE draw[topic]

GridTypeOK ==
    /\ plug \in [Plug -> BOOLEAN] /\ overload \in BOOLEAN
    /\ wire \in Seq(Message)
    /\ draw = [k \in Plug |-> draw[k]]
    /\ deaf => wire = << >>

\* Message i is the last on its topic.
LastOn(i, topic) ==
    /\ i \in DOMAIN wire /\ wire[i].topic = topic
    /\ \A j \in DOMAIN wire : j > i => wire[j].topic # topic

\* The last message on its way on a topic says what there is to say.
WireEnds ==
    \A topic \in Topics, i \in DOMAIN wire : LastOn(i, topic) => wire[i].value = Current(topic)

\* What is not on its way, and did not get lost, is known.
KnownInv ==
    \A topic \in Topics :
        topic \notin behind /\ ~OnTheWay(topic) => Known(topic) = Current(topic)

\* Since the loop took its sum, nothing has been handled.
CalmInv ==
    calm => IF step = NoSum THEN reading = <<Stressed(Total(draw), stressed)>>
            ELSE step = <<Total(draw)>>

GridInv == GridTypeOK /\ WireEnds /\ KnownInv /\ CalmInv

LEMMA ValueHas ==
    ASSUME NEW on \in [Plug -> BOOLEAN]
    PROVE  /\ \A k \in Plug : Drawn(on)[k] \in Value
           /\ \A b \in BOOLEAN : b \in Value
           /\ Scenario \notin Plug
BY GridAssumption DEF Drawn, Value, Scenario

LEMMA GridStarts == GridInit => GridInv
<1> SUFFICES ASSUME GridInit PROVE GridInv
  OBVIOUS
<1>1. wire = << >> /\ << >> \in Seq(Message) /\ DOMAIN << >> = {}
  BY DEF GridInit
<1>2. GridTypeOK
  BY <1>1 DEF GridInit, GridTypeOK
<1>3. WireEnds
  BY <1>1 DEF WireEnds
<1>4. KnownInv
  BY DEF GridInit, KnownInv, Known, Current, Drawn, Topics
<1>5. CalmInv
  BY DEF GridInit, CalmInv
<1>6. QED
  BY <1>2, <1>3, <1>4, <1>5 DEF GridInv

\* A message on a topic goes out when there is something to say on it: it is then
\* the last on its topic, and the others stay as they were.
LEMMA GoesOutKeeps ==
    ASSUME GridInv, NEW topic \in Topics, NEW value \in Value, GoesOut(topic, value),
           Current(topic)' = value,
           \A other \in Topics \ {topic} : Current(other)' = Current(other),
           UNCHANGED <<deaf, draw, stressed>>
    PROVE  /\ wire' \in Seq(Message) /\ (deaf' => wire' = << >>)
           /\ WireEnds' /\ KnownInv'
<1>0. wire \in Seq(Message) /\ WireEnds /\ KnownInv /\ (deaf => wire = << >>)
  BY DEF GridInv, GridTypeOK
<1>1. \A other \in Topics : Known(other)' = Known(other)
  BY DEF Known
<1>2. CASE deaf
  <2>1. wire' = << >> /\ behind' = behind \cup {topic} /\ wire = << >>
    BY <1>0, <1>2 DEF GoesOut
  <2>2. DOMAIN wire' = {} /\ DOMAIN wire = {} /\ wire' \in Seq(Message)
    BY <2>1
  <2>3. WireEnds'
    BY <2>2 DEF WireEnds
  <2>4. KnownInv'
    BY <1>0, <1>1, <2>1, <2>2 DEF KnownInv, OnTheWay
  <2>5. QED
    BY <2>1, <2>2, <2>3, <2>4
<1>3. CASE ~deaf
  <2> DEFINE m == [topic |-> topic, value |-> value]
             n == Len(wire)
  <2>1. m \in Message /\ n \in Nat
    BY <1>0 DEF Message
  <2>2. wire' = Append(wire, m) /\ behind' = behind
    BY <1>3 DEF GoesOut
  <2>3. /\ wire' \in Seq(Message) /\ DOMAIN wire' = 1 .. n + 1 /\ DOMAIN wire = 1 .. n
        /\ wire'[n + 1] = m /\ \A i \in 1 .. n : wire'[i] = wire[i]
    BY <1>0, <2>1, <2>2
  <2>4. m.topic = topic /\ m.value = value
    OBVIOUS
  <2> HIDE DEF m, n
  <2>5. ASSUME NEW other \in Topics, NEW i \in DOMAIN wire', LastOn(i, other)'
        PROVE  wire'[i].value = Current(other)'
    <3>1. CASE other = topic
      <4>1. i = n + 1
        BY <2>1, <2>3, <2>4, <2>5, <3>1 DEF LastOn
      <4>2. QED
        BY <2>3, <2>4, <3>1, <4>1
    <3>2. CASE other # topic
      <4>1. i \in DOMAIN wire /\ wire'[i] = wire[i]
        BY <2>1, <2>3, <2>4, <2>5, <3>2 DEF LastOn
      <4>2. \A j \in DOMAIN wire : j \in DOMAIN wire' /\ wire'[j] = wire[j]
        BY <2>1, <2>3
      <4>3. LastOn(i, other)
        BY <2>5, <4>1, <4>2 DEF LastOn
      <4>4. QED
        BY <1>0, <3>2, <4>1, <4>3 DEF WireEnds
    <3>3. QED
      BY <3>1, <3>2
  <2>6. WireEnds'
    BY <2>5 DEF WireEnds
  <2>7. OnTheWay(topic)'
    BY <2>1, <2>3, <2>4 DEF OnTheWay
  <2>8. \A other \in Topics : OnTheWay(other) => OnTheWay(other)'
    BY <2>1, <2>3 DEF OnTheWay
  <2>9. KnownInv'
    BY <1>0, <1>1, <2>2, <2>7, <2>8 DEF KnownInv
  <2>10. QED
    BY <1>3, <2>3, <2>6, <2>9
<1>4. QED
  BY <1>2, <1>3

LEMMA PlugReportsKeeps ==
    ASSUME GridInv, NEW k \in Plug, PlugReports(k)
    PROVE  GridInv'
<1>1. PICK on \in BOOLEAN : /\ plug' = [plug EXCEPT ![k] = on]
                            /\ GoesOut(k, Drawn(plug')[k])
  BY DEF PlugReports
<1>2. plug' \in [Plug -> BOOLEAN] /\ plug \in [Plug -> BOOLEAN]
  BY <1>1 DEF GridInv, GridTypeOK
<1>3. k # Scenario /\ k \in Topics /\ Drawn(plug')[k] \in Value
  BY <1>2, ValueHas DEF Topics
<1>4. /\ Current(k)' = Drawn(plug')[k]
      /\ \A other \in Topics \ {k} : Current(other)' = Current(other)
  BY <1>1, <1>2, <1>3 DEF Current, Drawn, Topics, PlugReports
<1>5. PICK value \in Value : value = Drawn(plug')[k]
  BY <1>3
<1>6. wire' \in Seq(Message) /\ (deaf' => wire' = << >>) /\ WireEnds' /\ KnownInv'
  BY <1>1, <1>3, <1>4, <1>5, GoesOutKeeps DEF PlugReports
<1>7. CalmInv'
  BY DEF GridInv, CalmInv, PlugReports
<1>8. QED
  BY <1>2, <1>6, <1>7 DEF GridInv, GridTypeOK, PlugReports

LEMMA ScenarioReportsKeeps ==
    ASSUME GridInv, ScenarioReports
    PROVE  GridInv'
<1>1. overload' \in BOOLEAN /\ GoesOut(Scenario, overload') /\ UNCHANGED plug
  BY DEF ScenarioReports
<1>2. plug \in [Plug -> BOOLEAN]
  BY DEF GridInv, GridTypeOK
<1>3. Scenario \in Topics /\ overload' \in Value
  BY <1>1, <1>2, ValueHas DEF Topics
<1>4. /\ Current(Scenario)' = overload'
      /\ \A other \in Topics \ {Scenario} : Current(other)' = Current(other)
  BY <1>1 DEF Current
<1>5. PICK value \in Value : value = overload'
  BY <1>3
<1>6. wire' \in Seq(Message) /\ (deaf' => wire' = << >>) /\ WireEnds' /\ KnownInv'
  BY <1>1, <1>3, <1>4, <1>5, GoesOutKeeps DEF ScenarioReports
<1>7. CalmInv'
  BY DEF GridInv, CalmInv, ScenarioReports
<1>8. QED
  BY <1>1, <1>6, <1>7 DEF GridInv, GridTypeOK, ScenarioReports

\* Taking the first message off leaves the last ones where they were, but for itself.
LEMMA WireShifts ==
    ASSUME wire \in Seq(Message), wire # << >>, WireEnds, wire' = Tail(wire),
           UNCHANGED <<plug, overload>>
    PROVE  /\ WireEnds' /\ wire' \in Seq(Message)
           /\ Head(wire).topic \in Topics
           /\ \A topic \in Topics : topic = Head(wire).topic =>
                OnTheWay(topic)' \/ Head(wire).value = Current(topic)
           /\ \A topic \in Topics : /\ OnTheWay(topic)' => OnTheWay(topic)
                                    /\ OnTheWay(topic) =>
                                         OnTheWay(topic)' \/ topic = Head(wire).topic
<1> DEFINE n == Len(wire)
<1>1. /\ n \in Nat /\ n > 0 /\ DOMAIN wire = 1 .. n /\ Head(wire) = wire[1]
      /\ Head(wire) \in Message /\ wire' \in Seq(Message) /\ DOMAIN wire' = 1 .. n - 1
  BY TailOf
<1>2. \A i \in 1 .. n - 1 : wire'[i] = wire[i + 1]
  BY TailOf
<1> HIDE DEF n
<1>3. \A topic \in Topics : Current(topic)' = Current(topic)
  BY DEF Current
<1>4. ASSUME NEW topic \in Topics, NEW i \in DOMAIN wire', LastOn(i, topic)'
      PROVE  wire'[i].value = Current(topic)'
  <2>1. i + 1 \in DOMAIN wire /\ wire'[i] = wire[i + 1]
    BY <1>1, <1>2
  <2>2. ASSUME NEW j \in DOMAIN wire, j > i + 1
        PROVE  wire[j].topic # topic
    <3>1. j - 1 \in DOMAIN wire' /\ j - 1 > i /\ (j - 1) + 1 = j
      BY <1>1, <2>2
    <3>2. wire'[j - 1] = wire[j]
      BY <1>1, <1>2, <3>1
    <3>3. QED
      BY <1>4, <3>1, <3>2 DEF LastOn
  <2>3. LastOn(i + 1, topic)
    BY <1>4, <2>1, <2>2 DEF LastOn
  <2>4. QED
    BY <1>3, <2>1, <2>3 DEF WireEnds
<1>5. WireEnds'
  BY <1>4 DEF WireEnds
<1>6. PICK topic \in Topics : topic = Head(wire).topic
  BY <1>1 DEF Message
<1>7. \A other \in Topics : /\ OnTheWay(other)' => OnTheWay(other)
                            /\ OnTheWay(other) => OnTheWay(other)' \/ other = topic
  <2> SUFFICES ASSUME NEW other \in Topics
               PROVE  /\ OnTheWay(other)' => OnTheWay(other)
                      /\ OnTheWay(other) => OnTheWay(other)' \/ other = topic
    OBVIOUS
  <2>1. ASSUME NEW i \in DOMAIN wire', wire'[i].topic = other
        PROVE  OnTheWay(other)
    <3>1. i + 1 \in DOMAIN wire /\ wire[i + 1].topic = other
      BY <1>1, <1>2, <2>1
    <3>2. QED
      BY <3>1 DEF OnTheWay
  <2>2. ASSUME NEW i \in DOMAIN wire, wire[i].topic = other
        PROVE  OnTheWay(other)' \/ other = topic
    <3>1. CASE i = 1
      BY <1>1, <1>6, <2>2, <3>1
    <3>2. CASE i # 1
      <4>1. i - 1 \in DOMAIN wire' /\ (i - 1) + 1 = i
        BY <1>1, <3>2
      <4>2. wire'[i - 1].topic = other
        BY <1>1, <1>2, <2>2, <4>1
      <4>3. QED
        BY <4>1, <4>2 DEF OnTheWay
    <3>3. QED
      BY <3>1, <3>2
  <2>3. QED
    BY <2>1, <2>2 DEF OnTheWay
<1>8. OnTheWay(topic)' \/ Head(wire).value = Current(topic)
  <2> SUFFICES ASSUME ~OnTheWay(topic)' PROVE Head(wire).value = Current(topic)
    OBVIOUS
  <2>1. ASSUME NEW j \in DOMAIN wire, j > 1
        PROVE  wire[j].topic # topic
    <3>1. j - 1 \in DOMAIN wire' /\ (j - 1) + 1 = j
      BY <1>1, <2>1
    <3>2. wire'[j - 1] = wire[j]
      BY <1>1, <1>2, <3>1
    <3>3. QED
      BY <3>1, <3>2 DEF OnTheWay
  <2>2. 1 \in DOMAIN wire
    BY <1>1
  <2>3. LastOn(1, topic)
    BY <1>1, <1>6, <2>1, <2>2 DEF LastOn
  <2>4. QED
    BY <1>1, <2>2, <2>3 DEF WireEnds
<1>9. QED
  BY <1>1, <1>5, <1>6, <1>7, <1>8

LEMMA HandleKeeps ==
    ASSUME GridInv, Handle
    PROVE  GridInv'
<1>1. /\ wire # << >> /\ wire' = Tail(wire) /\ calm' = FALSE
      /\ behind' = behind \ {Head(wire).topic}
      /\ UNCHANGED <<plug, overload, deaf, step, reading>>
      /\ IF Head(wire).topic = Scenario
           THEN stressed' = Head(wire).value /\ UNCHANGED draw
           ELSE draw' = [draw EXCEPT ![Head(wire).topic] = Head(wire).value]
                /\ UNCHANGED stressed
  BY DEF Handle
<1>2. wire \in Seq(Message) /\ WireEnds /\ KnownInv /\ draw = [k \in Plug |-> draw[k]]
  BY DEF GridInv, GridTypeOK
<1>3. /\ WireEnds' /\ wire' \in Seq(Message)
      /\ \A topic \in Topics : topic = Head(wire).topic =>
           OnTheWay(topic)' \/ Head(wire).value = Current(topic)
      /\ \A topic \in Topics : OnTheWay(topic) => OnTheWay(topic)' \/ topic = Head(wire).topic
  BY <1>1, <1>2, WireShifts
<1>4. PICK head \in Topics, value \in Value :
        /\ head = Head(wire).topic /\ value = Head(wire).value
        /\ OnTheWay(head)' \/ value = Current(head)
  <2>1. Head(wire) \in Message
    BY <1>1, <1>2, TailOf
  <2>2. QED
    BY <1>3, <2>1 DEF Message
<1>5. /\ Known(head)' = value
      /\ \A other \in Topics \ {head} : Known(other)' = Known(other)
      /\ draw' = [k \in Plug |-> draw'[k]]
  BY <1>1, <1>2, <1>4 DEF Known, Topics
<1>6. \A topic \in Topics : Current(topic)' = Current(topic)
  BY <1>1 DEF Current
<1>7. KnownInv'
  BY <1>1, <1>2, <1>3, <1>4, <1>5, <1>6 DEF KnownInv
<1>8. GridTypeOK'
  BY <1>1, <1>3, <1>5 DEF GridInv, GridTypeOK
<1>9. QED
  BY <1>1, <1>3, <1>7, <1>8 DEF GridInv, CalmInv

LEMMA LoseKeeps ==
    ASSUME GridInv, Lose
    PROVE  GridInv'
<1>1. /\ wire # << >> /\ wire' = Tail(wire)
      /\ behind' = behind \cup {Head(wire).topic}
      /\ UNCHANGED <<plug, overload, deaf, draw, stressed, step, reading, calm>>
  BY DEF Lose
<1>2. wire \in Seq(Message) /\ WireEnds /\ KnownInv
  BY DEF GridInv, GridTypeOK
<1>3. /\ WireEnds' /\ wire' \in Seq(Message)
      /\ \A topic \in Topics : OnTheWay(topic) => OnTheWay(topic)' \/ topic = Head(wire).topic
  BY <1>1, <1>2, WireShifts
<1>4. \A topic \in Topics : Current(topic)' = Current(topic) /\ Known(topic)' = Known(topic)
  BY <1>1 DEF Current, Known
<1>5. KnownInv'
  BY <1>1, <1>2, <1>3, <1>4 DEF KnownInv
<1>6. GridTypeOK' /\ CalmInv'
  BY <1>1, <1>3 DEF GridInv, GridTypeOK, CalmInv
<1>7. QED
  BY <1>3, <1>5, <1>6 DEF GridInv

LEMMA DisconnectKeeps ==
    ASSUME GridInv, Disconnect
    PROVE  GridInv'
<1>1. /\ wire' = << >> /\ behind' = behind \cup {wire[i].topic : i \in DOMAIN wire}
      /\ UNCHANGED <<plug, overload, draw, stressed, step, reading, calm>>
  BY DEF Disconnect
<1>2. << >> \in Seq(Message) /\ DOMAIN << >> = {}
  OBVIOUS
<1>3. WireEnds'
  BY <1>1, <1>2 DEF WireEnds
<1>4. \A topic \in Topics : Current(topic)' = Current(topic) /\ Known(topic)' = Known(topic)
  BY <1>1 DEF Current, Known
<1>5. KnownInv'
  BY <1>1, <1>4 DEF GridInv, KnownInv, OnTheWay
<1>6. GridTypeOK' /\ CalmInv'
  BY <1>1, <1>2 DEF GridInv, GridTypeOK, CalmInv
<1>7. QED
  BY <1>3, <1>5, <1>6 DEF GridInv

\* The loop's two steps touch neither the messages nor what is known.
LEMMA LoopKeeps ==
    ASSUME GridInv, SumDraws \/ PublishLoad
    PROVE  GridInv'
<1>1. UNCHANGED <<plug, overload, wire, deaf, draw, stressed, behind>>
  BY DEF SumDraws, PublishLoad
<1>2. GridTypeOK' /\ WireEnds' /\ KnownInv'
  BY <1>1 DEF GridInv, GridTypeOK, WireEnds, LastOn, Current, KnownInv, OnTheWay, Known
<1>3. CalmInv'
  <2>1. CASE SumDraws
    <3>1. step' = <<Total(draw)>> /\ step' # NoSum
      BY <2>1 DEF SumDraws, NoSum
    <3>2. QED
      BY <1>1, <3>1 DEF CalmInv
  <2>2. CASE PublishLoad
    <3>1. /\ calm' = calm /\ step' = NoSum /\ reading' = <<Stressed(step[1], stressed)>>
          /\ step # NoSum
      BY <2>2 DEF PublishLoad
    <3>2. calm => step = <<Total(draw)>>
      BY <3>1 DEF GridInv, CalmInv
    <3>3. calm => step[1] = Total(draw)
      BY <3>2
    <3>4. QED
      BY <1>1, <3>1, <3>3 DEF CalmInv
  <2>3. QED
    BY <2>1, <2>2
<1>4. QED
  BY <1>2, <1>3 DEF GridInv

\* Whatever messages are lost and wherever the simulator is cut off, it knows the
\* power of every plug whose last message came, and a load it publishes undisturbed,
\* when all of them have, is that of every plug and of the scenario.
THEOREM LoadIsTheSum == GridSpec => []LoadFollowsPlugs
<1>1. GridInv /\ [GridNext]_gridVars => GridInv'
  <2> SUFFICES ASSUME GridInv, [GridNext]_gridVars PROVE GridInv'
    OBVIOUS
  <2>1. CASE UNCHANGED gridVars
    BY <2>1 DEF gridVars, GridInv, GridTypeOK, WireEnds, LastOn, Current, KnownInv,
       OnTheWay, Known, CalmInv
  <2>2. QED
    BY <2>1, PlugReportsKeeps, ScenarioReportsKeeps, HandleKeeps, LoseKeeps,
       DisconnectKeeps, LoopKeeps DEF GridNext
<1>2. GridInv => LoadFollowsPlugs
  <2> SUFFICES ASSUME GridInv PROVE LoadFollowsPlugs
    OBVIOUS
  <2>1. \A topic \in Topics : topic \notin behind /\ ~OnTheWay(topic) =>
          Known(topic) = Current(topic)
    BY DEF GridInv, KnownInv
  <2>2. plug \in [Plug -> BOOLEAN] /\ draw = [k \in Plug |-> draw[k]]
    BY DEF GridInv, GridTypeOK
  <2>3. \A k \in Plug : k \in Topics /\ k # Scenario
    BY <2>2, ValueHas DEF Topics
  <2>4. \A k \in Plug : k \notin behind /\ ~OnTheWay(k) => draw[k] = Drawn(plug)[k]
    BY <2>1, <2>3 DEF Known, Current
  <2>5. Scenario \notin behind /\ ~OnTheWay(Scenario) => stressed = overload
    BY <2>1 DEF Topics, Known, Current
  <2>6. ASSUME calm, step = NoSum,
               \A topic \in Topics : topic \notin behind /\ ~OnTheWay(topic)
        PROVE  reading = <<Stressed(Total(Drawn(plug)), overload)>>
    <3>1. reading = <<Stressed(Total(draw), stressed)>>
      BY <2>6 DEF GridInv, CalmInv
    <3>2. Drawn(plug) = [k \in Plug |-> Drawn(plug)[k]]
      BY DEF Drawn
    <3>3. draw = Drawn(plug)
      BY <2>2, <2>3, <2>4, <2>6, <3>2
    <3>4. stressed = overload
      BY <2>5, <2>6 DEF Topics
    <3>5. QED
      BY <3>1, <3>3, <3>4
  <2>7. QED
    BY <2>4, <2>5, <2>6 DEF LoadFollowsPlugs
<1>3. QED
  BY <1>1, <1>2, GridStarts, PTL DEF GridSpec

-----------------------------------------------------------------------------
(***************************************************************************)
(* The feed of the digital twin                                            *)
(***************************************************************************)

\* The last message whose broadcast has begun.
Begun == received - Len(ready)

Cast == [message : Nat, at : Client, rest : Seq(Client)]

TwinTypeOK ==
    /\ received \in Nat
    /\ ready \in Seq(Nat) /\ inbox \in Seq(Nat)
    /\ casts \in Seq(Cast)
    /\ clients \in Seq(Client) /\ open \subseteq Client /\ pages \subseteq Browser
    /\ seen \in [Screen -> Nat] /\ since \in [Screen -> Nat]
    /\ reshuffled \in BOOLEAN

\* Messages are broadcast in the order of their arrival, and are only seen once they are.
Numbered ==
    /\ store = received /\ Len(ready) <= received
    /\ \A i \in DOMAIN ready : ready[i] = Begun + i
    /\ \A i \in DOMAIN casts : casts[i].message <= Begun
    /\ \A i \in DOMAIN inbox : inbox[i] <= Begun
    /\ \A x \in Screen : seen[x] <= Begun

Listed == IsInjective(clients) /\ open \subseteq ToSet(clients)

\* A broadcast walks the clients as they are listed.
OnItsWay(cast) ==
    LET at == Len(clients) - Len(cast.rest)
    IN /\ at \in 1..Len(clients)
       /\ cast.at = clients[at]
       /\ \A k \in DOMAIN cast.rest : cast.rest[k] = clients[at + k]

\* While the clients stay the same, no broadcast overtakes an older one, so the newest is
\* the last to end.
InStep ==
    ~reshuffled =>
      /\ \A i \in DOMAIN casts : OnItsWay(casts[i])
      /\ \A i, j \in DOMAIN casts : i <= j => Len(casts[i].rest) <= Len(casts[j].rest)
      /\ casts # << >> => casts[Len(casts)].message = Begun

\* The clients the newest broadcast has still to reach.
ToCome == IF casts = << >> THEN {} ELSE ToSet(casts[Len(casts)].rest)

\* What the newest broadcast has reached shows its message, or the relay has it in hand.
UpToDate ==
    ~reshuffled =>
      /\ \A v \in Viewer \cap open : v \notin ToCome /\ since[v] < Begun => seen[v] = Begun
      /\ Relay \in open /\ Relay \notin ToCome =>
           \A b \in pages : since[b] < Begun =>
             IF inbox = << >> THEN seen[b] = Begun ELSE inbox[Len(inbox)] = Begun

TwinInv == TwinTypeOK /\ Numbered /\ Listed /\ InStep /\ UpToDate

LEMMA TwinImplies == TwinInv => FeedFollowsTheStore
<1> SUFFICES ASSUME TwinInv PROVE FeedFollowsTheStore
  OBVIOUS
<1>1. TwinTypeOK /\ Numbered /\ UpToDate
  BY DEF TwinInv
<1>2. Len(ready) \in Nat /\ received \in Nat
  BY <1>1 DEF TwinTypeOK
<1>3. Begun <= received /\ Begun \in Int
  BY <1>2 DEF Begun
<1>4. \A x \in Screen : seen[x] <= store
  <2>1. \A x \in Screen : seen[x] \in Nat /\ seen[x] <= Begun
    BY <1>1 DEF Numbered, TwinTypeOK
  <2> QED BY <1>1, <1>2, <1>3, <2>1 DEF Numbered
<1>5. ASSUME ready = << >>, casts = << >>, ~reshuffled
      PROVE  Begun = received /\ ToCome = {}
  <2>1. Len(ready) = 0
    BY <1>5
  <2> QED BY <1>2, <1>5, <2>1 DEF Begun, ToCome
<1>6. Viewer \subseteq Screen /\ pages \subseteq Screen
  BY <1>1 DEF Screen, TwinTypeOK
<1> QED BY <1>1, <1>4, <1>5 DEF FeedFollowsTheStore, UpToDate, Numbered

LEMMA TwinStarts == TwinInit => TwinInv
<1> SUFFICES ASSUME TwinInit PROVE TwinInv
  OBVIOUS
<1>1. /\ ready = << >> /\ casts = << >> /\ clients = << >> /\ inbox = << >>
      /\ Len(ready) = 0 /\ received = 0 /\ store = 0 /\ open = {} /\ pages = {}
      /\ reshuffled = FALSE
  BY DEF TwinInit
<1>2. DOMAIN ready = {} /\ DOMAIN casts = {} /\ DOMAIN clients = {} /\ DOMAIN inbox = {}
  <2>1. DOMAIN << >> = {}
    OBVIOUS
  <2> QED BY <1>1, <2>1
<1>3. Begun = 0
  <2>1. received = 0 /\ Len(ready) = 0
    BY <1>1
  <2> QED BY <2>1 DEF Begun
<1>4. ready \in Seq(Nat) /\ inbox \in Seq(Nat) /\ casts \in Seq(Cast) /\ clients \in Seq(Client)
  BY <1>1
<1>5. seen \in [Screen -> Nat] /\ since \in [Screen -> Nat] /\ \A x \in Screen : seen[x] = 0
  BY DEF TwinInit
<1>6. TwinTypeOK
  BY <1>1, <1>4, <1>5 DEF TwinTypeOK
<1>7. Numbered
  BY <1>1, <1>2, <1>3, <1>5 DEF Numbered
<1>8. Listed
  BY <1>1, <1>2 DEF Listed, IsInjective
<1>9. InStep /\ UpToDate
  BY <1>1, <1>2 DEF InStep, UpToDate
<1> QED BY <1>6, <1>7, <1>8, <1>9 DEF TwinInv

\* The sequences of a state, element by element.
LEMMA Elements ==
    ASSUME TwinTypeOK
    PROVE  /\ Len(ready) \in Nat /\ Len(casts) \in Nat /\ Len(inbox) \in Nat /\ Len(clients) \in Nat
           /\ DOMAIN ready = 1..Len(ready) /\ DOMAIN casts = 1..Len(casts)
           /\ DOMAIN inbox = 1..Len(inbox) /\ DOMAIN clients = 1..Len(clients)
           /\ Begun \in Int /\ Begun <= received
           /\ \A i \in DOMAIN inbox : inbox[i] \in Nat
           /\ \A i \in DOMAIN ready : ready[i] \in Nat
           /\ \A i \in DOMAIN clients : clients[i] \in Client
           /\ \A i \in DOMAIN casts :
                /\ casts[i] \in Cast /\ casts[i].message \in Nat /\ casts[i].at \in Client
                /\ casts[i].rest \in Seq(Client)
                /\ Len(casts[i].rest) \in Nat /\ DOMAIN casts[i].rest = 1..Len(casts[i].rest)
<1>1. casts \in Seq(Cast) /\ received \in Nat
  BY DEF TwinTypeOK
<1>2. \A i \in DOMAIN casts : casts[i] \in Cast
  BY <1>1
<1>3. \A cast \in Cast : cast.message \in Nat /\ cast.at \in Client /\ cast.rest \in Seq(Client)
  BY DEF Cast
<1>4. \A s \in Seq(Client) : Len(s) \in Nat /\ DOMAIN s = 1..Len(s) /\ \A i \in DOMAIN s : s[i] \in Client
  OBVIOUS
<1>5. /\ Len(ready) \in Nat /\ Len(inbox) \in Nat /\ DOMAIN ready = 1..Len(ready)
      /\ DOMAIN inbox = 1..Len(inbox)
      /\ \A i \in DOMAIN inbox : inbox[i] \in Nat
      /\ \A i \in DOMAIN ready : ready[i] \in Nat
  BY DEF TwinTypeOK
<1>6. Begun \in Int /\ Begun <= received
  BY <1>1, <1>5 DEF Begun
<1>7. Len(casts) \in Nat /\ DOMAIN casts = 1..Len(casts)
  BY <1>1
<1>8. clients \in Seq(Client)
  BY DEF TwinTypeOK
<1> QED BY <1>2, <1>3, <1>4, <1>5, <1>6, <1>7, <1>8

\* A sequence without one of its elements.
LEMMA Removal ==
    ASSUME NEW S, NEW s \in Seq(S), NEW i \in DOMAIN s
    PROVE  /\ RemoveAt(s, i) \in Seq(S)
           /\ Len(RemoveAt(s, i)) = Len(s) - 1
           /\ DOMAIN RemoveAt(s, i) = 1..(Len(s) - 1)
           /\ \A k \in 1..(Len(s) - 1) : RemoveAt(s, i)[k] = IF k < i THEN s[k] ELSE s[k + 1]
<1>1. Len(s) \in Nat /\ DOMAIN s = 1..Len(s) /\ i \in 1..Len(s)
  OBVIOUS
<1>2. PICK a, b : a = SubSeq(s, 1, i - 1) /\ b = SubSeq(s, i + 1, Len(s))
  OBVIOUS
<1>c. \A k \in 1..Len(s) : s[k] \in S
  OBVIOUS
<1>3. a \in Seq(S) /\ Len(a) = i - 1 /\ \A k \in 1..(i - 1) : a[k] = s[k]
  <2>1. a = [k \in 1..(i - 1) |-> s[k]]
    BY <1>1, <1>2
  <2>2. i - 1 \in Nat /\ \A k \in 1..(i - 1) : s[k] \in S
    BY <1>1, <1>c
  <2> QED BY <2>1, <2>2
<1>4. b \in Seq(S) /\ Len(b) = Len(s) - i /\ \A k \in 1..(Len(s) - i) : b[k] = s[i + k]
  <2>1. Len(s) - i \in Nat /\ Len(s) - (i + 1) + 1 = Len(s) - i
    BY <1>1
  <2>2. b = [k \in 1..(Len(s) - i) |-> s[i + k]]
    <3>1. b = [k \in 1..(Len(s) - (i + 1) + 1) |-> s[(i + 1) + k - 1]]
      BY <1>1, <1>2
    <3>2. \A k \in 1..(Len(s) - i) : (i + 1) + k - 1 = i + k
      BY <1>1
    <3> QED BY <2>1, <3>1, <3>2
  <2>3. \A k \in 1..(Len(s) - i) : s[i + k] \in S
    BY <1>1, <1>c
  <2>4. b \in Seq(S)
    <3>1. PICK n \in Nat : n = Len(s) - i
      BY <2>1
    <3>2. b = [k \in 1..n |-> s[i + k]] /\ \A k \in 1..n : s[i + k] \in S
      BY <2>2, <2>3, <3>1
    <3>3. b \in [1..n -> S]
      BY <3>2
    <3> QED BY <3>3
  <2>5. Len(b) = Len(s) - i
    <3>1. DOMAIN b = 1..(Len(s) - i)
      BY <2>2
    <3> QED BY <2>1, <2>4, <3>1
  <2> QED BY <2>2, <2>4, <2>5
<1>5. RemoveAt(s, i) = a \o b
  BY <1>2 DEF RemoveAt
<1>a. a \in Seq(S) /\ b \in Seq(S)
  BY <1>3, <1>4
<1>b. a \o b \in Seq(S) /\ Len(a \o b) = Len(a) + Len(b)
  BY <1>a
<1>6. a \o b \in Seq(S) /\ Len(a \o b) = Len(s) - 1
  BY <1>1, <1>3, <1>4, <1>b
<1>7. DOMAIN (a \o b) = 1..(Len(s) - 1)
  BY <1>6
<1>8. ASSUME NEW k \in 1..(Len(s) - 1) PROVE (a \o b)[k] = IF k < i THEN s[k] ELSE s[k + 1]
  <2>1. CASE k < i
    BY <1>1, <1>3, <1>4, <2>1
  <2>2. CASE ~(k < i)
    <3>1. (a \o b)[k] = b[k - (i - 1)]
      BY <1>1, <1>3, <1>4, <2>2
    <3>2. k - (i - 1) \in 1..(Len(s) - i) /\ i + (k - (i - 1)) = k + 1
      BY <1>1, <2>2
    <3> QED BY <1>4, <2>2, <3>1, <3>2
  <2> QED BY <2>1, <2>2
<1> QED BY <1>5, <1>6, <1>7, <1>8

\* A message that is sent is on one screen, or the last on its way to the relay.
LEMMA Delivered ==
    ASSUME TwinTypeOK, NEW c \in Client, NEW m \in Nat, Send(c, m)
    PROVE  /\ inbox' \in Seq(Nat) /\ seen' \in [Screen -> Nat]
           /\ \A v \in Viewer : seen'[v] = IF v = c /\ c \in open THEN m ELSE seen[v]
           /\ \A b \in Browser : seen'[b] = seen[b]
           /\ \A x \in Screen : seen'[x] \in {m, seen[x]}
           /\ c # Relay => inbox' = inbox
           /\ c = Relay /\ c \in open => inbox' # << >> /\ inbox'[Len(inbox')] = m
           /\ \A i \in DOMAIN inbox' : inbox'[i] = m \/ \E j \in DOMAIN inbox : inbox'[i] = inbox[j]
<1>1. seen \in [Screen -> Nat] /\ inbox \in Seq(Nat)
  BY DEF TwinTypeOK
<1>2. Viewer \subseteq Screen /\ Browser \subseteq Screen
  BY DEF Screen
<1>3. CASE c \notin open
  BY <1>1, <1>2, <1>3 DEF Send
<1>4. CASE c \in open /\ c = Relay
  <2>1. inbox' = Append(inbox, m) /\ seen' = seen
    BY <1>4 DEF Send
  <2>2. /\ inbox' \in Seq(Nat) /\ Len(inbox') = Len(inbox) + 1 /\ Len(inbox) \in Nat
        /\ inbox'[Len(inbox) + 1] = m /\ DOMAIN inbox' = 1..(Len(inbox) + 1)
        /\ DOMAIN inbox = 1..Len(inbox)
        /\ \A i \in 1..Len(inbox) : inbox'[i] = inbox[i]
    BY <1>1, <2>1
  <2>3. inbox' # << >>
    BY <2>2
  <2> QED BY <1>1, <1>2, <1>4, <2>1, <2>2, <2>3, TwinAssumption
<1>5. CASE c \in open /\ c # Relay
  <2>1. inbox' = inbox /\ seen' = [seen EXCEPT ![c] = m]
    BY <1>5 DEF Send
  <2>2. c \in Viewer
    BY <1>5 DEF Client
  <2>3. \A x \in Screen : seen'[x] = IF x = c THEN m ELSE seen[x]
    BY <1>1, <2>1
  <2>4. c \notin Browser
    BY <2>2, TwinAssumption
  <2>5. seen' \in [Screen -> Nat]
    BY <1>1, <2>1
  <2> QED BY <1>1, <1>2, <1>5, <2>1, <2>3, <2>4, <2>5
<1> QED BY <1>3, <1>4, <1>5
\* What the counts come to when the newest of them all is the one that is sent.
LEMMA Receives == TwinInv /\ Receive => TwinInv'
<1> SUFFICES ASSUME TwinInv, Receive PROVE TwinInv'
  OBVIOUS
<1>types. TwinTypeOK /\ Numbered /\ Listed /\ InStep /\ UpToDate
  BY DEF TwinInv
<1>1. /\ received' = received + 1 /\ store' = received' /\ ready' = Append(ready, received')
      /\ UNCHANGED <<casts, clients, open, inbox, pages, seen, since, reshuffled>>
  BY DEF Receive
<1>2. received \in Nat /\ ready \in Seq(Nat) /\ received' \in Nat
  BY <1>types, <1>1 DEF TwinTypeOK
<1>3. /\ Len(ready') = Len(ready) + 1 /\ Len(ready) \in Nat /\ ready' \in Seq(Nat)
      /\ DOMAIN ready = 1..Len(ready) /\ DOMAIN ready' = 1..(Len(ready) + 1)
      /\ ready'[Len(ready) + 1] = received' /\ \A i \in 1..Len(ready) : ready'[i] = ready[i]
  BY <1>1, <1>2
<1>4. Begun' = Begun
  BY <1>1, <1>2, <1>3 DEF Begun
<1>5. TwinTypeOK'
  BY <1>types, <1>1, <1>2, <1>3 DEF TwinTypeOK
<1>6. Numbered'
  <2>1. Begun = received - Len(ready)
    BY DEF Begun
  <2>2. \A i \in DOMAIN ready' : ready'[i] = Begun + i
    BY <1>types, <1>1, <1>2, <1>3, <2>1 DEF Numbered
  <2>3. Len(ready') <= received'
    BY <1>types, <1>1, <1>2, <1>3 DEF Numbered
  <2> QED BY <1>types, <1>1, <1>4, <2>2, <2>3 DEF Numbered
<1>7. Listed'
  BY <1>types, <1>1 DEF Listed
<1>8. InStep'
  BY <1>types, <1>1, <1>4 DEF InStep, OnItsWay
<1>9. UpToDate'
  BY <1>types, <1>1, <1>4 DEF UpToDate, ToCome
<1> QED BY <1>5, <1>6, <1>7, <1>8, <1>9 DEF TwinInv

\* A new broadcast is the newest, and starts behind the others.
LEMMA Begins == TwinInv /\ Begin => TwinInv'
<1> SUFFICES ASSUME TwinInv, Begin PROVE TwinInv'
  OBVIOUS
<1>types. TwinTypeOK /\ Numbered /\ Listed /\ InStep /\ UpToDate
  BY DEF TwinInv
<1>el. /\ Len(ready) \in Nat /\ Len(casts) \in Nat /\ Len(clients) \in Nat
       /\ DOMAIN ready = 1..Len(ready) /\ DOMAIN casts = 1..Len(casts)
       /\ DOMAIN clients = 1..Len(clients)
       /\ Begun \in Int
  BY <1>types, Elements
<1>1. /\ ready # << >> /\ ready' = Tail(ready)
      /\ reshuffled' = (reshuffled /\ casts # << >>)
      /\ UNCHANGED <<received, store, clients, open, pages, since>>
  BY DEF Begin
<1>2. PICK m : m = Head(ready)
  OBVIOUS
<1>3. /\ ready' \in Seq(Nat) /\ Len(ready') = Len(ready) - 1 /\ Len(ready) > 0 /\ m = ready[1]
      /\ DOMAIN ready' = 1..(Len(ready) - 1)
      /\ \A i \in 1..(Len(ready) - 1) : ready'[i] = ready[i + 1]
  <2>1. ready \in Seq(Nat)
    BY <1>types DEF TwinTypeOK
  <2> QED BY <1>1, <1>2, <2>1
<1>4. received \in Nat /\ Begun' = Begun + 1 /\ m = Begun + 1 /\ m \in Nat /\ Len(ready') <= received
  <2>1. received \in Nat
    BY <1>types DEF TwinTypeOK
  <2>2. Begun' = Begun + 1
    BY <1>1, <1>3, <1>el, <2>1 DEF Begun
  <2>3. m = Begun + 1
    <3>1. \A i \in DOMAIN ready : ready[i] = Begun + i
      BY <1>types DEF Numbered
    <3>2. 1 \in DOMAIN ready
      BY <1>3, <1>el
    <3> QED BY <1>3, <3>1, <3>2
  <2>4. Len(ready) <= received
    BY <1>types DEF Numbered
  <2>5. Begun + 1 \in Nat
    BY <1>el, <1>3, <2>1, <2>4 DEF Begun
  <2> QED BY <1>3, <1>el, <2>1, <2>2, <2>3, <2>4, <2>5
<1>5. \A i \in DOMAIN ready' : ready'[i] = Begun' + i
  <2>1. \A i \in DOMAIN ready : ready[i] = Begun + i
    BY <1>types DEF Numbered
  <2>2. ASSUME NEW i \in DOMAIN ready' PROVE ready'[i] = Begun' + i
    <3>1. i \in 1..(Len(ready) - 1) /\ i + 1 \in DOMAIN ready
      BY <1>3, <1>el
    <3>2. ready'[i] = Begun + (i + 1)
      BY <1>3, <2>1, <3>1
    <3> QED BY <1>el, <1>4, <3>1, <3>2
  <2> QED BY <2>2
<1>r. reshuffled' \in BOOLEAN
  BY <1>types, <1>1 DEF TwinTypeOK
<1>b. \A x \in Screen : seen[x] \in Nat /\ seen[x] <= Begun
  BY <1>types DEF TwinTypeOK, Numbered
<1>6. CASE clients = << >>
  <2>1. UNCHANGED <<casts, inbox, seen>>
    BY <1>6 DEF Begin
  <2>2. TwinTypeOK'
    BY <1>types, <1>1, <1>3, <1>r, <2>1 DEF TwinTypeOK
  <2>3. Numbered'
    <3>1. \A i \in DOMAIN casts : casts[i].message \in Nat
      BY <1>types, Elements
    <3>2. \A i \in DOMAIN inbox : inbox[i] \in Nat
      BY <1>types, Elements
    <3>3. (\A i \in DOMAIN casts : casts[i].message <= Begun + 1) /\ (\A i \in DOMAIN inbox : inbox[i] <= Begun + 1)
      BY <1>types, <1>el, <3>1, <3>2 DEF Numbered
    <3>4. \A x \in Screen : seen[x] <= Begun + 1
      BY <1>el, <1>b
    <3> QED BY <1>types, <1>1, <1>4, <1>5, <2>1, <3>3, <3>4 DEF Numbered
  <2>4. Listed'
    BY <1>types, <1>1 DEF Listed
  <2>5. open = {}
    <3>1. DOMAIN << >> = {}
      OBVIOUS
    <3> QED BY <1>6, <1>types, <3>1 DEF Listed, ToSet
  <2>6. ASSUME ~reshuffled' PROVE casts = << >>
    <3>1. CASE reshuffled
      BY <1>1, <2>6, <3>1
    <3>2. CASE ~reshuffled
      <4>1. SUFFICES ASSUME casts # << >> PROVE FALSE
        OBVIOUS
      <4>2. 1 \in DOMAIN casts
        <5>1. casts \in Seq(Cast)
          BY <1>types DEF TwinTypeOK
        <5> QED BY <1>el, <4>1, <5>1
      <4>3. OnItsWay(casts[1])
        BY <1>types, <3>2, <4>2 DEF InStep
      <4>4. Len(clients) = 0
        BY <1>6
      <4> QED BY <4>3, <4>4 DEF OnItsWay
    <3> QED BY <3>1, <3>2
  <2>7. InStep'
    <3>1. DOMAIN << >> = {}
      OBVIOUS
    <3> QED BY <2>1, <2>6, <3>1 DEF InStep
  <2>8. UpToDate'
    BY <1>1, <2>5 DEF UpToDate
  <2> QED BY <2>2, <2>3, <2>4, <2>7, <2>8 DEF TwinInv
<1>7. CASE clients # << >>
  <2>1. PICK c, new : /\ c = Head(clients)
                      /\ new = [message |-> m, at |-> Head(clients), rest |-> Tail(clients)]
    OBVIOUS
  <2>2. casts' = Append(casts, new) /\ Send(c, m)
    BY <1>2, <1>7, <2>1 DEF Begin
  <2>3. /\ c \in Client /\ c = clients[1] /\ Len(clients) > 0
        /\ Tail(clients) \in Seq(Client) /\ Len(Tail(clients)) = Len(clients) - 1
        /\ DOMAIN Tail(clients) = 1..(Len(clients) - 1)
        /\ \A k \in 1..(Len(clients) - 1) : Tail(clients)[k] = clients[1 + k]
    <3>1. clients \in Seq(Client)
      BY <1>types DEF TwinTypeOK
    <3> QED BY <1>7, <2>1, <3>1
  <2>4. /\ new \in Cast /\ new.message = m /\ new.at = c /\ new.rest = Tail(clients)
    BY <1>4, <2>1, <2>3 DEF Cast
  <2>5. /\ casts' \in Seq(Cast) /\ Len(casts') = Len(casts) + 1 /\ DOMAIN casts' = 1..(Len(casts) + 1)
        /\ casts'[Len(casts) + 1] = new /\ \A i \in 1..Len(casts) : casts'[i] = casts[i]
        /\ casts' # << >>
    <3>1. casts \in Seq(Cast)
      BY <1>types DEF TwinTypeOK
    <3> QED BY <2>2, <2>4, <3>1
  <2>6. /\ inbox' \in Seq(Nat) /\ seen' \in [Screen -> Nat]
        /\ \A v \in Viewer : seen'[v] = IF v = c /\ c \in open THEN m ELSE seen[v]
        /\ \A b \in Browser : seen'[b] = seen[b]
        /\ \A x \in Screen : seen'[x] \in {m, seen[x]}
        /\ c # Relay => inbox' = inbox
        /\ c = Relay /\ c \in open => inbox' # << >> /\ inbox'[Len(inbox')] = m
        /\ \A i \in DOMAIN inbox' : inbox'[i] = m \/ \E j \in DOMAIN inbox : inbox'[i] = inbox[j]
    BY <1>types, <1>4, <2>2, <2>3, Delivered
  <2>7. TwinTypeOK'
    BY <1>types, <1>1, <1>3, <1>r, <2>5, <2>6 DEF TwinTypeOK
  <2>8. Numbered'
    <3>1. \A i \in DOMAIN casts' : casts'[i].message <= Begun'
      <4>1. \A i \in DOMAIN casts : casts[i].message \in Nat /\ casts[i].message <= Begun
        BY <1>types, Elements DEF Numbered
      <4> QED BY <1>el, <1>4, <2>4, <2>5, <4>1, SMTT(20)
    <3>2. \A i \in DOMAIN inbox' : inbox'[i] <= Begun'
      <4>1. \A i \in DOMAIN inbox : inbox[i] \in Nat /\ inbox[i] <= Begun
        BY <1>types, Elements DEF Numbered
      <4> QED BY <1>el, <1>4, <2>6, <4>1
    <3>3. \A x \in Screen : seen'[x] <= Begun'
      BY <1>el, <1>b, <1>4, <2>6
    <3> QED BY <1>types, <1>1, <1>4, <1>5, <3>1, <3>2, <3>3 DEF Numbered
  <2>9. Listed'
    BY <1>types, <1>1 DEF Listed
  <2>10. ASSUME ~reshuffled' PROVE reshuffled => casts = << >>
    BY <1>1, <2>10
  <2>11. ToCome' = ToSet(Tail(clients))
    BY <2>4, <2>5 DEF ToCome
  <2>12. ASSUME ~reshuffled'
         PROVE  /\ \A i \in DOMAIN casts : OnItsWay(casts[i])
                /\ \A i, j \in DOMAIN casts : i <= j => Len(casts[i].rest) <= Len(casts[j].rest)
    <3>1. CASE reshuffled
      <4>1. DOMAIN << >> = {}
        OBVIOUS
      <4> QED BY <2>10, <2>12, <3>1, <4>1
    <3>2. CASE ~reshuffled
      BY <1>types, <3>2 DEF InStep
    <3> QED BY <3>1, <3>2
  <2>13. InStep'
    <3> SUFFICES ASSUME ~reshuffled' PROVE InStep'
      BY DEF InStep
    <3>1. OnItsWay(new)
      BY <1>el, <2>3, <2>4 DEF OnItsWay
    <3>2. \A i \in DOMAIN casts' : OnItsWay(casts'[i])
      BY <1>el, <2>5, <2>12, <3>1
    <3>3. \A cast : OnItsWay(cast)' = OnItsWay(cast)
      BY <1>1 DEF OnItsWay
    <3>4. \A i \in DOMAIN casts : Len(casts[i].rest) \in Nat /\ Len(casts[i].rest) <= Len(new.rest)
      <4>1. \A i \in DOMAIN casts : Len(casts[i].rest) \in Nat
        BY <1>types, Elements
      <4>2. \A i \in DOMAIN casts : Len(clients) - Len(casts[i].rest) \in 1..Len(clients)
        BY <2>12 DEF OnItsWay
      <4> QED BY <1>el, <2>3, <2>4, <4>1, <4>2
    <3>5. Len(new.rest) \in Nat
      BY <1>el, <2>3, <2>4
    <3>6. \A i, j \in DOMAIN casts' : i <= j => Len(casts'[i].rest) <= Len(casts'[j].rest)
      BY <1>el, <2>5, <2>12, <3>4, <3>5
    <3>7. casts'[Len(casts')].message = Begun'
      BY <1>4, <2>4, <2>5
    <3>8. \A i \in DOMAIN casts' : OnItsWay(casts[i])'
      BY <1>1, <3>2 DEF OnItsWay
    <3> QED BY <3>6, <3>7, <3>8 DEF InStep
  <2>14. UpToDate'
    <3>1. ASSUME NEW x \in open, x \notin ToCome' PROVE x = c
      <4>1. PICK k \in DOMAIN clients : clients[k] = x
        BY <1>types DEF Listed, ToSet
      <4>2. SUFFICES ASSUME k # 1 PROVE FALSE
        BY <2>3, <4>1
      <4>3. k - 1 \in DOMAIN Tail(clients) /\ Tail(clients)[k - 1] = clients[k]
        <5>1. k - 1 \in 1..(Len(clients) - 1) /\ 1 + (k - 1) = k
          BY <1>el, <4>2
        <5> QED BY <2>3, <5>1
      <4> QED BY <2>11, <3>1, <4>1, <4>3 DEF ToSet
    <3>2. ASSUME NEW v \in Viewer \cap open, v \notin ToCome' PROVE seen'[v] = Begun'
      BY <1>4, <2>6, <3>1, <3>2
    <3>3. ASSUME Relay \in open, Relay \notin ToCome' PROVE inbox' # << >> /\ inbox'[Len(inbox')] = Begun'
      BY <1>4, <2>6, <3>1, <3>3
    <3> QED BY <1>1, <3>2, <3>3 DEF UpToDate
  <2> QED BY <2>7, <2>8, <2>9, <2>13, <2>14 DEF TwinInv
<1> QED BY <1>6, <1>7
\* A broadcast that waits for a socket goes on to the next, or ends.
LEMMA Proceeds == ASSUME NEW i \in DOMAIN casts, TwinInv, Proceed(i) PROVE TwinInv'
<1>types. TwinTypeOK /\ Numbered /\ Listed /\ InStep /\ UpToDate
  BY DEF TwinInv
<1>el. /\ Len(casts) \in Nat /\ Len(clients) \in Nat
       /\ DOMAIN casts = 1..Len(casts) /\ DOMAIN clients = 1..Len(clients)
       /\ Begun \in Int /\ casts \in Seq(Cast) /\ i \in 1..Len(casts)
       /\ \A j \in DOMAIN casts :
            /\ casts[j] \in Cast /\ casts[j].message \in Nat /\ casts[j].at \in Client
            /\ casts[j].rest \in Seq(Client) /\ casts[j].message <= Begun
            /\ Len(casts[j].rest) \in Nat /\ DOMAIN casts[j].rest = 1..Len(casts[j].rest)
  BY <1>types, Elements DEF TwinTypeOK, Numbered
<1>1. /\ \A j \in 1..i-1 : casts[j].at # casts[i].at
      /\ UNCHANGED <<received, store, ready, clients, open, pages, since, reshuffled>>
  BY DEF Proceed
<1>2. Begun' = Begun /\ \A c : OnItsWay(c)' = OnItsWay(c)
  BY <1>1 DEF Begun, OnItsWay
<1>n. casts # << >>
  <2>1. Len(<< >>) = 0
    OBVIOUS
  <2> QED BY <1>el, <2>1
<1>3. Listed'
  BY <1>types, <1>1 DEF Listed
\* Broadcasts in step do not wait for the same socket, unless one is behind the other.
<1>4. ASSUME ~reshuffled, NEW j \in 1..(i - 1)
      PROVE  Len(casts[i].rest) < Len(casts[j].rest) \/ Len(casts[j].rest) < Len(casts[i].rest)
  <2>1. j \in DOMAIN casts /\ OnItsWay(casts[i]) /\ OnItsWay(casts[j])
    BY <1>el, <1>types, <1>4 DEF InStep
  <2>2. casts[j].at # casts[i].at
    BY <1>1
  <2>3. Len(casts[i].rest) # Len(casts[j].rest)
    BY <2>1, <2>2 DEF OnItsWay
  <2> QED BY <1>el, <2>1, <2>3
<1>5. CASE casts[i].rest = << >>
  <2>1. casts' = RemoveAt(casts, i) /\ UNCHANGED <<inbox, seen>>
    BY <1>5 DEF Proceed
  <2>2. /\ casts' \in Seq(Cast) /\ Len(casts') = Len(casts) - 1
        /\ DOMAIN casts' = 1..(Len(casts) - 1)
        /\ \A k \in 1..(Len(casts) - 1) : casts'[k] = IF k < i THEN casts[k] ELSE casts[k + 1]
    BY <1>el, <2>1, Removal
  <2>3. \A k \in DOMAIN casts' : \E j \in DOMAIN casts : casts'[k] = casts[j]
    <3>1. ASSUME NEW k \in DOMAIN casts' PROVE \E j \in DOMAIN casts : casts'[k] = casts[j]
      <4>1. k \in DOMAIN casts /\ k + 1 \in DOMAIN casts
        BY <1>el, <2>2
      <4> QED BY <2>2, <4>1
    <3> QED BY <3>1
  <2>4. TwinTypeOK'
    BY <1>types, <1>1, <2>1, <2>2 DEF TwinTypeOK
  <2>5. Numbered'
    BY <1>types, <1>1, <1>2, <2>1, <2>3 DEF Numbered
  <2>6. ASSUME ~reshuffled, i = Len(casts) PROVE Len(casts) = 1
    <3>1. SUFFICES ASSUME Len(casts) # 1 PROVE FALSE
      OBVIOUS
    <3>2. i - 1 \in 1..(i - 1) /\ i - 1 \in DOMAIN casts /\ i - 1 <= i
      BY <1>el, <2>6, <3>1
    <3>3. Len(casts[i - 1].rest) <= Len(casts[i].rest)
      BY <1>types, <2>6, <3>2 DEF InStep
    <3>4. Len(casts[i].rest) = 0
      BY <1>5
    <3>5. Len(casts[i - 1].rest) = 0
      BY <1>el, <3>2, <3>3, <3>4
    <3> QED BY <1>4, <2>6, <3>2, <3>4, <3>5
  <2>7. CASE Len(casts) = 1
    <3>1. casts' = << >> /\ DOMAIN casts' = {}
      BY <2>2, <2>7
    <3>2. InStep'
      BY <3>1 DEF InStep
    <3>3. ToCome = {}
      <4>1. casts[Len(casts)].rest = << >>
        BY <1>5, <1>el, <2>7
      <4>2. DOMAIN << >> = {}
        OBVIOUS
      <4> QED BY <4>1, <4>2 DEF ToCome, ToSet
    <3>4. ToCome' = {}
      BY <3>1 DEF ToCome
    <3>5. UpToDate'
      BY <1>types, <1>1, <1>2, <2>1, <3>3, <3>4 DEF UpToDate
    <3> QED BY <1>3, <2>4, <2>5, <3>2, <3>5 DEF TwinInv
  <2>8. CASE Len(casts) # 1 /\ ~reshuffled
    <3>1. i < Len(casts) /\ Len(casts) - 1 \in Nat /\ ~(Len(casts) - 1 < i) /\ Len(casts) > 1
      BY <1>el, <2>6, <2>8
    <3>2. casts'[Len(casts')] = casts[Len(casts)]
      <4>1. Len(casts) - 1 \in 1..(Len(casts) - 1) /\ (Len(casts) - 1) + 1 = Len(casts)
        BY <1>el, <3>1
      <4> QED BY <2>2, <3>1, <4>1
    <3>3. casts' # << >>
      <4>1. Len(<< >>) = 0
        OBVIOUS
      <4> QED BY <1>el, <2>2, <3>1, <4>1
    <3>4. ToCome' = ToCome
      BY <1>n, <3>2, <3>3 DEF ToCome
    <3>5. UpToDate'
      BY <1>types, <1>1, <1>2, <2>1, <3>4 DEF UpToDate
    <3>6. ASSUME NEW k \in DOMAIN casts', NEW l \in DOMAIN casts', k <= l
          PROVE  Len(casts'[k].rest) <= Len(casts'[l].rest)
      <4>1. PICK a, b : a = (IF k < i THEN k ELSE k + 1) /\ b = (IF l < i THEN l ELSE l + 1)
        OBVIOUS
      <4>2. a \in DOMAIN casts /\ b \in DOMAIN casts /\ a <= b
        BY <1>el, <2>2, <3>6, <4>1
      <4>3. casts'[k] = casts[a] /\ casts'[l] = casts[b]
        BY <2>2, <4>1
      <4> QED BY <1>types, <2>8, <4>2, <4>3 DEF InStep
    <3>7. \A k \in DOMAIN casts' : OnItsWay(casts'[k])
      BY <1>types, <2>3, <2>8 DEF InStep
    <3>8. \A k \in DOMAIN casts' : OnItsWay(casts[k])'
      BY <1>1, <3>7 DEF OnItsWay
    <3>9. casts'[Len(casts')].message = Begun'
      BY <1>types, <1>n, <1>2, <2>8, <3>2 DEF InStep
    <3>10. InStep'
      BY <3>6, <3>8, <3>9 DEF InStep
    <3> QED BY <1>3, <2>4, <2>5, <3>5, <3>10 DEF TwinInv
  <2>9. CASE reshuffled
    <3>1. InStep' /\ UpToDate'
      BY <1>1, <2>9 DEF InStep, UpToDate
    <3> QED BY <1>3, <2>4, <2>5, <3>1 DEF TwinInv
  <2> QED BY <2>7, <2>8, <2>9
<1>6. CASE casts[i].rest # << >>
  <2>1. PICK c, new, rest, m :
          /\ rest = casts[i].rest /\ c = Head(rest) /\ m = casts[i].message
          /\ new = [casts[i] EXCEPT !.at = c, !.rest = Tail(rest)]
    OBVIOUS
  <2>2. casts' = [casts EXCEPT ![i] = new] /\ Send(c, m)
    <3>1. casts' = [casts EXCEPT ![i].at = c, ![i].rest = Tail(rest)] /\ Send(c, m)
      BY <1>6, <2>1 DEF Proceed
    <3> QED BY <1>el, <2>1, <3>1 DEF Cast
  <2>3. /\ rest \in Seq(Client) /\ rest # << >> /\ Len(rest) > 0 /\ c = rest[1] /\ c \in Client
        /\ Len(rest) \in Nat /\ DOMAIN rest = 1..Len(rest)
        /\ Tail(rest) \in Seq(Client) /\ Len(Tail(rest)) = Len(rest) - 1
        /\ DOMAIN Tail(rest) = 1..(Len(rest) - 1)
        /\ \A k \in 1..(Len(rest) - 1) : Tail(rest)[k] = rest[k + 1]
    <3>1. rest \in Seq(Client) /\ rest # << >>
      BY <1>el, <1>6, <2>1
    <3> QED BY <2>1, <3>1
  <2>4. /\ new \in Cast /\ new.message = m /\ new.at = c /\ new.rest = Tail(rest)
        /\ m \in Nat /\ m <= Begun
    BY <1>el, <2>1, <2>3 DEF Cast
  <2>5. /\ casts' \in Seq(Cast) /\ Len(casts') = Len(casts) /\ DOMAIN casts' = DOMAIN casts
        /\ \A k \in DOMAIN casts : casts'[k] = IF k = i THEN new ELSE casts[k]
        /\ casts' # << >>
    <3>1. casts' \in Seq(Cast) /\ Len(casts') = Len(casts)
      BY <1>el, <2>2, <2>4
    <3>2. DOMAIN casts' = DOMAIN casts /\ \A k \in DOMAIN casts : casts'[k] = IF k = i THEN new ELSE casts[k]
      BY <1>el, <2>2
    <3>3. Len(<< >>) = 0
      OBVIOUS
    <3> QED BY <1>el, <3>1, <3>2, <3>3
  <2>6. /\ inbox' \in Seq(Nat) /\ seen' \in [Screen -> Nat]
        /\ \A v \in Viewer : seen'[v] = IF v = c /\ c \in open THEN m ELSE seen[v]
        /\ \A b \in Browser : seen'[b] = seen[b]
        /\ \A x \in Screen : seen'[x] \in {m, seen[x]}
        /\ c # Relay => inbox' = inbox
        /\ c = Relay /\ c \in open => inbox' # << >> /\ inbox'[Len(inbox')] = m
        /\ \A k \in DOMAIN inbox' : inbox'[k] = m \/ \E j \in DOMAIN inbox : inbox'[k] = inbox[j]
    BY <1>types, <2>2, <2>3, <2>4, Delivered
  <2>7. TwinTypeOK'
    BY <1>types, <1>1, <2>5, <2>6 DEF TwinTypeOK
  <2>8. Numbered'
    <3>1. \A k \in DOMAIN casts' : casts'[k].message <= Begun
      BY <1>el, <2>4, <2>5
    <3>2. \A k \in DOMAIN inbox' : inbox'[k] <= Begun
      BY <1>types, <2>4, <2>6 DEF Numbered
    <3>3. \A x \in Screen : seen'[x] <= Begun
      BY <1>types, <2>4, <2>6 DEF Numbered
    <3> QED BY <1>types, <1>1, <1>2, <3>1, <3>2, <3>3 DEF Numbered
  <2>9. CASE reshuffled
    <3>1. InStep' /\ UpToDate'
      BY <1>1, <2>9 DEF InStep, UpToDate
    <3> QED BY <1>3, <2>7, <2>8, <3>1 DEF TwinInv
  <2>10. CASE ~reshuffled
    <3>1. \A k \in DOMAIN casts : OnItsWay(casts[k])
      BY <1>types, <2>10 DEF InStep
    <3>2. \A j, k \in DOMAIN casts : j <= k => Len(casts[j].rest) <= Len(casts[k].rest)
      BY <1>types, <2>10 DEF InStep
    <3>3. casts[Len(casts)].message = Begun
      BY <1>types, <1>n, <2>10 DEF InStep
    <3>4. PICK at : at = Len(clients) - Len(rest)
      OBVIOUS
    <3>5. at \in 1..Len(clients) /\ \A k \in DOMAIN rest : rest[k] = clients[at + k]
      BY <2>1, <3>1, <3>4 DEF OnItsWay
    <3>6. OnItsWay(new)
      <4>1. Len(clients) - Len(new.rest) = at + 1
        BY <1>el, <2>3, <2>4, <3>4
      <4>2. at + 1 \in 1..Len(clients)
        BY <1>el, <2>3, <3>4, <3>5
      <4>3. new.at = clients[at + 1]
        BY <2>3, <2>4, <3>5
      <4>4. ASSUME NEW k \in DOMAIN new.rest PROVE new.rest[k] = clients[(at + 1) + k]
        <5>1. k \in 1..(Len(rest) - 1) /\ k + 1 \in DOMAIN rest /\ at + (k + 1) = (at + 1) + k
          BY <1>el, <2>3, <2>4, <3>5
        <5> QED BY <2>3, <2>4, <3>5, <5>1
      <4> QED BY <4>1, <4>2, <4>3, <4>4 DEF OnItsWay
    <3>7. \A k \in DOMAIN casts' : OnItsWay(casts[k])'
      <4>1. \A k \in DOMAIN casts' : OnItsWay(casts'[k])
        BY <2>5, <3>1, <3>6
      <4> QED BY <1>1, <4>1 DEF OnItsWay
    <3>8. ASSUME NEW j \in DOMAIN casts', NEW k \in DOMAIN casts', j <= k
          PROVE  Len(casts'[j].rest) <= Len(casts'[k].rest)
      <4>0. j \in DOMAIN casts /\ k \in DOMAIN casts /\ j \in Nat /\ k \in Nat
            /\ Len(casts[j].rest) \in Nat /\ Len(casts[k].rest) \in Nat
            /\ Len(casts[j].rest) <= Len(casts[k].rest)
        BY <1>el, <2>5, <3>2, <3>8
      <4>1. CASE j # i /\ k # i
        BY <2>5, <3>2, <3>8, <4>0, <4>1
      <4>n. Len(new.rest) = Len(casts[i].rest) - 1 /\ Len(casts[i].rest) \in Nat
        BY <2>1, <2>3, <2>4
      <4>s. /\ casts'[j].rest = IF j = i THEN new.rest ELSE casts[j].rest
            /\ casts'[k].rest = IF k = i THEN new.rest ELSE casts[k].rest
        BY <2>5, <4>0
      <4>2. CASE j = i
        <5>1. CASE k = i
          BY <4>n, <4>s, <4>2, <5>1
        <5>2. CASE k # i
          BY <4>0, <4>n, <4>s, <4>2, <5>2
        <5> QED BY <5>1, <5>2
      <4>3. CASE j # i /\ k = i
        <5>1. j \in 1..(i - 1)
          BY <1>el, <3>8, <4>0, <4>3
        <5>2. Len(casts[j].rest) < Len(casts[i].rest)
          BY <1>4, <2>10, <4>0, <4>3, <5>1
        <5> QED BY <4>0, <4>n, <4>s, <4>3, <5>2
      <4> QED BY <4>1, <4>2, <4>3
    <3>9. casts'[Len(casts')].message = Begun'
      <4>1. Len(casts) \in DOMAIN casts
        BY <1>el
      <4> QED BY <1>2, <2>1, <2>4, <2>5, <3>3, <4>1
    <3>10. InStep'
      BY <3>7, <3>8, <3>9 DEF InStep
    <3>11. UpToDate'
      <4>0. Len(casts) \in DOMAIN casts
        BY <1>el
      <4>1. CASE i = Len(casts)
        <5>1. ToCome = ToSet(rest) /\ ToCome' = ToSet(Tail(rest)) /\ m = Begun
          BY <1>n, <2>1, <2>4, <2>5, <3>3, <4>0, <4>1 DEF ToCome
        <5>2. ASSUME NEW x \in ToCome, x \notin ToCome' PROVE x = c
          <6>1. PICK k \in 1..Len(rest) : rest[k] = x
            BY <2>3, <5>1 DEF ToSet
          <6>2. SUFFICES ASSUME k # 1 PROVE FALSE
            BY <2>3, <6>1
          <6>3. k - 1 \in 1..(Len(rest) - 1) /\ (k - 1) + 1 = k
            BY <2>3, <6>2
          <6>4. Tail(rest)[k - 1] = x /\ k - 1 \in DOMAIN Tail(rest)
            BY <2>3, <6>1, <6>3
          <6> QED BY <5>1, <5>2, <6>4 DEF ToSet
        <5>3. ASSUME NEW v \in Viewer \cap open, v \notin ToCome', since[v] < Begun
              PROVE  seen'[v] = Begun
          BY <1>types, <2>6, <2>10, <5>1, <5>2, <5>3 DEF UpToDate
        <5>4. ASSUME Relay \in open, Relay \notin ToCome', NEW b \in pages, since[b] < Begun
              PROVE  IF inbox' = << >> THEN seen'[b] = Begun ELSE inbox'[Len(inbox')] = Begun
          <6>1. CASE c = Relay
            BY <2>6, <5>1, <5>4, <6>1
          <6>2. CASE c # Relay
            <7>1. Relay \notin ToCome
              BY <5>2, <5>4, <6>2
            <7>2. b \in Browser
              BY <1>types DEF TwinTypeOK
            <7>3. IF inbox = << >> THEN seen[b] = Begun ELSE inbox[Len(inbox)] = Begun
              BY <1>types, <2>10, <5>4, <7>1 DEF UpToDate
            <7> QED BY <2>6, <6>2, <7>2, <7>3
          <6> QED BY <6>1, <6>2
        <5> QED BY <1>1, <1>2, <5>3, <5>4 DEF UpToDate
      <4>2. CASE i # Len(casts)
        <5>1. PICK last : last = casts[Len(casts)].rest
          OBVIOUS
        <5>2. ToCome = ToSet(last) /\ ToCome' = ToSet(last)
          BY <1>n, <2>5, <4>0, <4>2, <5>1 DEF ToCome
        <5>3. c \in ToSet(last)
          <6>1. Len(rest) <= Len(last) /\ Len(last) \in Nat /\ DOMAIN last = 1..Len(last)
            BY <1>el, <2>1, <3>2, <4>0, <5>1
          <6>2. PICK k : k = Len(last) - Len(rest) + 1
            OBVIOUS
          <6>3. k \in DOMAIN last
            BY <2>3, <6>1, <6>2
          <6>4. last[k] = clients[(Len(clients) - Len(last)) + k]
            BY <3>1, <4>0, <5>1, <6>3 DEF OnItsWay
          <6>5. (Len(clients) - Len(last)) + k = at + 1
            BY <1>el, <2>3, <3>4, <6>1, <6>2
          <6>6. c = clients[at + 1]
            BY <2>3, <3>5
          <6> QED BY <6>3, <6>4, <6>5, <6>6 DEF ToSet
        <5>4. ASSUME NEW v \in Viewer \cap open, v \notin ToCome', since[v] < Begun
              PROVE  seen'[v] = Begun
          BY <1>types, <2>6, <2>10, <5>2, <5>3, <5>4 DEF UpToDate
        <5>5. ASSUME Relay \in open, Relay \notin ToCome', NEW b \in pages, since[b] < Begun
              PROVE  IF inbox' = << >> THEN seen'[b] = Begun ELSE inbox'[Len(inbox')] = Begun
          <6>1. c # Relay /\ Relay \notin ToCome
            BY <5>2, <5>3, <5>5
          <6>2. b \in Browser
            BY <1>types DEF TwinTypeOK
          <6>3. IF inbox = << >> THEN seen[b] = Begun ELSE inbox[Len(inbox)] = Begun
            BY <1>types, <2>10, <5>5, <6>1 DEF UpToDate
          <6> QED BY <2>6, <6>1, <6>2, <6>3
        <5> QED BY <1>1, <1>2, <5>4, <5>5 DEF UpToDate
      <4> QED BY <4>1, <4>2
    <3> QED BY <1>3, <2>7, <2>8, <3>10, <3>11 DEF TwinInv
  <2> QED BY <2>9, <2>10
<1> QED BY <1>5, <1>6
\* The elements of a sequence are finitely many.
LEMMA ListIsFinite ==
    ASSUME NEW S, NEW s \in Seq(S)
    PROVE  IsFiniteSet(ToSet(s))
<1>1. Len(s) \in Nat /\ DOMAIN s = 1..Len(s) /\ s \in [1..Len(s) -> S]
  OBVIOUS
<1>2. s \in [1..Len(s) -> ToSet(s)]
  BY <1>1 DEF ToSet
<1>3. s \in Surjection(1..Len(s), ToSet(s))
  BY <1>1, <1>2 DEF Surjection, ToSet
<1>4. IsFiniteSet(1..Len(s))
  BY <1>1, FS_Interval
<1> QED BY <1>3, <1>4, FS_Surjection

\* An order of a finite set lists each element once.
LEMMA OrderListsAll ==
    ASSUME NEW S, IsFiniteSet(S), NEW s \in SetToSeqs(S)
    PROVE  s \in Seq(S) /\ IsInjective(s) /\ ToSet(s) = S
<1>1. PICK n \in Nat : n = Cardinality(S)
  BY FS_CardinalityType
<1>2. s \in [1..n -> S] /\ \A i, j \in 1..n : i # j => s[i] # s[j]
  BY <1>1 DEF SetToSeqs
<1>3. IsInjective(s) /\ s \in Seq(S)
  BY <1>2 DEF IsInjective
<1>4. s \in Injection(1..n, S)
  BY <1>2, <1>3 DEF Injection
<1>5. IsFiniteSet(1..n) /\ Cardinality(1..n) = n
  BY FS_Interval
<1>6. s \in Surjection(1..n, S)
  BY <1>1, <1>4, <1>5, FS_Injection
<1>7. \A x \in S : \E i \in 1..n : s[i] = x
  BY <1>6 DEF Surjection
<1> QED BY <1>2, <1>3, <1>7 DEF ToSet

\* A client that joins is owed nothing that was received before.
LEMMA Joins == ASSUME NEW c \in Client, TwinInv, Join(c) PROVE TwinInv'
<1>types. TwinTypeOK /\ Numbered /\ Listed /\ InStep /\ UpToDate
  BY DEF TwinInv
<1>1. /\ clients' \in SetToSeqs(ToSet(clients) \cup {c}) /\ open' = open \cup {c}
      /\ reshuffled' = (reshuffled \/ casts # << >>)
      /\ UNCHANGED <<received, store, ready, casts, inbox, pages>>
      /\ c = Relay => /\ since' = [x \in Screen |-> IF x \in pages THEN received ELSE since[x]]
                      /\ seen' = seen
      /\ c # Relay => /\ since' = [since EXCEPT ![c] = received]
                      /\ seen' = [seen EXCEPT ![c] = 0]
  BY DEF Join
<1>2. /\ received \in Nat /\ clients \in Seq(Client) /\ pages \subseteq Browser
      /\ seen \in [Screen -> Nat] /\ since \in [Screen -> Nat]
  BY <1>types DEF TwinTypeOK
<1>el. Begun \in Int /\ Begun <= received /\ Begun >= 0
  <2>1. Len(ready) \in Nat /\ Len(ready) <= received
    BY <1>types, Elements DEF Numbered
  <2> QED BY <1>2, <2>1 DEF Begun
<1>3. Begun' = Begun /\ ToCome' = ToCome
  BY <1>1 DEF Begun, ToCome
<1>4. IsFiniteSet(ToSet(clients) \cup {c}) /\ ToSet(clients) \subseteq Client
  <2>1. IsFiniteSet(ToSet(clients))
    BY <1>2, ListIsFinite
  <2>2. ToSet(clients) \subseteq Client
    BY <1>2 DEF ToSet
  <2> QED BY <2>1, <2>2, FS_AddElement
<1>5. /\ clients' \in Seq(ToSet(clients) \cup {c}) /\ IsInjective(clients')
      /\ ToSet(clients') = ToSet(clients) \cup {c}
  BY <1>1, <1>4, OrderListsAll
<1>6. clients' \in Seq(Client)
  BY <1>4, <1>5
<1>7. Listed'
  BY <1>types, <1>1, <1>5 DEF Listed
<1>8. Viewer \subseteq Screen /\ Browser \subseteq Screen /\ (c # Relay => c \in Viewer)
  BY DEF Screen, Client
<1>9. seen' \in [Screen -> Nat] /\ since' \in [Screen -> Nat]
  <2>1. CASE c = Relay
    BY <1>1, <1>2, <2>1
  <2>2. CASE c # Relay
    <3>1. since' = [since EXCEPT ![c] = received] /\ seen' = [seen EXCEPT ![c] = 0]
      BY <1>1, <2>2
    <3>2. c \in Screen /\ 0 \in Nat
      BY <1>8, <2>2
    <3> QED BY <1>2, <3>1, <3>2
  <2> QED BY <2>1, <2>2
<1>10. TwinTypeOK'
  <2>1. reshuffled' \in BOOLEAN
    BY <1>types, <1>1 DEF TwinTypeOK
  <2> QED BY <1>types, <1>1, <1>6, <1>9, <2>1 DEF TwinTypeOK
<1>11. Numbered'
  <2>1. \A x \in Screen : seen'[x] <= Begun
    <3>1. \A x \in Screen : seen'[x] \in {0, seen[x]}
      BY <1>1, <1>2
    <3> QED BY <1>types, <1>el, <3>1 DEF Numbered
  <2> QED BY <1>types, <1>1, <1>3, <2>1 DEF Numbered
<1>12. ASSUME ~reshuffled' PROVE InStep' /\ UpToDate'
  <2>1. ~reshuffled /\ casts = << >> /\ casts' = << >>
    BY <1>1, <1>12
  <2>2. DOMAIN casts' = {}
    <3>1. DOMAIN << >> = {}
      OBVIOUS
    <3> QED BY <2>1, <3>1
  <2>3. InStep'
    BY <2>1, <2>2 DEF InStep
  <2>4. ASSUME NEW v \in Viewer \cap open', v \notin ToCome, since'[v] < Begun PROVE seen'[v] = Begun
    <3>1. CASE v = c
      <4>1. v # Relay /\ v \in Screen
        BY <1>8, TwinAssumption
      <4>2. since'[v] = received
        BY <1>1, <1>2, <3>1, <4>1
      <4> QED BY <1>el, <1>2, <2>4, <4>2
    <3>2. CASE v # c
      <4>1. v \in open /\ v \in Screen /\ v \notin pages
        BY <1>1, <1>2, <1>8, <3>2, TwinAssumption
      <4>2. since'[v] = since[v] /\ seen'[v] = seen[v]
        BY <1>1, <1>2, <3>2, <4>1
      <4> QED BY <1>types, <2>1, <2>4, <4>1, <4>2 DEF UpToDate
    <3> QED BY <3>1, <3>2
  <2>5. ASSUME Relay \in open', Relay \notin ToCome, NEW b \in pages, since'[b] < Begun
        PROVE  IF inbox = << >> THEN seen'[b] = Begun ELSE inbox[Len(inbox)] = Begun
    <3>1. b \in Screen /\ b \in Browser
      BY <1>2, <1>8
    <3>2. CASE c = Relay
      <4>1. since'[b] = received
        BY <1>1, <3>1, <3>2
      <4> QED BY <1>el, <1>2, <2>5, <4>1
    <3>3. CASE c # Relay
      <4>1. Relay \in open /\ b # c
        BY <1>1, <1>8, <2>5, <3>1, <3>3, TwinAssumption
      <4>2. since'[b] = since[b] /\ seen'[b] = seen[b]
        BY <1>1, <1>2, <3>1, <3>3, <4>1
      <4> QED BY <1>types, <2>1, <2>5, <4>1, <4>2 DEF UpToDate
    <3> QED BY <3>2, <3>3
  <2>6. UpToDate'
    BY <1>1, <1>3, <2>4, <2>5 DEF UpToDate
  <2> QED BY <2>3, <2>6
<1>13. InStep' /\ UpToDate'
  BY <1>12 DEF InStep, UpToDate
<1> QED BY <1>7, <1>10, <1>11, <1>13 DEF TwinInv

\* What leaves the list is closed.
LEMMA Discards == ASSUME NEW c \in Client, TwinInv, Discard(c) PROVE TwinInv'
<1>types. TwinTypeOK /\ Numbered /\ Listed /\ InStep /\ UpToDate
  BY DEF TwinInv
<1>1. PICK i \in DOMAIN clients : clients[i] = c /\ clients' = RemoveAt(clients, i)
  BY DEF Discard
<1>2. /\ c \notin open
      /\ reshuffled' = (reshuffled \/ casts # << >>)
      /\ UNCHANGED <<received, store, ready, casts, open, inbox, pages, seen, since>>
  BY DEF Discard
<1>3. /\ clients \in Seq(Client) /\ Len(clients) \in Nat /\ DOMAIN clients = 1..Len(clients)
      /\ open \subseteq ToSet(clients) /\ IsInjective(clients)
  BY <1>types, Elements DEF TwinTypeOK, Listed
<1>4. /\ clients' \in Seq(Client) /\ DOMAIN clients' = 1..(Len(clients) - 1)
      /\ \A k \in 1..(Len(clients) - 1) :
           clients'[k] = IF k < i THEN clients[k] ELSE clients[k + 1]
  BY <1>1, <1>3, Removal
<1>5. IsInjective(clients')
  <2>1. ASSUME NEW k \in DOMAIN clients', NEW l \in DOMAIN clients', clients'[k] = clients'[l]
        PROVE  k = l
    <3>1. PICK a, b : a = (IF k < i THEN k ELSE k + 1) /\ b = (IF l < i THEN l ELSE l + 1)
      OBVIOUS
    <3>2. a \in DOMAIN clients /\ b \in DOMAIN clients
      BY <1>3, <1>4, <3>1
    <3>3. clients'[k] = clients[a] /\ clients'[l] = clients[b]
      BY <1>4, <3>1
    <3>4. a = b
      BY <1>3, <2>1, <3>2, <3>3 DEF IsInjective
    <3>5. k \in Int /\ l \in Int /\ i \in Int
      BY <1>3, <1>4
    <3> QED BY <3>1, <3>4, <3>5
  <2> QED BY <2>1 DEF IsInjective
<1>6. open \subseteq ToSet(clients')
  <2>1. ASSUME NEW x \in open PROVE x \in ToSet(clients')
    <3>1. PICK k \in DOMAIN clients : clients[k] = x
      BY <1>3 DEF ToSet
    <3>2. k # i /\ k \in Int /\ i \in Int
      BY <1>1, <1>2, <1>3, <3>1
    <3>3. CASE k < i
      <4>1. k \in DOMAIN clients' /\ clients'[k] = x
        BY <1>3, <1>4, <3>1, <3>3
      <4> QED BY <4>1 DEF ToSet
    <3>4. CASE k > i
      <4>1. k - 1 \in 1..(Len(clients) - 1) /\ ~(k - 1 < i) /\ (k - 1) + 1 = k
        BY <1>3, <3>2, <3>4
      <4>2. k - 1 \in DOMAIN clients' /\ clients'[k - 1] = x
        BY <1>4, <3>1, <4>1
      <4> QED BY <4>2 DEF ToSet
    <3> QED BY <3>2, <3>3, <3>4
  <2> QED BY <2>1
<1>7. Begun' = Begun /\ ToCome' = ToCome
  BY <1>2 DEF Begun, ToCome
<1>8. TwinTypeOK'
  <2>1. reshuffled' \in BOOLEAN
    BY <1>types, <1>2 DEF TwinTypeOK
  <2> QED BY <1>types, <1>2, <1>4, <2>1 DEF TwinTypeOK
<1>9. Numbered' /\ Listed'
  BY <1>types, <1>2, <1>5, <1>6, <1>7 DEF Numbered, Listed
<1>10. InStep'
  <2>1. ASSUME ~reshuffled' PROVE casts' = << >> /\ DOMAIN casts' = {}
    <3>1. DOMAIN << >> = {}
      OBVIOUS
    <3> QED BY <1>2, <2>1, <3>1
  <2> QED BY <2>1 DEF InStep
<1>11. UpToDate'
  BY <1>types, <1>2, <1>7 DEF UpToDate
<1> QED BY <1>8, <1>9, <1>10, <1>11 DEF TwinInv

\* A page that closes, opens or is shown a message.
LEMMA Pages ==
    ASSUME TwinInv,
           \/ \E c \in Client : CloseSocket(c)
           \/ PassOn
           \/ \E b \in Browser : Register(b) \/ Unregister(b)
    PROVE  TwinInv'
<1>types. TwinTypeOK /\ Numbered /\ Listed /\ InStep /\ UpToDate
  BY DEF TwinInv
<1>0. UNCHANGED <<received, store, ready, casts, clients, reshuffled>>
  BY DEF CloseSocket, PassOn, Register, Unregister
<1>1. /\ received \in Nat /\ inbox \in Seq(Nat) /\ pages \subseteq Browser /\ open \subseteq Client
      /\ seen \in [Screen -> Nat] /\ since \in [Screen -> Nat]
  BY <1>types DEF TwinTypeOK
<1>2. Begun' = Begun /\ ToCome' = ToCome /\ InStep'
  BY <1>types, <1>0 DEF Begun, ToCome, InStep, OnItsWay
<1>el. Begun \in Int /\ Begun <= received /\ Begun >= 0
  <2>1. Len(ready) \in Nat /\ Len(ready) <= received
    BY <1>types, Elements DEF Numbered
  <2> QED BY <1>1, <2>1 DEF Begun
<1>s. Viewer \subseteq Screen /\ Browser \subseteq Screen
  BY DEF Screen
<1>b. \A x \in Screen : seen[x] \in Nat /\ seen[x] <= Begun
  BY <1>types DEF TwinTypeOK, Numbered
<1>3. ASSUME NEW c \in Client, CloseSocket(c) PROVE TwinInv'
  <2>1. /\ open' = open \ {c} /\ inbox' = IF c = Relay THEN << >> ELSE inbox
        /\ UNCHANGED <<pages, seen, since>>
    BY <1>3 DEF CloseSocket
  <2>2. << >> \in Seq(Nat) /\ DOMAIN << >> = {}
    OBVIOUS
  <2>3. inbox' \in Seq(Nat)
    BY <1>1, <2>1, <2>2
  <2>4. TwinTypeOK'
    BY <1>types, <1>0, <2>1, <2>3 DEF TwinTypeOK
  <2>5. \A i \in DOMAIN inbox' : inbox'[i] <= Begun
    <3>1. CASE c = Relay
      BY <2>1, <2>2, <3>1
    <3>2. CASE c # Relay
      BY <1>types, <2>1, <3>2 DEF Numbered
    <3> QED BY <3>1, <3>2
  <2>6. Numbered'
    BY <1>types, <1>0, <1>2, <2>1, <2>5 DEF Numbered
  <2>7. Listed'
    BY <1>types, <1>0, <2>1 DEF Listed
  <2>8. UpToDate'
    BY <1>types, <1>0, <1>2, <2>1 DEF UpToDate
  <2> QED BY <1>2, <2>4, <2>6, <2>7, <2>8 DEF TwinInv
<1>4. CASE PassOn
  <2>1. /\ inbox # << >> /\ inbox' = Tail(inbox)
        /\ seen' = [x \in Screen |-> IF x \in pages THEN Head(inbox) ELSE seen[x]]
        /\ UNCHANGED <<open, pages, since>>
    BY <1>4 DEF PassOn
  <2>2. /\ inbox' \in Seq(Nat) /\ Len(inbox') = Len(inbox) - 1 /\ Len(inbox) \in Nat /\ Len(inbox) > 0
        /\ DOMAIN inbox' = 1..(Len(inbox) - 1) /\ DOMAIN inbox = 1..Len(inbox)
        /\ \A i \in 1..(Len(inbox) - 1) : inbox'[i] = inbox[i + 1]
        /\ Head(inbox) = inbox[1] /\ inbox[1] \in Nat
    BY <1>1, <2>1
  <2>3. inbox[1] <= Begun
    BY <1>types, <2>2 DEF Numbered
  <2>4. \A x \in Screen : seen'[x] = IF x \in pages THEN inbox[1] ELSE seen[x]
    BY <2>1, <2>2
  <2>5. seen' \in [Screen -> Nat]
    BY <1>1, <2>1, <2>2
  <2>6. TwinTypeOK'
    BY <1>types, <1>0, <2>1, <2>2, <2>5 DEF TwinTypeOK
  <2>7. Numbered'
    <3>1. \A i \in DOMAIN inbox' : inbox'[i] <= Begun
      <4>1. \A i \in DOMAIN inbox' : i + 1 \in DOMAIN inbox
        BY <2>2
      <4> QED BY <1>types, <2>2, <4>1 DEF Numbered
    <3>2. \A x \in Screen : seen'[x] <= Begun
      BY <1>b, <2>3, <2>4
    <3> QED BY <1>types, <1>0, <1>2, <3>1, <3>2 DEF Numbered
  <2>8. Listed'
    BY <1>types, <1>0, <2>1 DEF Listed
  <2>9. ASSUME ~reshuffled, NEW v \in Viewer \cap open, v \notin ToCome, since[v] < Begun
        PROVE  seen'[v] = Begun
    <3>1. v \in Screen /\ v \notin pages
      BY <1>1, <1>s, TwinAssumption
    <3> QED BY <1>types, <2>4, <2>9, <3>1 DEF UpToDate
  <2>10. ASSUME ~reshuffled, Relay \in open, Relay \notin ToCome, NEW b \in pages, since[b] < Begun
         PROVE  IF inbox' = << >> THEN seen'[b] = Begun ELSE inbox'[Len(inbox')] = Begun
    <3>1. inbox[Len(inbox)] = Begun
      BY <1>types, <2>1, <2>10 DEF UpToDate
    <3>2. CASE Len(inbox) = 1
      <4>1. inbox' = << >>
        BY <2>2, <3>2
      <4>2. seen'[b] = inbox[1]
        BY <1>1, <1>s, <2>4
      <4> QED BY <3>1, <3>2, <4>1, <4>2
    <3>3. CASE Len(inbox) # 1
      <4>1. Len(inbox) - 1 \in 1..(Len(inbox) - 1) /\ (Len(inbox) - 1) + 1 = Len(inbox)
        BY <2>2, <3>3
      <4>2. inbox'[Len(inbox')] = inbox[Len(inbox)]
        BY <2>2, <4>1
      <4>3. inbox' # << >>
        <5>1. Len(<< >>) = 0
          OBVIOUS
        <5> QED BY <2>2, <3>3, <5>1
      <4> QED BY <3>1, <4>2, <4>3
    <3> QED BY <3>2, <3>3
  <2>11. UpToDate'
    BY <1>0, <1>2, <2>1, <2>9, <2>10 DEF UpToDate
  <2> QED BY <1>2, <2>6, <2>7, <2>8, <2>11 DEF TwinInv
<1>5. ASSUME NEW b \in Browser, Register(b) PROVE TwinInv'
  <2>1. /\ pages' = pages \cup {b} /\ since' = [since EXCEPT ![b] = received]
        /\ seen' = [seen EXCEPT ![b] = 0] /\ UNCHANGED <<open, inbox>>
    BY <1>5 DEF Register
  <2>2. /\ b \in Screen /\ b \notin Viewer
        /\ \A x \in Screen : /\ since'[x] = IF x = b THEN received ELSE since[x]
                             /\ seen'[x] = IF x = b THEN 0 ELSE seen[x]
    BY <1>1, <1>s, <2>1, TwinAssumption
  <2>3. seen' \in [Screen -> Nat] /\ since' \in [Screen -> Nat] /\ pages' \subseteq Browser
    BY <1>1, <2>1
  <2>4. TwinTypeOK'
    BY <1>types, <1>0, <2>1, <2>3 DEF TwinTypeOK
  <2>5. Numbered'
    <3>1. \A x \in Screen : seen'[x] <= Begun
      BY <1>b, <1>el, <2>2
    <3> QED BY <1>types, <1>0, <1>2, <2>1, <3>1 DEF Numbered
  <2>6. Listed'
    BY <1>types, <1>0, <2>1 DEF Listed
  <2>7. \A v \in Viewer : since'[v] = since[v] /\ seen'[v] = seen[v]
    BY <1>s, <2>2
  <2>8. \A x \in pages' : ~(since'[x] < Begun) \/ (x \in pages /\ since'[x] = since[x] /\ seen'[x] = seen[x])
    <3>1. ASSUME NEW x \in pages' PROVE ~(since'[x] < Begun) \/ (x \in pages /\ since'[x] = since[x] /\ seen'[x] = seen[x])
      <4>1. CASE x = b
        BY <1>1, <1>el, <2>2, <4>1
      <4>2. CASE x # b
        BY <1>1, <1>s, <2>1, <2>2, <4>2
      <4> QED BY <4>1, <4>2
    <3> QED BY <3>1
  <2>9. UpToDate'
    BY <1>types, <1>0, <1>2, <2>1, <2>7, <2>8 DEF UpToDate
  <2> QED BY <1>2, <2>4, <2>5, <2>6, <2>9 DEF TwinInv
<1>6. ASSUME NEW b \in Browser, Unregister(b) PROVE TwinInv'
  <2>1. pages' = pages \ {b} /\ UNCHANGED <<open, inbox, seen, since>>
    BY <1>6 DEF Unregister
  <2>2. TwinTypeOK'
    BY <1>types, <1>0, <2>1 DEF TwinTypeOK
  <2>3. Numbered' /\ Listed'
    BY <1>types, <1>0, <1>2, <2>1 DEF Numbered, Listed
  <2>4. UpToDate'
    BY <1>types, <1>0, <1>2, <2>1 DEF UpToDate
  <2> QED BY <1>2, <2>2, <2>3, <2>4 DEF TwinInv
<1> QED BY <1>3, <1>4, <1>5, <1>6

\* The store has the last message, no screen is ahead of it, and a screen that was there
\* before shows it once the broadcasts are over, for any number of viewers, browsers and
\* messages, as long as the clients stay the same under a broadcast
\* (twin_service.py:63-76).
THEOREM FeedArrives == TwinSpec => []FeedFollowsTheStore
<1>1. TwinInv /\ [TwinNext]_twinVars => TwinInv'
  <2> SUFFICES ASSUME TwinInv, [TwinNext]_twinVars PROVE TwinInv'
    OBVIOUS
  <2>1. ASSUME TwinNext PROVE TwinInv'
    BY <2>1, Receives, Begins, Proceeds, Joins, Discards, Pages DEF TwinNext
  <2>2. CASE UNCHANGED twinVars
    BY <2>2 DEF twinVars, TwinInv, TwinTypeOK, Numbered, Listed, InStep, UpToDate, Begun,
       OnItsWay, ToCome
  <2> QED BY <2>1, <2>2
<1> QED BY TwinStarts, TwinImplies, <1>1, PTL DEF TwinSpec

-----------------------------------------------------------------------------
(***************************************************************************)
(* The queue of a station                                                  *)
(***************************************************************************)

StationTypeOK ==
    /\ status \in [Charger -> {"available", "occupied", "offline"}]
    /\ free \in Seq(Charger)
    /\ waiting \in Nat /\ admitted \in Nat /\ released \in Nat

\* The places and the indices are counted alike, and as many releases are on their way
\* as there are free places somebody waits for.
Counted ==
    /\ Len(free) + Cardinality(Busy) = Cardinality(Charger)
    /\ admitted <= Len(free)
    /\ waiting > 0 => Cardinality(Charger) <= admitted + Cardinality(Busy) + released

Indexed == IsInjective(free) /\ Range(free) = Charger \ Busy

StationInv == StationTypeOK /\ Indexed /\ Counted

\* An injective sequence is as long as its range is large.
LEMMA LengthOfInjective ==
    ASSUME NEW S, IsFiniteSet(S), NEW s \in Seq(S), IsInjective(s), Range(s) = S
    PROVE  Len(s) = Cardinality(S)
<1>1. Len(s) \in Nat /\ DOMAIN s = 1..Len(s) /\ \A i \in DOMAIN s : s[i] \in S
  OBVIOUS
<1>2. s \in [1..Len(s) -> S]
  BY <1>1
<1>3. s \in Bijection(1..Len(s), S)
  BY <1>1, <1>2 DEF Bijection, Injection, Surjection, IsInjective, Range
<1>4. ExistsBijection(1..Len(s), S)
  BY <1>3 DEF ExistsBijection
<1>5. IsFiniteSet(1..Len(s)) /\ Cardinality(1..Len(s)) = Len(s)
  BY <1>1, FS_Interval
<1> QED BY <1>4, <1>5, FS_Bijection

LEMMA Counts ==
    ASSUME StationTypeOK
    PROVE  /\ Busy \subseteq Charger /\ IsFiniteSet(Busy)
           /\ Cardinality(Busy) \in Nat /\ Cardinality(Charger) \in Nat /\ Len(free) \in Nat
           /\ Cardinality(Busy) <= Cardinality(Charger)
<1>1. Busy \subseteq Charger
  BY DEF Busy
<1> QED BY <1>1, StationAssumption, FS_Subset, FS_CardinalityType DEF StationTypeOK

LEMMA StationStarts == StationInit => StationInv
<1> SUFFICES ASSUME StationInit PROVE StationInv
  OBVIOUS
<1>1. Busy = {} /\ free = Order
  BY DEF StationInit, Busy
<1>2. StationTypeOK
  BY StationAssumption DEF StationInit, StationTypeOK
<1>3. Indexed
  BY <1>1, StationAssumption DEF Indexed
<1>4. Len(free) = Cardinality(Charger) /\ Cardinality(Busy) = 0
  BY <1>1, StationAssumption, LengthOfInjective, FS_EmptySet
<1>5. Counted
  BY <1>2, <1>4, Counts DEF Counted, StationInit
<1> QED BY <1>2, <1>3, <1>5 DEF StationInv

LEMMA StationImplies == StationInv => PortsAddUp
BY Counts DEF StationInv, Indexed, Counted, StationTypeOK, PortsAddUp

\* The resource keeps the count when it lets the first vehicle in.
LEMMA AdmitKeeps ==
    ASSUME StationInv, NEW n \in Nat, NEW r \in Nat, Admit(n),
           n > 0 => Cardinality(Charger) <= admitted + Cardinality(Busy) + r + 1,
           n > 0 /\ ~HasPlace => Cardinality(Charger) <= admitted + Cardinality(Busy) + r
    PROVE  /\ waiting' \in Nat /\ admitted' \in Nat
           /\ admitted' <= Len(free)
           /\ waiting' > 0 => Cardinality(Charger) <= admitted' + Cardinality(Busy) + r
<1>1. StationTypeOK /\ Counted
  BY DEF StationInv
<1>2. CASE n > 0 /\ HasPlace
  <2>1. waiting' = n - 1 /\ admitted' = admitted + 1
    BY <1>2 DEF Admit
  <2> QED BY <1>1, <1>2, <2>1, Counts DEF HasPlace, Counted, StationTypeOK
<1>3. CASE ~(n > 0 /\ HasPlace)
  <2>1. waiting' = n /\ admitted' = admitted
    BY <1>3 DEF Admit
  <2> QED BY <1>1, <1>3, <2>1, Counts DEF Counted, StationTypeOK
<1> QED BY <1>2, <1>3

LEMMA VacateKeeps ==
    ASSUME StationInv, NEW c \in Charger, c \in Busy, Vacate(c)
    PROVE  StationInv'
<1>1. StationTypeOK /\ Counted /\ Indexed
  BY DEF StationInv
<1>2. StationTypeOK'
  BY <1>1 DEF Vacate, StationTypeOK
<1>3. Busy' = Busy \ {c}
  BY <1>1 DEF Vacate, Busy, StationTypeOK
<1>4. Cardinality(Busy') = Cardinality(Busy) - 1
  BY <1>1, <1>3, Counts, FS_RemoveElement
<1>5. /\ Len(free') = Len(free) + 1 /\ Len(free) \in Nat
      /\ free'[Len(free) + 1] = c /\ \A i \in 1..Len(free) : free'[i] = free[i]
      /\ DOMAIN free' = 1..(Len(free) + 1) /\ DOMAIN free = 1..Len(free)
  BY <1>1 DEF Vacate, StationTypeOK
<1>6. Range(free') = Range(free) \cup {c}
  BY <1>5 DEF Range
<1>7. c \notin Range(free)
  BY <1>1 DEF Indexed
<1>8. IsInjective(free')
  BY <1>1, <1>5, <1>7 DEF Indexed, IsInjective, Range
<1>9. Indexed'
  BY <1>1, <1>3, <1>6, <1>8 DEF Indexed, Busy
<1>10. waiting' = waiting /\ admitted' = admitted /\ released' = released + 1
  BY DEF Vacate
<1>11. Counted'
  BY <1>1, <1>4, <1>5, <1>10, Counts DEF Counted, StationTypeOK
<1> QED BY <1>2, <1>9, <1>11 DEF StationInv

LEMMA StationSteps == StationInv /\ [StationNext]_stationVars => StationInv'
<1> SUFFICES ASSUME StationInv, [StationNext]_stationVars PROVE StationInv'
  OBVIOUS
<1>types. StationTypeOK /\ Counted /\ Indexed
  BY DEF StationInv
<1>same. ASSUME UNCHANGED <<status, free>> PROVE Busy' = Busy /\ Indexed'
  BY <1>types, <1>same DEF Busy, Indexed
<1>1. CASE Arrive
  <2>1. Admit(waiting + 1) /\ UNCHANGED <<status, free, released>>
    BY <1>1 DEF Arrive
  <2>2. Cardinality(Charger) <= admitted + Cardinality(Busy) \/ HasPlace
    BY <1>types, Counts DEF HasPlace, StationTypeOK
  <2>3. waiting + 1 \in Nat
    BY <1>types DEF StationTypeOK
  <2>4. /\ waiting' \in Nat /\ admitted' \in Nat /\ admitted' <= Len(free)
        /\ waiting' > 0 => Cardinality(Charger) <= admitted' + Cardinality(Busy) + released
    <3>1. CASE waiting > 0 \/ ~HasPlace
      BY <1>types, <2>1, <2>2, <2>3, <3>1, Counts, AdmitKeeps, SMTT(20) DEF Counted, StationTypeOK
    <3>2. CASE waiting = 0 /\ HasPlace
      BY <1>types, <2>1, <3>2, Counts DEF Admit, HasPlace, Counted, StationTypeOK
    <3> QED BY <1>types, <3>1, <3>2 DEF StationTypeOK
  <2>5. StationTypeOK'
    BY <1>types, <2>1, <2>4 DEF StationTypeOK
  <2>6. Counted'
    BY <1>types, <1>same, <2>1, <2>4 DEF Counted
  <2> QED BY <1>same, <2>1, <2>5, <2>6 DEF StationInv
<1>2. CASE Start
  <2> DEFINE c == free[Len(free)]
  <2>1. PICK stay \in Stays : status' = [status EXCEPT ![c] = "occupied"]
    BY <1>2 DEF Start
  <2>2. /\ admitted > 0 /\ admitted' = admitted - 1 /\ waiting' = waiting /\ released' = released
        /\ free' = SubSeq(free, 1, Len(free) - 1)
    BY <1>2 DEF Start
  <2>3. Len(free) \in Nat /\ Len(free) > 0 /\ DOMAIN free = 1..Len(free)
    BY <1>types, <2>2, Counts DEF Counted, StationTypeOK
  <2>4. c \in Charger /\ c \in Range(free) /\ c \notin Busy
    <3>1. Len(free) \in DOMAIN free
      BY <2>3
    <3>2. c \in Range(free)
      BY <3>1 DEF Range
    <3> QED BY <1>types, <3>2 DEF Indexed
  <2>5. /\ Len(free') = Len(free) - 1 /\ DOMAIN free' = 1..(Len(free) - 1)
        /\ \A i \in 1..(Len(free) - 1) : free'[i] = free[i]
    BY <1>types, <2>2, <2>3 DEF StationTypeOK
  <2>6. Busy' = Busy \cup {c}
    BY <1>types, <2>1, <2>4 DEF Busy, StationTypeOK
  <2>7. Cardinality(Busy') = Cardinality(Busy) + 1
    BY <1>types, <2>4, <2>6, Counts, FS_AddElement
  <2>8. StationTypeOK'
    <3>1. free' \in Seq(Charger)
      BY <1>types, <2>2, <2>3 DEF StationTypeOK
    <3>2. status' \in [Charger -> {"available", "occupied", "offline"}]
      BY <1>types, <2>1 DEF StationTypeOK
    <3> QED BY <1>types, <2>2, <3>1, <3>2 DEF StationTypeOK
  <2>9. IsInjective(free')
    BY <1>types, <2>3, <2>5 DEF Indexed, IsInjective
  <2>10. Range(free') = Range(free) \ {c}
    <3>1. \A i \in DOMAIN free : i # Len(free) => free[i] # c
      BY <1>types, <2>3 DEF Indexed, IsInjective
    <3> QED BY <2>3, <2>5, <3>1 DEF Range
  <2> HIDE DEF c
  <2>11. Indexed'
    BY <1>types, <2>6, <2>9, <2>10 DEF Indexed
  <2>12. Counted'
    <3>1. /\ Cardinality(Busy) \in Nat /\ Cardinality(Charger) \in Nat /\ Len(free) \in Nat
          /\ admitted \in Nat /\ released \in Nat
      BY <1>types, Counts DEF StationTypeOK
    <3>2. Len(free') + Cardinality(Busy') = Cardinality(Charger) /\ admitted' <= Len(free')
      BY <1>types, <2>2, <2>5, <2>7, <3>1 DEF Counted
    <3>3. waiting' > 0 => Cardinality(Charger) <= admitted' + Cardinality(Busy') + released'
      BY <1>types, <2>2, <2>7, <3>1 DEF Counted
    <3> QED BY <3>2, <3>3 DEF Counted
  <2> QED BY <2>8, <2>11, <2>12 DEF StationInv
<1>3. CASE Release
  <2>1. Admit(waiting) /\ UNCHANGED <<status, free>> /\ released' = released - 1 /\ released > 0
    BY <1>3 DEF Release
  <2>2. Cardinality(Charger) <= admitted + Cardinality(Busy) \/ HasPlace
    BY <1>types, Counts DEF HasPlace, StationTypeOK
  <2>3. released - 1 \in Nat
    BY <1>types, <2>1 DEF StationTypeOK
  <2>4. /\ waiting' \in Nat /\ admitted' \in Nat /\ admitted' <= Len(free)
        /\ waiting' > 0 => Cardinality(Charger) <= admitted' + Cardinality(Busy) + (released - 1)
    <3>1. PICK r \in Nat : r = released - 1
      BY <2>3
    <3>2. /\ waiting > 0 => Cardinality(Charger) <= admitted + Cardinality(Busy) + r + 1
          /\ ~HasPlace => Cardinality(Charger) <= admitted + Cardinality(Busy) + r
      BY <1>types, <2>2, <3>1, Counts DEF Counted, StationTypeOK
    <3>3. waiting \in Nat
      BY <1>types DEF StationTypeOK
    <3> QED BY <2>1, <3>1, <3>2, <3>3, AdmitKeeps
  <2>5. StationTypeOK'
    BY <1>types, <2>1, <2>3, <2>4 DEF StationTypeOK
  <2>6. Counted'
    BY <1>types, <1>same, <2>1, <2>4 DEF Counted
  <2> QED BY <1>same, <2>1, <2>5, <2>6 DEF StationInv
<1>still. ASSUME UNCHANGED <<free, waiting, admitted, released>>, Busy' = Busy,
                 status' \in [Charger -> {"available", "occupied", "offline"}]
          PROVE  StationInv'
  BY <1>types, <1>still DEF StationInv, StationTypeOK, Indexed, Counted
<1>unchanged. ASSUME UNCHANGED <<status, free, waiting, admitted, released>> PROVE StationInv'
  BY <1>types, <1>still, <1>unchanged, <1>same DEF StationTypeOK
<1>4. CASE ClockMoves
  BY <1>4, <1>unchanged DEF ClockMoves
<1>5. ASSUME NEW c \in Charger, End(c) PROVE StationInv'
  <2>1. c \in Busy
    BY <1>5 DEF End, Busy
  <2>2. CASE Vacate(c)
    BY <2>1, <2>2, VacateKeeps
  <2>3. CASE Break(c)
    <3>1. status' = [status EXCEPT ![c] = "offline"] /\ UNCHANGED <<free, waiting, admitted, released>>
      BY <2>3 DEF Break
    <3>2. Busy' = Busy
      BY <1>types, <2>1, <3>1 DEF Busy, StationTypeOK
    <3> QED BY <1>types, <1>still, <3>1, <3>2 DEF StationTypeOK
  <2> QED BY <1>5, <2>2, <2>3 DEF End
<1>6. ASSUME NEW c \in Charger, Recover(c) PROVE StationInv'
  BY <1>6, VacateKeeps DEF Recover, Busy
<1>7. ASSUME NEW c \in Charger, Report(c) PROVE StationInv'
  BY <1>7, <1>unchanged DEF Report
<1>8. CASE UNCHANGED stationVars
  BY <1>8, <1>unchanged DEF stationVars
<1> QED BY <1>1, <1>2, <1>3, <1>4, <1>5, <1>6, <1>7, <1>8 DEF StationNext

\* The two accounts of a station's chargers agree for any number of chargers, vehicles
\* and stays: whoever is given a place finds an index to pop, each charger is free once,
\* and nobody waits at a free charger unless a release is on its way
\* (station_sim.py:169, 190).
THEOREM PortsAreAccountedFor == StationSpec => []PortsAddUp
BY StationStarts, StationSteps, StationImplies, PTL DEF StationSpec

-----------------------------------------------------------------------------
(***************************************************************************)
(* The readings of a charger                                               *)
(***************************************************************************)

TickersTypeOK ==
    /\ tickers \in [Charger -> [ToNextReading -> Nat]]
    /\ idle \in [Charger -> 0..Tick] /\ chain \in [Charger -> Nat]

\* Processes that wake up find their charger idle and end, so that those of a charger
\* that is idle for so long have less than the rest of a tick to sleep.
Asleep ==
    \A c \in Charger :
      /\ status[c] = "occupied" => idle[c] = 0
      /\ \A t \in ToNextReading : t > Tick - idle[c] => tickers[c][t] = 0

\* A charger's processes come from the sessions of its chain.
FromTheChain ==
    \A c \in Charger :
      /\ Tickers(c) <= chain[c]
      /\ status[c] = "occupied" => Tickers(c) >= 1

TickersInv == TickersTypeOK /\ Asleep /\ FromTheChain

LEMMA Readings ==
    /\ IsFiniteSet(ToNextReading)
    /\ 0 \in ToNextReading /\ Tick \in ToNextReading /\ Tick \in Nat /\ Tick # 0
    /\ \A t \in ToNextReading : t \in Nat
    /\ TickersTypeOK => \A c \in Charger : Tickers(c) \in Nat
<1>1. 0 \in Int /\ Tick \in Int /\ Tick \in Nat /\ Tick # 0
  BY StationAssumption
<1>2. IsFiniteSet(ToNextReading)
  BY <1>1, FS_Interval DEF ToNextReading
<1>3. ASSUME TickersTypeOK, NEW c \in Charger PROVE Tickers(c) \in Nat
  <2>1. \A t \in ToNextReading : tickers[c][t] \in Nat
    BY <1>3 DEF TickersTypeOK
  <2> QED BY <1>2, <2>1, SumType DEF Tickers
<1> QED BY <1>1, <1>2, <1>3 DEF ToNextReading

LEMMA OneCountChanges ==
    ASSUME NEW f \in [ToNextReading -> Nat], NEW h \in [ToNextReading -> Nat], NEW y \in ToNextReading,
           \A t \in ToNextReading \ {y} : h[t] = f[t]
    PROVE  /\ SumFunctionOnSet(f, ToNextReading) \in Nat
           /\ SumFunctionOnSet(h, ToNextReading) = SumFunctionOnSet(f, ToNextReading) - f[y] + h[y]
<1>1. IsFiniteSet(ToNextReading)
  BY Readings
<1>2. \A t \in ToNextReading : f[t] \in Nat /\ f[t] \in Int /\ h[t] \in Int
  OBVIOUS
<1>3. SumFunctionOnSet(f, ToNextReading) \in Nat
  BY <1>1, <1>2, SumType
<1>4. SumFunctionOnSet(h, ToNextReading) = SumFunctionOnSet(f, ToNextReading) - f[y] + h[y]
  BY <1>1, <1>2, SumChanges
<1> QED BY <1>3, <1>4

LEMMA TickersImply == TickersInv => TickersAreTheChain
<1> SUFFICES ASSUME TickersInv, NEW c \in Charger, idle[c] = Tick PROVE Tickers(c) = tickers[c][0]
  BY DEF TickersInv, FromTheChain, TickersAreTheChain
<1>1. \A t \in ToNextReading \ {0} : t > Tick - Tick
  BY Readings DEF ToNextReading
<1>2. \A t \in ToNextReading \ {0} : tickers[c][t] = 0
  BY <1>1 DEF TickersInv, Asleep
<1>3. tickers[c][0] \in Int
  BY Readings DEF TickersInv, TickersTypeOK
<1> QED BY <1>2, <1>3, Readings, SumOfOne DEF Tickers

LEMMA TickersStart == StationInit => TickersInv
<1> SUFFICES ASSUME StationInit PROVE TickersInv
  OBVIOUS
<1>1. TickersTypeOK
  BY Readings DEF StationInit, TickersTypeOK, NoTickers
<1>2. \A c \in Charger : \A t \in ToNextReading : tickers[c][t] = 0
  BY DEF StationInit, NoTickers
<1>3. Asleep
  BY <1>2 DEF StationInit, Asleep
<1>4. ASSUME NEW c \in Charger PROVE Tickers(c) = 0
  <2>1. tickers[c][0] = 0 /\ tickers[c][0] \in Int
    BY <1>2, Readings
  <2>2. \A t \in ToNextReading \ {0} : tickers[c][t] = 0
    BY <1>2
  <2> QED BY <2>1, <2>2, Readings, SumOfOne DEF Tickers
<1>5. FromTheChain
  BY <1>4 DEF StationInit, FromTheChain
<1> QED BY <1>1, <1>3, <1>5 DEF TickersInv

\* What happens at a charger leaves the processes of the others alone.
LEMMA AtOneCharger ==
    ASSUME TickersInv, NEW c \in Charger, NEW f \in [ToNextReading -> Nat],
           NEW i \in 0..Tick, NEW n \in Nat,
           \A d \in Charger \ {c} : status'[d] = status[d],
           tickers' = [tickers EXCEPT ![c] = f],
           idle' = [idle EXCEPT ![c] = i],
           chain' = [chain EXCEPT ![c] = n],
           status'[c] = "occupied" => i = 0 /\ SumFunctionOnSet(f, ToNextReading) >= 1,
           \A t \in ToNextReading : t > Tick - i => f[t] = 0,
           SumFunctionOnSet(f, ToNextReading) <= n
    PROVE  TickersInv'
<1>types. TickersTypeOK
  BY DEF TickersInv
<1>1. TickersTypeOK'
  BY <1>types DEF TickersTypeOK
<1>2. /\ tickers'[c] = f /\ idle'[c] = i /\ chain'[c] = n
      /\ \A d \in Charger \ {c} : tickers'[d] = tickers[d] /\ idle'[d] = idle[d] /\ chain'[d] = chain[d]
  BY <1>types DEF TickersTypeOK
<1>3. Asleep'
  BY <1>2 DEF TickersInv, Asleep
<1>4. ASSUME NEW d \in Charger
      PROVE  /\ Tickers(d)' <= chain'[d]
             /\ status'[d] = "occupied" => Tickers(d)' >= 1
  <2>1. CASE d = c
    BY <1>2, <2>1 DEF Tickers, ToNextReading
  <2>2. CASE d # c
    <3>1. Tickers(d)' = Tickers(d) /\ chain'[d] = chain[d] /\ status'[d] = status[d]
      BY <1>2, <2>2 DEF Tickers, ToNextReading
    <3> QED BY <3>1 DEF TickersInv, FromTheChain
  <2> QED BY <2>1, <2>2
<1>5. FromTheChain'
  BY <1>4 DEF FromTheChain
<1> QED BY <1>1, <1>3, <1>5 DEF TickersInv

LEMMA StartTickers == StationInv /\ TickersInv /\ Start => TickersInv'
<1> SUFFICES ASSUME StationInv, TickersInv, Start PROVE TickersInv'
  OBVIOUS
<1>types. TickersTypeOK
  BY DEF TickersInv
<1>0. PICK c : c = free[Len(free)]
  OBVIOUS
<1>1. c \in Charger
  <2>1. admitted \in Nat /\ admitted > 0 /\ admitted <= Len(free) /\ free \in Seq(Charger)
    BY DEF StationInv, StationTypeOK, Counted, Start
  <2>2. Len(free) \in Nat /\ Len(free) > 0
    BY <2>1
  <2>3. Len(free) \in DOMAIN free
    BY <2>1, <2>2
  <2> QED BY <1>0, <2>1, <2>3
<1>2. PICK f : f = [tickers[c] EXCEPT ![Tick] = @ + 1]
  OBVIOUS
<1>3. PICK n : n = IF idle[c] = Tick THEN 1 ELSE chain[c] + 1
  OBVIOUS
<1>4. /\ tickers' = [tickers EXCEPT ![c] = f]
      /\ idle' = [idle EXCEPT ![c] = 0]
      /\ chain' = [chain EXCEPT ![c] = n]
      /\ \A d \in Charger \ {c} : status'[d] = status[d]
  <2>1. PICK stay \in Stays :
           /\ status' = [status EXCEPT ![c] = "occupied"]
           /\ tickers' = [tickers EXCEPT ![c][Tick] = @ + 1]
           /\ chain' = [chain EXCEPT ![c] = IF idle[c] = Tick THEN 1 ELSE @ + 1]
           /\ idle' = [idle EXCEPT ![c] = 0]
    BY <1>0 DEF Start
  <2>2. status \in [Charger -> {"available", "occupied", "offline"}]
    BY DEF StationInv, StationTypeOK
  <2>3. chain \in [Charger -> Nat]
    BY <1>types DEF TickersTypeOK
  <2>4. chain' = [chain EXCEPT ![c] = n]
    BY <1>1, <1>3, <2>1, <2>3
  <2> QED BY <1>2, <2>1, <2>2, <2>4
<1>5. tickers[c] \in [ToNextReading -> Nat] /\ chain[c] \in Nat /\ Tickers(c) \in Nat
  BY <1>1, <1>types, Readings DEF TickersTypeOK
<1>6. /\ f \in [ToNextReading -> Nat] /\ f[Tick] = tickers[c][Tick] + 1
      /\ \A t \in ToNextReading \ {Tick} : f[t] = tickers[c][t]
  BY <1>2, <1>5, Readings
<1>7. SumFunctionOnSet(f, ToNextReading) = Tickers(c) + 1
  <2>1. Tick \in ToNextReading
    BY Readings
  <2>2. SumFunctionOnSet(f, ToNextReading)
          = SumFunctionOnSet(tickers[c], ToNextReading) - tickers[c][Tick] + f[Tick]
    BY <1>5, <1>6, <2>1, OneCountChanges
  <2>3. SumFunctionOnSet(tickers[c], ToNextReading) \in Nat /\ tickers[c][Tick] \in Nat
    BY <1>5, <2>1 DEF Tickers
  <2> QED BY <1>6, <2>2, <2>3 DEF Tickers
<1>8. Tickers(c) + 1 <= n /\ n \in Nat
  <2>1. CASE idle[c] = Tick
    <3>1. Tickers(c) = tickers[c][0] /\ tickers[c][0] = 0
      BY <1>1, <2>1, TickersImply DEF TickersAreTheChain, Start
    <3> QED BY <1>3, <2>1, <3>1
  <2>2. CASE idle[c] # Tick
    BY <1>1, <1>3, <1>5, <2>2 DEF TickersInv, FromTheChain
  <2> QED BY <2>1, <2>2
<1>9. /\ 0 \in 0..Tick
      /\ \A t \in ToNextReading : ~(t > Tick - 0)
  BY Readings DEF ToNextReading
<1>10. /\ SumFunctionOnSet(f, ToNextReading) >= 1 /\ SumFunctionOnSet(f, ToNextReading) <= n
       /\ \A t \in ToNextReading : t > Tick - 0 => f[t] = 0
  BY <1>5, <1>7, <1>8, <1>9
<1>11. f \in [ToNextReading -> Nat] /\ 0 \in 0..Tick /\ n \in Nat
  BY <1>6, <1>8, <1>9
<1> QED BY <1>1, <1>4, <1>10, <1>11, AtOneCharger

LEMMA ReportTickers ==
    ASSUME TickersInv, NEW c \in Charger, Report(c)
    PROVE  TickersInv'
<1>types. TickersTypeOK
  BY DEF TickersInv
<1>1. PICK f : f = [tickers[c] EXCEPT ![0] = @ - 1, ![Tick] = IF status[c] = "occupied" THEN @ + 1 ELSE @]
  OBVIOUS
<1>2. tickers' = [tickers EXCEPT ![c] = f] /\ UNCHANGED <<status, idle, chain>> /\ tickers[c][0] > 0
  BY <1>1 DEF Report
<1>3. /\ tickers[c] \in [ToNextReading -> Nat] /\ chain[c] \in Nat /\ Tickers(c) \in Nat
      /\ idle[c] \in 0..Tick
  BY <1>types, Readings DEF TickersTypeOK
<1>4. PICK g : g = [tickers[c] EXCEPT ![0] = @ - 1]
  OBVIOUS
<1>5. /\ g \in [ToNextReading -> Nat] /\ g[0] = tickers[c][0] - 1
      /\ \A t \in ToNextReading \ {0} : g[t] = tickers[c][t]
  <2>1. tickers[c][0] \in Nat /\ tickers[c][0] > 0
    BY <1>2, <1>3, Readings
  <2>2. tickers[c][0] - 1 \in Nat
    BY <2>1
  <2> QED BY <1>3, <1>4, <2>2, Readings
<1>6. SumFunctionOnSet(g, ToNextReading) = Tickers(c) - 1
  <2>1. 0 \in ToNextReading
    BY Readings
  <2>2. SumFunctionOnSet(g, ToNextReading)
          = SumFunctionOnSet(tickers[c], ToNextReading) - tickers[c][0] + g[0]
    BY <1>3, <1>5, <2>1, OneCountChanges
  <2>3. SumFunctionOnSet(tickers[c], ToNextReading) \in Nat /\ tickers[c][0] \in Nat
    BY <1>3, <2>1 DEF Tickers
  <2> QED BY <1>5, <2>2, <2>3 DEF Tickers
<1>7. idle' = [idle EXCEPT ![c] = idle[c]] /\ chain' = [chain EXCEPT ![c] = chain[c]]
  BY <1>2, <1>types DEF TickersTypeOK
<1>a. PICK i, n : i = idle[c] /\ n = chain[c]
  OBVIOUS
<1>8. Tickers(c) <= chain[c] /\ (status[c] = "occupied" => Tickers(c) >= 1 /\ idle[c] = 0)
  BY DEF TickersInv, FromTheChain, Asleep
<1>9. CASE status[c] = "occupied"
  <2>1. /\ f \in [ToNextReading -> Nat] /\ f[Tick] = g[Tick] + 1
        /\ \A t \in ToNextReading \ {Tick} : f[t] = g[t]
    <3>1. f = [g EXCEPT ![Tick] = @ + 1]
      BY <1>1, <1>4, <1>9, Readings
    <3> QED BY <1>5, <3>1, Readings
  <2>2. SumFunctionOnSet(f, ToNextReading) = Tickers(c)
    <3>1. Tick \in ToNextReading
      BY Readings
    <3>2. SumFunctionOnSet(f, ToNextReading) = SumFunctionOnSet(g, ToNextReading) - g[Tick] + f[Tick]
      BY <1>5, <2>1, <3>1, OneCountChanges
    <3>3. g[Tick] \in Nat
      BY <1>5, <3>1
    <3> QED BY <1>3, <1>6, <2>1, <3>2, <3>3
  <2>3. \A t \in ToNextReading : ~(t > Tick - idle[c])
    BY <1>8, <1>9, Readings DEF ToNextReading
  <2>4. /\ \A d \in Charger \ {c} : status'[d] = status[d]
        /\ i = 0 /\ SumFunctionOnSet(f, ToNextReading) >= 1
        /\ SumFunctionOnSet(f, ToNextReading) <= n
        /\ \A t \in ToNextReading : t > Tick - i => f[t] = 0
    BY <1>2, <1>8, <1>9, <1>a, <2>2, <2>3
  <2>5. idle' = [idle EXCEPT ![c] = i] /\ chain' = [chain EXCEPT ![c] = n] /\ i \in 0..Tick /\ n \in Nat
    BY <1>3, <1>7, <1>a
  <2>6. /\ status'[c] = "occupied" => i = 0 /\ SumFunctionOnSet(f, ToNextReading) >= 1
        /\ tickers' = [tickers EXCEPT ![c] = f] /\ f \in [ToNextReading -> Nat]
    BY <1>2, <2>1, <2>4
  <2> QED BY <2>4, <2>5, <2>6, AtOneCharger
<1>10. CASE status[c] # "occupied"
  <2>1. f = g
    BY <1>1, <1>4, <1>10
  <2>2. ASSUME NEW t \in ToNextReading, t > Tick - idle[c] PROVE g[t] = 0
    <3>1. tickers[c][t] = 0
      BY <2>2 DEF TickersInv, Asleep
    <3>2. t # 0
      BY <1>2, <3>1
    <3> QED BY <1>5, <3>1, <3>2
  <2>3. Tickers(c) - 1 <= chain[c]
    BY <1>3, <1>8
  <2>4. /\ \A d \in Charger \ {c} : status'[d] = status[d]
        /\ status'[c] # "occupied"
        /\ SumFunctionOnSet(g, ToNextReading) <= n
        /\ \A t \in ToNextReading : t > Tick - i => g[t] = 0
    BY <1>2, <1>6, <1>10, <1>a, <2>2, <2>3
  <2>5. idle' = [idle EXCEPT ![c] = i] /\ chain' = [chain EXCEPT ![c] = n] /\ i \in 0..Tick /\ n \in Nat
    BY <1>3, <1>7, <1>a
  <2>6. /\ status'[c] = "occupied" => i = 0 /\ SumFunctionOnSet(g, ToNextReading) >= 1
        /\ tickers' = [tickers EXCEPT ![c] = g] /\ g \in [ToNextReading -> Nat]
    BY <1>2, <1>5, <2>1, <2>4
  <2> QED BY <2>4, <2>5, <2>6, AtOneCharger
<1> QED BY <1>9, <1>10

LEMMA ClockTickers == TickersInv /\ ClockMoves => TickersInv'
<1> SUFFICES ASSUME TickersInv, ClockMoves PROVE TickersInv'
  OBVIOUS
<1>types. TickersTypeOK
  BY DEF TickersInv
<1>1. /\ tickers' = [c \in Charger |->
                       [t \in ToNextReading |-> IF t = Tick THEN 0 ELSE tickers[c][t + 1]]]
      /\ idle' = [c \in Charger |->
                    IF status[c] = "occupied" \/ idle[c] = Tick THEN idle[c] ELSE idle[c] + 1]
      /\ status' = status /\ chain' = chain
      /\ \A c \in Charger : tickers[c][0] = 0
  BY DEF ClockMoves
<1>2. \A t \in ToNextReading \ {Tick} : t + 1 \in ToNextReading
  BY Readings DEF ToNextReading
<1>3. TickersTypeOK'
  <2>1. \A c \in Charger : tickers[c] \in [ToNextReading -> Nat]
    BY <1>types DEF TickersTypeOK
  <2>2. ASSUME NEW c \in Charger
        PROVE  [t \in ToNextReading |-> IF t = Tick THEN 0 ELSE tickers[c][t + 1]] \in [ToNextReading -> Nat]
    BY <1>2, <2>1
  <2>3. tickers' \in [Charger -> [ToNextReading -> Nat]]
    BY <1>1, <2>2
  <2>4. ASSUME NEW c \in Charger
        PROVE  (IF status[c] = "occupied" \/ idle[c] = Tick THEN idle[c] ELSE idle[c] + 1) \in 0..Tick
    <3>1. idle[c] \in 0..Tick
      BY <1>types DEF TickersTypeOK
    <3> QED BY <3>1, Readings
  <2>5. idle' \in [Charger -> 0..Tick]
    BY <1>1, <2>4
  <2>6. chain' \in [Charger -> Nat]
    BY <1>1, <1>types DEF TickersTypeOK
  <2> QED BY <2>3, <2>5, <2>6 DEF TickersTypeOK, ToNextReading
<1>4. ASSUME NEW c \in Charger, NEW t \in ToNextReading, t > Tick - idle'[c]
      PROVE  tickers'[c][t] = 0
  <2>1. CASE t = Tick
    BY <1>1, <2>1
  <2>2. CASE t # Tick
    <3>1. tickers'[c][t] = tickers[c][t + 1] /\ t + 1 \in ToNextReading
      BY <1>1, <1>2, <2>2
    <3>2. idle'[c] <= idle[c] + 1 /\ idle[c] \in Nat /\ t \in Nat
      BY <1>1, <1>types, Readings DEF TickersTypeOK
    <3>3. idle'[c] \in Nat
      BY <1>3 DEF TickersTypeOK
    <3>4. t + 1 > Tick - idle[c]
      BY <1>4, <3>2, <3>3, Readings
    <3> QED BY <3>1, <3>4 DEF TickersInv, Asleep
  <2> QED BY <2>1, <2>2
<1>5. Asleep'
  <2>1. \A c \in Charger : status'[c] = "occupied" => idle'[c] = 0
    BY <1>1 DEF TickersInv, Asleep
  <2> QED BY <1>4, <2>1 DEF Asleep, ToNextReading
<1>6. ASSUME NEW c \in Charger PROVE Tickers(c)' = Tickers(c)
  <2>1. PICK f, g : f = tickers[c] /\ g = tickers'[c]
    OBVIOUS
  <2>2. /\ \A t \in ToNextReading : f[t] \in Int /\ g[t] \in Int
        /\ f[0] = 0 /\ g[Tick] = 0
        /\ \A t \in ToNextReading \ {Tick} : g[t] = f[t + 1]
    <3>1. f \in [ToNextReading -> Nat] /\ g \in [ToNextReading -> Nat]
      BY <1>types, <1>3, <2>1 DEF TickersTypeOK, ToNextReading
    <3>2. f[0] = 0
      BY <1>1, <2>1
    <3>3. g[Tick] = 0 /\ \A t \in ToNextReading \ {Tick} : g[t] = f[t + 1]
      BY <1>1, <2>1, Readings
    <3> QED BY <3>1, <3>2, <3>3
  <2>3. PICK A, B : A = ToNextReading \ {Tick} /\ B = ToNextReading \ {0}
    OBVIOUS
  <2>4. IsFiniteSet(A) /\ IsFiniteSet(B)
    BY <2>3, Readings, FS_Subset
  <2>5. PICK e : e = [t \in A |-> t + 1]
    OBVIOUS
  <2>6. IsInjective(e) /\ DOMAIN e = A
    BY <2>3, <2>5, Readings DEF IsInjective
  <2>7. {e[t] : t \in A} = B
    <3>1. \A t \in A : t + 1 \in B
      BY <2>3, Readings DEF ToNextReading
    <3>2. \A t \in B : t - 1 \in A /\ (t - 1) + 1 = t
      BY <2>3, Readings DEF ToNextReading
    <3> QED BY <2>5, <3>1, <3>2
  <2>8. \A t \in A : g[t] \in Int /\ g[t] = f[e[t]]
    BY <2>2, <2>3, <2>5
  <2>9. SumFunctionOnSet(g, A) = SumFunctionOnSet(f, B)
    <3>1. SumFunctionOnSet(g, A) = SumFunctionOnSet(f, {e[t] : t \in A})
      BY <2>4, <2>6, <2>8, SumRenamed
    <3> QED BY <2>7, <3>1
  <2>a. IsFiniteSet(ToNextReading) /\ 0 \in ToNextReading /\ Tick \in ToNextReading
    BY Readings
  <2>10. SumFunctionOnSet(f, ToNextReading) = f[0] + SumFunctionOnSet(f, B)
    BY <2>2, <2>3, <2>a, SumWithout
  <2>11. SumFunctionOnSet(g, ToNextReading) = g[Tick] + SumFunctionOnSet(g, A)
    BY <2>2, <2>3, <2>a, SumWithout
  <2>12. SumFunctionOnSet(g, ToNextReading) = SumFunctionOnSet(f, ToNextReading)
    BY <2>2, <2>9, <2>10, <2>11
  <2> QED BY <2>1, <2>12 DEF Tickers, ToNextReading
<1>7. FromTheChain'
  BY <1>1, <1>6 DEF TickersInv, FromTheChain
<1> QED BY <1>3, <1>5, <1>7 DEF TickersInv

LEMMA TickersStep == StationInv /\ TickersInv /\ [StationNext]_stationVars => TickersInv'
<1> SUFFICES ASSUME StationInv, TickersInv, [StationNext]_stationVars PROVE TickersInv'
  OBVIOUS
<1>1. ASSUME UNCHANGED <<tickers, idle, chain>>,
             \A c \in Charger : status'[c] = "occupied" => status[c] = "occupied"
      PROVE  TickersInv'
  <2>1. \A c \in Charger : Tickers(c)' = Tickers(c)
    BY <1>1 DEF Tickers, ToNextReading
  <2> QED BY <1>1, <2>1 DEF TickersInv, TickersTypeOK, Asleep, FromTheChain, ToNextReading
<1>2. CASE Arrive
  BY <1>1, <1>2 DEF Arrive
<1>3. CASE Start
  BY <1>3, StartTickers
<1>4. CASE Release
  BY <1>1, <1>4 DEF Release
<1>5. CASE ClockMoves
  BY <1>5, ClockTickers
<1>6. ASSUME NEW c \in Charger, End(c) \/ Recover(c) PROVE TickersInv'
  <2>1. status \in [Charger -> {"available", "occupied", "offline"}]
    BY DEF StationInv, StationTypeOK
  <2> QED BY <1>1, <1>6, <2>1 DEF End, Recover, Vacate, Break
<1>7. ASSUME NEW c \in Charger, Report(c) PROVE TickersInv'
  BY <1>7, ReportTickers
<1>8. CASE UNCHANGED stationVars
  BY <1>1, <1>8 DEF stationVars
<1> QED BY <1>2, <1>3, <1>4, <1>5, <1>6, <1>7, <1>8 DEF StationNext

\* A charger has at most one process of readings for each session since it was last idle
\* for a tick, at least one in a session, and none that will wake after a tick of
\* idleness, for any tick, stays, outages and chargers (station_sim.py:160-163).
THEOREM TickersEnd == StationSpec => []TickersAreTheChain
<1>1. StationInit => StationInv /\ TickersInv
  BY StationStarts, TickersStart
<1>2. StationInv /\ TickersInv /\ [StationNext]_stationVars => (StationInv /\ TickersInv)'
  BY StationSteps, TickersStep
<1>3. TickersInv => TickersAreTheChain
  BY TickersImply
<1> QED BY <1>1, <1>2, <1>3, PTL DEF StationSpec

-----------------------------------------------------------------------------
(***************************************************************************)
(* The batteries of a swap kiosk                                           *)
(***************************************************************************)

KioskTypeOK ==
    /\ level \in Nat /\ line \in Nat /\ served \in Nat /\ charging \in Nat
    /\ handoffs \in Nat /\ cabinet \in Nat /\ returned \in Nat
    /\ shown \in [ready : Nat, charging : Nat, owed : Nat]

\* The account is inductive once no count is negative.
KioskInv == KioskTypeOK /\ InventoryAddsUp

\* What the container serves leaves the account as it is: it moves batteries from the
\* level to the vehicles served, until there are no batteries or no vehicles left.
LEMMA ServeKeeps ==
    ASSUME NEW n \in Nat, NEW stock \in Nat, served \in Nat, Serve(n, stock)
    PROVE  /\ line' \in Nat /\ level' \in Nat /\ served' \in Nat
           /\ level' + served' = stock + served
           /\ line' = 0 \/ level' = 0
BY DEF Serve

\* All batteries are ready, and so it is published.
THEOREM KioskStarts == KioskInit => KioskInv
BY KioskAssumption DEF KioskInit, KioskInv, KioskTypeOK, InventoryAddsUp, Shown

\* Every step moves batteries from one place to another.
THEOREM KioskSteps == KioskInv /\ [KioskNext]_kioskVars => KioskInv'
<1> SUFFICES ASSUME KioskInv, [KioskNext]_kioskVars PROVE KioskInv'
  OBVIOUS
<1> USE KioskAssumption DEF KioskInv, KioskTypeOK, InventoryAddsUp
<1>1. CASE Queue
  <2>1. line' \in Nat /\ level' \in Nat /\ served' \in Nat
        /\ level' + served' = level + served /\ (line' = 0 \/ level' = 0)
    BY <1>1, ServeKeeps, line + 1 \in Nat DEF Queue
  <2>2. /\ charging' = charging /\ handoffs' = handoffs /\ cabinet' = cabinet
        /\ returned' = returned /\ shown' = shown
    BY <1>1 DEF Queue
  <2>3. KioskTypeOK'
    BY <2>1, <2>2
  <2>4. level' + served' + charging' = Batteries
    BY <2>1, <2>2
  <2>5. level' >= 0
    BY <2>1
  <2>6. charging' = handoffs' + cabinet'
    BY <2>2
  <2>7. line' > 0 /\ level' > 0 => returned' > 0
    BY <2>1
  <2>8. shown'.ready + shown'.charging + shown'.owed = Batteries
    BY <2>1, <2>2
  <2> HIDE DEF KioskTypeOK
  <2> QED BY <2>3, <2>4, <2>5, <2>6, <2>7, <2>8
<1>2. CASE Take
  BY <1>2 DEF Take, Shown
<1>3. CASE Leave
  BY <1>3 DEF Leave
<1>4. CASE Recharged
  BY <1>4 DEF Recharged
<1>5. CASE Restocked
  <2>1. line' \in Nat /\ level' \in Nat /\ served' \in Nat
        /\ level' + served' = level + served /\ (line' = 0 \/ level' = 0)
    BY <1>5, ServeKeeps DEF Restocked
  <2>2. /\ charging' = charging /\ handoffs' = handoffs /\ cabinet' = cabinet
        /\ returned' \in Nat
        /\ shown' = [ready |-> level', charging |-> charging, owed |-> served']
    BY <1>5 DEF Restocked, Shown
  <2>3. KioskTypeOK'
    BY <2>1, <2>2
  <2>4. level' + served' + charging' = Batteries
    BY <2>1, <2>2
  <2>5. level' >= 0
    BY <2>1
  <2>6. charging' = handoffs' + cabinet'
    BY <2>2
  <2>7. line' > 0 /\ level' > 0 => returned' > 0
    BY <2>1
  <2>8. shown'.ready + shown'.charging + shown'.owed = Batteries
    <3>1. shown'.ready = level' /\ shown'.charging = charging /\ shown'.owed = served'
      BY <2>2
    <3>2. level' + charging + served' = level' + served' + charging
      BY <2>1
    <3>3. level' + served' + charging = Batteries
      BY <2>2, <2>4
    <3> QED BY <3>1, <3>2, <3>3
  <2> HIDE DEF KioskTypeOK
  <2> QED BY <2>3, <2>4, <2>5, <2>6, <2>7, <2>8
<1>6. CASE UNCHANGED kioskVars
  BY <1>6 DEF kioskVars
<1> QED BY <1>1, <1>2, <1>3, <1>4, <1>5, <1>6 DEF KioskNext

\* Batteries are conserved, whatever the order of handoffs, recharges and events: a
\* recharged battery finds room in the container (swap_sim.py:84), and a published status
\* counts no battery twice.
THEOREM BatteriesAreConserved == KioskSpec => []InventoryAddsUp
<1>1. KioskInv => InventoryAddsUp
  BY DEF KioskInv
<1> QED BY KioskStarts, KioskSteps, <1>1, PTL DEF KioskSpec

=============================================================================
