---------------------------- MODULE AdviceProofs ----------------------------
(***************************************************************************)
(* Machine-checked proofs about the state that overlapping requests share: *)
(* the weather cache, the tracker of priority jumps and the demand model,  *)
(* for any number of requests and any timing.                              *)
(***************************************************************************)
EXTENDS WeatherCache, PriorityJumps, DemandModel, FiniteSetTheorems, TLAPS

-----------------------------------------------------------------------------
(***************************************************************************)
(* The weather cache                                                       *)
(***************************************************************************)

TaskType ==
    [phase : {"idle", "fetching", "feeders", "answered"}, kind : {"current", "advisory"},
     asked : Nat, sampled : Int, stale : BOOLEAN]

WeatherTypeOK ==
    /\ clock \in Nat
    /\ cache \in [sampled : Int, fetched : Int]
    /\ task \in [Task -> TaskType]

\* A reading is stamped with a time that has passed, no later than its weather was true.
Stamped == cache # NoReading => /\ 0 <= cache.fetched /\ cache.fetched <= cache.sampled
                                /\ cache.fetched <= clock

\* No question is from the future.
Timely == \A t \in Task : task[t].asked <= clock

WeatherInv == WeatherTypeOK /\ Stamped /\ Timely /\ FreshMeansFresh

\* Nothing is cached and nobody waits.
THEOREM WeatherStarts == WeatherInit => WeatherInv
BY WeatherAssumption DEF WeatherInit, WeatherInv, WeatherTypeOK, TaskType, Stamped, Timely,
   FreshMeansFresh, NoReading, Never, Idle

\* A step that changes one task keeps the invariant if the cache and the task keep theirs.
LEMMA OneTask ==
    ASSUME WeatherInv, NEW t \in Task, NEW new \in TaskType,
           task' = [task EXCEPT ![t] = new], clock' = clock,
           WeatherTypeOK' => Stamped', cache' \in [sampled : Int, fetched : Int],
           new.asked <= clock,
           new.phase \in {"feeders", "answered"} /\ ~new.stale =>
               new.sampled # Never /\ new.asked - new.sampled < Ttl
    PROVE  WeatherInv'
<1>1. WeatherTypeOK'
  BY DEF WeatherInv, WeatherTypeOK
<1>2. \A u \in Task : task'[u] = IF u = t THEN new ELSE task[u]
  BY DEF WeatherInv, WeatherTypeOK
<1>3. Timely'
  BY <1>2 DEF WeatherInv, Timely
<1>4. FreshMeansFresh'
  BY <1>2 DEF WeatherInv, FreshMeansFresh
<1> QED BY <1>1, <1>3, <1>4 DEF WeatherInv

\* Every step keeps the stamps, the questions and the answers in hand right.
THEOREM WeatherSteps == WeatherInv /\ [WeatherNext]_weatherVars => WeatherInv'
<1> SUFFICES ASSUME WeatherInv, [WeatherNext]_weatherVars PROVE WeatherInv'
  OBVIOUS
<1>types. WeatherTypeOK /\ Stamped /\ Timely /\ FreshMeansFresh
  BY DEF WeatherInv
<1>1. ASSUME NEW t \in Task, NEW kind \in {"current", "advisory"}, Ask(t, kind) PROVE WeatherInv'
  <2> DEFINE hit == Given(kind, clock, cache.sampled, FALSE)
             miss == [Idle EXCEPT !.phase = "fetching", !.kind = kind, !.asked = clock]
  <2>1. Stamped' /\ cache' \in [sampled : Int, fetched : Int] /\ clock' = clock
    BY <1>1, <1>types DEF Ask, Stamped, WeatherTypeOK
  <2>2. CASE IsCached
    <3>1. clock - cache.fetched < Ttl /\ 0 <= cache.fetched /\ cache.fetched <= cache.sampled
          /\ clock \in Nat /\ cache.sampled \in Int /\ cache.fetched \in Int
      BY <2>2, <1>types DEF IsCached, Stamped, WeatherTypeOK
    <3>2. /\ hit \in TaskType /\ hit.phase \in {"feeders", "answered"} /\ hit.asked = clock
          /\ hit.sampled = cache.sampled
      BY <3>1 DEF Given, TaskType
    <3>3. task' = [task EXCEPT ![t] = hit]
      BY <1>1, <2>2 DEF Ask
    <3> HIDE DEF hit
    <3>4. hit.sampled # Never /\ hit.asked - hit.sampled < Ttl
      BY <3>1, <3>2, WeatherAssumption DEF Never
    <3>5. hit.asked <= clock
      BY <3>1, <3>2
    <3> QED BY <2>1, <3>2, <3>3, <3>4, <3>5, OneTask
  <2>3. CASE ~IsCached
    <3>1. /\ miss \in TaskType /\ miss.phase = "fetching" /\ miss.asked = clock
      <4>1. Idle \in TaskType
        BY DEF Idle, Never, TaskType
      <4>2. clock \in Nat
        BY <1>types DEF WeatherTypeOK
      <4> QED BY <4>1, <4>2 DEF TaskType
    <3>2. task' = [task EXCEPT ![t] = miss]
      BY <1>1, <2>3 DEF Ask
    <3>3. miss.asked <= clock
      BY <3>1, <1>types DEF WeatherTypeOK
    <3> HIDE DEF miss
    <3> QED BY <2>1, <3>1, <3>2, <3>3, OneTask
  <2> QED BY <2>2, <2>3
<1>2. ASSUME NEW t \in Task, Fetched(t) PROVE WeatherInv'
  <2>1. PICK sampled \in task[t].asked..clock :
          /\ cache' = [sampled |-> sampled, fetched |-> task[t].asked]
          /\ task' = [task EXCEPT ![t] = Given(task[t].kind, task[t].asked, sampled, FALSE)]
    BY <1>2, <1>types DEF Fetched, WeatherTypeOK
  <2> DEFINE new == Given(task[t].kind, task[t].asked, sampled, FALSE)
  <2>2. /\ task[t].asked \in Nat /\ clock \in Nat /\ sampled \in Int
        /\ task[t].asked <= sampled /\ sampled <= clock
        /\ task[t].kind \in {"current", "advisory"}
    BY <1>types DEF WeatherTypeOK, TaskType
  <2>3. /\ new \in TaskType /\ new.phase \in {"feeders", "answered"} /\ new.asked = task[t].asked
        /\ new.sampled = sampled
    BY <2>2 DEF Given, TaskType
  <2>4. clock' = clock /\ Stamped' /\ cache' \in [sampled : Int, fetched : Int]
    BY <1>2, <2>1, <2>2 DEF Fetched, Stamped
  <2>5. task' = [task EXCEPT ![t] = new]
    BY <2>1
  <2> HIDE DEF new
  <2>6. new.sampled # Never /\ new.asked - new.sampled < Ttl
    BY <2>2, <2>3, WeatherAssumption DEF Never
  <2>7. new.asked <= clock
    BY <2>2, <2>3
  <2> QED BY <2>3, <2>4, <2>5, <2>6, <2>7, OneTask
<1>3. ASSUME NEW t \in Task, FetchFails(t) PROVE WeatherInv'
  <2> DEFINE new == Given(task[t].kind, task[t].asked, cache.sampled, TRUE)
  <2>1. task[t].asked \in Nat /\ cache.sampled \in Int /\ task[t].kind \in {"current", "advisory"}
        /\ clock \in Nat /\ task[t].asked <= clock
    BY <1>types DEF WeatherTypeOK, TaskType, Timely
  <2>2. /\ new \in TaskType /\ new.asked <= clock /\ new.stale
    BY <2>1 DEF Given, TaskType
  <2>3. task' = [task EXCEPT ![t] = new] /\ clock' = clock /\ cache' = cache
    BY <1>3, <1>types DEF FetchFails, WeatherTypeOK
  <2>4. Stamped' /\ cache' \in [sampled : Int, fetched : Int]
    BY <2>3, <1>types DEF Stamped, WeatherTypeOK
  <2> HIDE DEF new
  <2> QED BY <2>2, <2>3, <2>4, OneTask
<1>4. ASSUME NEW t \in Task, FeedersAnswer(t) PROVE WeatherInv'
  <2> DEFINE new == [task[t] EXCEPT !.phase = "answered"]
  <2>1. task[t] \in TaskType /\ task[t].phase = "feeders"
    BY <1>4, <1>types DEF FeedersAnswer, WeatherTypeOK
  <2>2. /\ new \in TaskType /\ new.phase = "answered" /\ new.asked = task[t].asked
        /\ new.sampled = task[t].sampled /\ new.stale = task[t].stale
    BY <2>1 DEF TaskType
  <2>3. task' = [task EXCEPT ![t] = new] /\ clock' = clock /\ cache' = cache
    BY <1>4, <1>types DEF FeedersAnswer, WeatherTypeOK
  <2>4. Stamped' /\ cache' \in [sampled : Int, fetched : Int]
    BY <2>3, <1>types DEF Stamped, WeatherTypeOK
  <2>5. ~new.stale => new.sampled # Never /\ new.asked - new.sampled < Ttl
    BY <2>1, <2>2, <1>types DEF FreshMeansFresh
  <2>6. new.asked <= clock
    BY <2>2, <1>types DEF Timely
  <2> HIDE DEF new
  <2> QED BY <2>2, <2>3, <2>4, <2>5, <2>6, OneTask
<1>5. ASSUME NEW t \in Task, Reply(t) PROVE WeatherInv'
  <2>1. Idle \in TaskType /\ Idle.phase = "idle" /\ Idle.asked = 0
    BY DEF Idle, TaskType, Never
  <2>2. task' = [task EXCEPT ![t] = Idle] /\ clock' = clock /\ cache' = cache
    BY <1>5 DEF Reply
  <2>3. Stamped' /\ cache' \in [sampled : Int, fetched : Int]
    BY <2>2, <1>types DEF Stamped, WeatherTypeOK
  <2>4. Idle.asked <= clock
    BY <2>1, <1>types DEF WeatherTypeOK
  <2> QED BY <2>1, <2>2, <2>3, <2>4, OneTask
<1>6. CASE WeatherTick
  <2>1. clock' = clock + 1 /\ cache' = cache /\ task' = task
    BY <1>6 DEF WeatherTick
  <2>2. WeatherTypeOK'
    BY <2>1, <1>types DEF WeatherTypeOK
  <2>3. Stamped'
    BY <2>1, <1>types DEF Stamped, WeatherTypeOK
  <2>4. Timely'
    BY <2>1, <1>types DEF Timely, WeatherTypeOK, TaskType
  <2>5. FreshMeansFresh'
    BY <2>1, <1>types DEF FreshMeansFresh
  <2> QED BY <2>2, <2>3, <2>4, <2>5 DEF WeatherInv
<1>7. CASE UNCHANGED weatherVars
  BY <1>7, <1>types DEF weatherVars, WeatherInv, WeatherTypeOK, Stamped, Timely, FreshMeansFresh
<1> QED BY <1>1, <1>2, <1>3, <1>4, <1>5, <1>6, <1>7 DEF WeatherNext

\* A reading that is not marked stale is younger than the TTL, however many requests
\* fetch at once and in whatever order their answers come (weather_service.py:57, 95-97).
THEOREM FreshReadings == WeatherSpec => []FreshMeansFresh
<1>1. WeatherInv => FreshMeansFresh
  BY DEF WeatherInv
<1> QED BY WeatherStarts, WeatherSteps, <1>1, PTL DEF WeatherSpec

-----------------------------------------------------------------------------
(***************************************************************************)
(* The tracker of priority jumps                                           *)
(***************************************************************************)

Request ==
    [phase : {"idle", "asking", "jumping", "recording", "answered"}, at : Nat,
     pruned : SUBSET Nat, jump : Nat]

\* A list of jumps holds jumps that were granted.
JumpTypeOK ==
    /\ now \in Nat
    /\ granted \in Seq(Nat)
    /\ tracker \subseteq DOMAIN granted
    /\ insert \in [Thread -> Request]
    /\ \A t \in Thread :
         /\ insert[t].pruned \subseteq DOMAIN granted
         /\ insert[t].phase \in {"jumping", "recording"} => insert[t].jump \in DOMAIN granted
    /\ raced \in BOOLEAN

\* Requests that do not overlap are one after the other.
InTurn ==
    /\ \A t, u \in InHand : t = u
    /\ \A i \in DOMAIN granted : granted[i] <= now
    /\ \A t \in InHand : insert[t].at <= now /\ \A i \in DOMAIN granted : granted[i] <= insert[t].at

\* The jumps a request goes on with: the list it has pruned and the jump it was granted.
Held(t) ==
    (IF insert[t].phase \in {"asking", "recording"} THEN insert[t].pruned ELSE tracker)
        \cup (IF insert[t].phase \in {"jumping", "recording"} THEN {insert[t].jump} ELSE {})

\* The tracker forgets no jump that is in the window, between requests or in one.
Remembered ==
    /\ InHand = {} => \A i \in DOMAIN granted : i \in tracker \/ granted[i] < now - Window
    /\ \A t \in InHand : \A i \in DOMAIN granted :
         i \in Held(t) \/ granted[i] < insert[t].at - Window

InWindow(end) == {i \in DOMAIN granted : granted[i] \in (end - Window)..end}

Capped == \A end \in Nat : Cardinality(InWindow(end)) <= Cap

JumpInv == JumpTypeOK /\ (~raced => InTurn /\ Remembered /\ Capped)

LEMMA JumpImplies == JumpInv => JumpsAreCapped
<1> SUFFICES ASSUME JumpInv, ~raced, NEW end \in 0..MaxNow
             PROVE  Cardinality({i \in DOMAIN granted : granted[i] \in (end - Window)..end}) <= Cap
  BY DEF JumpsAreCapped
<1>1. end \in Nat /\ Capped
  BY JumpAssumption DEF JumpInv
<1> QED BY <1>1 DEF Capped, InWindow

\* The jumps of a window are finitely many.
LEMMA WindowIsFinite ==
    ASSUME JumpTypeOK
    PROVE  /\ Len(granted) \in Nat /\ DOMAIN granted = 1..Len(granted)
           /\ \A i \in DOMAIN granted : granted[i] \in Nat
           /\ IsFiniteSet(DOMAIN granted)
           /\ \A end : IsFiniteSet(InWindow(end)) /\ Cardinality(InWindow(end)) \in Nat
<1>1. /\ Len(granted) \in Nat /\ DOMAIN granted = 1..Len(granted)
      /\ \A i \in DOMAIN granted : granted[i] \in Nat
  BY DEF JumpTypeOK
<1>2. IsFiniteSet(DOMAIN granted)
  BY <1>1, FS_Interval
<1>3. ASSUME NEW end PROVE IsFiniteSet(InWindow(end)) /\ Cardinality(InWindow(end)) \in Nat
  <2>1. InWindow(end) \in SUBSET DOMAIN granted
    BY DEF InWindow
  <2> QED BY <1>2, <2>1, FS_Subset, FS_CardinalityType
<1> QED BY <1>1, <1>2, <1>3

LEMMA JumpStarts == JumpInit => JumpInv
<1> SUFFICES ASSUME JumpInit PROVE JumpInv
  OBVIOUS
<1>1. granted = << >> /\ Len(granted) = 0
  BY DEF JumpInit
<1>2. DOMAIN granted = {} /\ granted \in Seq(Nat)
  BY <1>1
<1>3. NoInsert \in Request
  BY DEF NoInsert, Request
<1>4. JumpTypeOK
  BY <1>2, <1>3 DEF JumpInit, JumpTypeOK, NoInsert
<1>5. InHand = {}
  BY DEF JumpInit, InHand, NoInsert
<1>6. \A end : InWindow(end) = {}
  BY <1>2 DEF InWindow
<1>7. Capped
  BY <1>6, FS_EmptySet, JumpAssumption DEF Capped
<1> QED BY <1>2, <1>4, <1>5, <1>7 DEF JumpInv, InTurn, Remembered

\* A step that grants nothing keeps the cap.
LEMMA NothingGranted ==
    ASSUME Capped, granted' = granted
    PROVE  Capped'
BY DEF Capped, InWindow

\* A request that is in hand alone and grants nothing goes on with what it holds.
LEMMA GoesOn ==
    ASSUME JumpInv, NEW t \in Thread, NEW new \in Request, t \in InHand,
           insert' = [insert EXCEPT ![t] = new], UNCHANGED <<now, granted, raced>>,
           tracker' \subseteq DOMAIN granted, new.pruned \subseteq DOMAIN granted,
           new.phase # "idle", new.at = insert[t].at,
           new.phase \in {"jumping", "recording"} => new.jump \in DOMAIN granted,
           ~raced => \A i \in DOMAIN granted : i \in Held(t) => i \in Held(t)' \/ granted[i] < new.at - Window
    PROVE  JumpInv'
<1>types. JumpTypeOK
  BY DEF JumpInv
<1>1. \A u \in Thread : insert'[u] = IF u = t THEN new ELSE insert[u]
  BY <1>types DEF JumpTypeOK
<1>2. JumpTypeOK'
  BY <1>types, <1>1 DEF JumpTypeOK
<1>3. InHand' = InHand
  BY <1>1 DEF InHand
<1>4. ASSUME ~raced' PROVE (InTurn /\ Remembered /\ Capped)'
  <2>1. InTurn /\ Remembered /\ Capped
    BY <1>4 DEF JumpInv
  <2>2. InHand = {t} /\ t \in Thread /\ insert'[t] = new
    BY <1>1, <2>1 DEF InTurn
  <2>3. InTurn'
    BY <1>3, <2>1, <2>2 DEF InTurn
  <2>4. \A i \in DOMAIN granted : i \in Held(t)' \/ granted[i] < new.at - Window
    BY <1>4, <2>1 DEF Remembered
  <2>5. Remembered'
    BY <1>3, <2>2, <2>4 DEF Remembered
  <2> QED BY <2>1, <2>3, <2>5, NothingGranted
<1> QED BY <1>2, <1>4 DEF JumpInv
\* The jump that is granted finds less than the cap in its window, and is in no other that
\* it does not share with the jumps before it.
LEMMA GrantKeepsCap ==
    ASSUME JumpTypeOK, InTurn, Remembered, Capped, NEW t \in InHand,
           insert[t].phase = "asking", Cardinality(insert[t].pruned) < Cap,
           granted' = Append(granted, insert[t].at)
    PROVE  Capped'
<1> DEFINE at == insert[t].at
           pruned == insert[t].pruned
<1>1. t \in Thread
  BY DEF InHand
<1>2. at \in Nat /\ pruned \subseteq DOMAIN granted
  BY <1>1 DEF JumpTypeOK, Request
<1>3. \A i \in DOMAIN granted : i \in pruned \/ granted[i] < at - Window
  BY DEF Remembered, Held
<1>w. Window \in Nat /\ Cap \in Nat
  BY JumpAssumption
<1>g. granted' = Append(granted, at) /\ Cardinality(pruned) < Cap
  OBVIOUS
<1> HIDE DEF at, pruned
<1>4. PICK n : n = Len(granted) + 1
  OBVIOUS
<1>5. /\ n \in Nat /\ n \notin DOMAIN granted /\ DOMAIN granted' = DOMAIN granted \cup {n}
      /\ granted'[n] = at /\ \A i \in DOMAIN granted : granted'[i] = granted[i]
  <2>1. granted \in Seq(Nat)
    BY DEF JumpTypeOK
  <2> QED BY <1>2, <1>4, <1>g, <2>1
<1>6. ASSUME NEW end \in Nat PROVE Cardinality(InWindow(end)') <= Cap
  <2>1. IsFiniteSet(InWindow(end)) /\ Cardinality(InWindow(end)) \in Nat
    BY WindowIsFinite
  <2>2. CASE at \in (end - Window)..end
    <3>1. InWindow(end)' = InWindow(end) \cup {n}
      BY <1>5, <2>2 DEF InWindow
    <3>2. InWindow(end) \subseteq pruned
      <4>1. ASSUME NEW i \in InWindow(end) PROVE i \in pruned
        <5>1. i \in DOMAIN granted /\ granted[i] >= end - Window /\ granted[i] \in Nat
          BY <4>1, WindowIsFinite, <1>w DEF InWindow
        <5>2. ~(granted[i] < at - Window)
          BY <1>2, <1>w, <2>2, <5>1
        <5> QED BY <1>3, <5>1, <5>2
      <4> QED BY <4>1
    <3>3. IsFiniteSet(pruned) /\ Cardinality(pruned) \in Nat
      BY <1>2, WindowIsFinite, FS_Subset, FS_CardinalityType
    <3>4. Cardinality(InWindow(end)) <= Cardinality(pruned)
      BY <3>2, <3>3, FS_Subset
    <3>5. n \notin InWindow(end)
      BY <1>5 DEF InWindow
    <3>6. Cardinality(InWindow(end) \cup {n}) = Cardinality(InWindow(end)) + 1
      BY <2>1, <3>5, FS_AddElement
    <3> QED BY <1>w, <1>g, <2>1, <3>1, <3>3, <3>4, <3>6
  <2>3. CASE at \notin (end - Window)..end
    <3>1. InWindow(end)' = InWindow(end)
      BY <1>5, <2>3 DEF InWindow
    <3> QED BY <3>1 DEF Capped
  <2> QED BY <2>2, <2>3
<1> QED BY <1>6 DEF Capped

LEMMA JumpSteps == JumpInv /\ [JumpNext]_jumpVars => JumpInv'
<1> SUFFICES ASSUME JumpInv, [JumpNext]_jumpVars PROVE JumpInv'
  OBVIOUS
<1>types. JumpTypeOK /\ (~raced => InTurn /\ Remembered /\ Capped)
  BY DEF JumpInv
<1>one. \A t \in Thread : insert[t] \in Request
  BY <1>types DEF JumpTypeOK
<1>w. Window \in Nat /\ Cap \in Nat
  BY JumpAssumption
<1>g. /\ Len(granted) \in Nat /\ DOMAIN granted = 1..Len(granted)
      /\ (\A i \in DOMAIN granted : granted[i] \in Nat) /\ now \in Nat
  BY <1>types, WindowIsFinite DEF JumpTypeOK
<1>none. NoInsert \in Request /\ NoInsert.phase = "idle" /\ NoInsert.pruned = {}
  BY DEF NoInsert, Request
<1>1. ASSUME NEW t \in Thread, NEW emergency \in BOOLEAN, Insert(t, emergency) PROVE JumpInv'
  <2>1. PICK new : new = IF emergency THEN [NoInsert EXCEPT !.phase = "asking", !.at = now,
                                                            !.pruned = Pruned(tracker, now)]
                         ELSE [NoInsert EXCEPT !.phase = "answered", !.at = now]
    OBVIOUS
  <2>2. /\ insert' = [insert EXCEPT ![t] = new] /\ UNCHANGED <<now, tracker, granted>>
        /\ raced' = (raced \/ InHand # {}) /\ insert[t].phase = "idle"
    BY <1>1, <2>1 DEF Insert
  <2>p. PICK kept : kept = Pruned(tracker, now)
    OBVIOUS
  <2>k. kept \subseteq tracker /\ kept \subseteq DOMAIN granted /\ kept \in SUBSET Nat
        /\ \A i \in tracker : i \in kept \/ granted[i] < now - Window
    BY <1>types, <1>g, <1>w, <2>p DEF Pruned, JumpTypeOK
  <2>3. /\ new \in Request /\ new.at = now /\ new.phase \in {"asking", "answered"}
        /\ new.pruned \subseteq DOMAIN granted
        /\ new.phase = "asking" => new.pruned = kept
    BY <1>g, <2>1, <2>p, <2>k DEF NoInsert, Request
  <2>4. \A u \in Thread : insert'[u] = IF u = t THEN new ELSE insert[u]
    BY <1>types, <2>2 DEF JumpTypeOK
  <2>5. JumpTypeOK'
    <3>1. raced' \in BOOLEAN
      BY <1>types, <2>2 DEF JumpTypeOK
    <3> QED BY <1>types, <2>2, <2>3, <2>4, <3>1 DEF JumpTypeOK
  <2>6. ASSUME ~raced' PROVE (InTurn /\ Remembered /\ Capped)'
    <3>1. InTurn /\ Remembered /\ Capped /\ InHand = {}
      BY <1>types, <2>2, <2>6
    <3>2. InHand' = {t}
      BY <2>3, <2>4, <3>1 DEF InHand
    <3>3. insert'[t] = new
      BY <2>4
    <3>4. InTurn'
      BY <1>g, <2>2, <2>3, <3>1, <3>2, <3>3 DEF InTurn
    <3>5. \A i \in DOMAIN granted : i \in Held(t)' \/ granted[i] < now - Window
      <4>1. Held(t)' = IF new.phase = "asking" THEN kept ELSE tracker
        BY <2>2, <2>3, <3>3 DEF Held
      <4> QED BY <2>k, <3>1, <4>1 DEF Remembered
    <3>6. Remembered'
      BY <2>2, <2>3, <3>2, <3>3, <3>5 DEF Remembered
    <3> QED BY <2>2, <3>1, <3>4, <3>6, NothingGranted
  <2> QED BY <2>5, <2>6 DEF JumpInv
<1>2. ASSUME NEW t \in Thread, CanJump(t) PROVE JumpInv'
  <2>0. insert[t] \in Request /\ t \in InHand /\ insert[t].phase = "asking" /\ tracker' = insert[t].pruned
        /\ UNCHANGED <<now, raced>>
    BY <1>2, <1>one DEF CanJump, InHand
  <2>1. CASE Cardinality(insert[t].pruned) < Cap
    <3>1. PICK n : n = Len(granted) + 1
      OBVIOUS
    <3>2. PICK new : new = [insert[t] EXCEPT !.phase = "jumping", !.jump = n]
      OBVIOUS
    <3>3. granted' = Append(granted, insert[t].at) /\ insert' = [insert EXCEPT ![t] = new]
      <4>1. insert' = [insert EXCEPT ![t].phase = "jumping", ![t].jump = n]
        BY <1>2, <2>1, <3>1 DEF CanJump
      <4> QED BY <1>2, <1>types, <2>1, <3>2, <4>1 DEF CanJump, JumpTypeOK, Request
    <3>4. n \in Nat /\ insert[t].at \in Nat
      BY <1>g, <2>0, <3>1 DEF Request
    <3>5. new \in Request /\ new.phase = "jumping" /\ new.jump = n /\ new.pruned = insert[t].pruned
          /\ new.at = insert[t].at
      BY <2>0, <3>2, <3>4 DEF Request
    <3>6. /\ DOMAIN granted' = DOMAIN granted \cup {n} /\ granted'[n] = insert[t].at
          /\ \A i \in DOMAIN granted : granted'[i] = granted[i]
          /\ granted' \in Seq(Nat)
      <4>1. granted \in Seq(Nat)
        BY <1>types DEF JumpTypeOK
      <4> QED BY <3>1, <3>3, <3>4, <4>1
    <3>7. \A u \in Thread : insert'[u] = IF u = t THEN new ELSE insert[u]
      BY <1>types, <3>3 DEF JumpTypeOK
    <3>8. JumpTypeOK'
      <4>1. insert' \in [Thread -> Request] /\ now' \in Nat /\ raced' \in BOOLEAN
        BY <1>types, <2>0, <3>3, <3>5 DEF JumpTypeOK
      <4>2. tracker' \subseteq DOMAIN granted'
        BY <1>types, <2>0, <3>6 DEF JumpTypeOK
      <4>3. ASSUME NEW u \in Thread
            PROVE  /\ insert'[u].pruned \subseteq DOMAIN granted'
                   /\ insert'[u].phase \in {"jumping", "recording"} => insert'[u].jump \in DOMAIN granted'
        BY <1>types, <3>5, <3>6, <3>7 DEF JumpTypeOK
      <4> QED BY <3>6, <4>1, <4>2, <4>3 DEF JumpTypeOK
    <3>9. ASSUME ~raced' PROVE (InTurn /\ Remembered /\ Capped)'
      <4>1. InTurn /\ Remembered /\ Capped
        BY <1>types, <2>0, <3>9
      <4>2. InHand' = InHand /\ InHand = {t} /\ insert'[t] = new
        <5>1. InHand' = InHand
          BY <2>0, <3>5, <3>7 DEF InHand
        <5> QED BY <2>0, <3>7, <4>1, <5>1 DEF InTurn
      <4>3. InTurn'
        <5>1. insert[t].at <= now /\ \A i \in DOMAIN granted : granted[i] <= insert[t].at /\ granted[i] <= now
          BY <2>0, <4>1 DEF InTurn
        <5>2. \A i \in DOMAIN granted' : granted'[i] <= insert[t].at /\ granted'[i] <= now
          BY <3>4, <3>6, <5>1
        <5> QED BY <2>0, <3>5, <4>2, <5>1, <5>2 DEF InTurn
      <4>4. Held(t)' = insert[t].pruned \cup {n}
        BY <2>0, <3>5, <4>2 DEF Held
      <4>5. \A i \in DOMAIN granted : i \in insert[t].pruned \/ granted[i] < insert[t].at - Window
        BY <2>0, <4>1 DEF Remembered, Held
      <4>6. \A i \in DOMAIN granted' : i \in Held(t)' \/ granted'[i] < insert[t].at - Window
        BY <3>6, <4>4, <4>5
      <4>7. Remembered'
        BY <3>5, <4>2, <4>6 DEF Remembered
      <4>8. Capped'
        BY <1>types, <2>0, <2>1, <3>3, <4>1, GrantKeepsCap
      <4> QED BY <4>3, <4>7, <4>8
    <3> QED BY <3>8, <3>9 DEF JumpInv
  <2>2. CASE ~(Cardinality(insert[t].pruned) < Cap)
    <3>2. PICK new : new = [insert[t] EXCEPT !.phase = "answered"]
      OBVIOUS
    <3>3. granted' = granted /\ insert' = [insert EXCEPT ![t] = new]
      BY <1>2, <1>types, <2>2, <3>2 DEF CanJump, JumpTypeOK, Request
    <3>5. new \in Request /\ new.phase = "answered" /\ new.pruned = insert[t].pruned
          /\ new.at = insert[t].at
      BY <2>0, <3>2 DEF Request
    <3>6. insert[t].pruned \subseteq DOMAIN granted
      BY <1>types DEF JumpTypeOK
    <3>7. insert'[t] = new
      BY <1>types, <3>3 DEF JumpTypeOK
    <3>8. Held(t) = insert[t].pruned /\ Held(t)' = insert[t].pruned
      BY <2>0, <3>5, <3>7 DEF Held
    <3> QED BY <2>0, <3>3, <3>5, <3>6, <3>8, GoesOn
  <2> QED BY <2>1, <2>2
<1>3. ASSUME NEW t \in Thread, PruneAgain(t) PROVE JumpInv'
  <2>1. PICK kept : kept = Pruned(tracker, insert[t].at)
    OBVIOUS
  <2>2. PICK new : new = [insert[t] EXCEPT !.phase = "recording", !.pruned = kept]
    OBVIOUS
  <2>3. /\ insert' = [insert EXCEPT ![t] = new] /\ UNCHANGED <<now, tracker, granted, raced>>
        /\ insert[t].phase = "jumping"
    <3>1. insert' = [insert EXCEPT ![t].phase = "recording", ![t].pruned = kept]
      BY <1>3, <2>1 DEF PruneAgain
    <3>2. insert' = [insert EXCEPT ![t] = new]
      BY <1>types, <2>2, <3>1 DEF JumpTypeOK, Request
    <3> QED BY <1>3, <3>2 DEF PruneAgain
  <2>4. /\ insert[t] \in Request /\ t \in InHand /\ insert[t].at \in Nat
        /\ tracker \subseteq DOMAIN granted /\ insert[t].jump \in DOMAIN granted
    BY <1>types, <1>one, <2>3 DEF JumpTypeOK, InHand, Request
  <2>5. kept \subseteq DOMAIN granted /\ kept \in SUBSET Nat
        /\ \A i \in tracker : i \in kept \/ granted[i] < insert[t].at - Window
    BY <1>g, <1>w, <2>1, <2>4 DEF Pruned
  <2>6. new \in Request /\ new.phase = "recording" /\ new.pruned = kept /\ new.at = insert[t].at
        /\ new.jump = insert[t].jump
    BY <2>2, <2>4, <2>5 DEF Request
  <2>7. insert'[t] = new
    BY <1>types, <2>3 DEF JumpTypeOK
  <2>8. Held(t) = tracker \cup {insert[t].jump} /\ Held(t)' = kept \cup {insert[t].jump}
    BY <2>3, <2>6, <2>7 DEF Held
  <2> QED BY <2>3, <2>4, <2>5, <2>6, <2>8, GoesOn
<1>4. ASSUME NEW t \in Thread, RecordJump(t) PROVE JumpInv'
  <2>2. PICK new : new = [insert[t] EXCEPT !.phase = "answered"]
    OBVIOUS
  <2>3. /\ insert' = [insert EXCEPT ![t] = new] /\ UNCHANGED <<now, granted, raced>>
        /\ tracker' = insert[t].pruned \cup {insert[t].jump} /\ insert[t].phase = "recording"
    BY <1>4, <1>types, <2>2 DEF RecordJump, JumpTypeOK, Request
  <2>4. /\ insert[t] \in Request /\ t \in InHand
        /\ insert[t].pruned \subseteq DOMAIN granted /\ insert[t].jump \in DOMAIN granted
    BY <1>types, <1>one, <2>3 DEF JumpTypeOK, InHand
  <2>6. new \in Request /\ new.phase = "answered" /\ new.pruned = insert[t].pruned
        /\ new.at = insert[t].at
    BY <2>2, <2>4 DEF Request
  <2>7. insert'[t] = new
    BY <1>types, <2>3 DEF JumpTypeOK
  <2>8. Held(t) = insert[t].pruned \cup {insert[t].jump} /\ Held(t)' = Held(t)
    BY <2>3, <2>6, <2>7 DEF Held
  <2> QED BY <2>3, <2>4, <2>6, <2>8, GoesOn
<1>5. ASSUME NEW t \in Thread, ReplyInsert(t) PROVE JumpInv'
  <2>1. /\ insert' = [insert EXCEPT ![t] = NoInsert] /\ UNCHANGED <<now, tracker, granted, raced>>
        /\ insert[t].phase = "answered" /\ t \in InHand
    BY <1>5 DEF ReplyInsert, InHand
  <2>2. \A u \in Thread : insert'[u] = IF u = t THEN NoInsert ELSE insert[u]
    BY <1>types, <2>1 DEF JumpTypeOK
  <2>3. JumpTypeOK'
    BY <1>types, <1>none, <2>1, <2>2 DEF JumpTypeOK
  <2>4. ASSUME ~raced' PROVE (InTurn /\ Remembered /\ Capped)'
    <3>1. InTurn /\ Remembered /\ Capped
      BY <1>types, <2>1, <2>4
    <3>2. InHand' = {}
      BY <1>none, <2>1, <2>2, <3>1 DEF InTurn, InHand
    <3>3. \A i \in DOMAIN granted : i \in tracker \/ granted[i] < insert[t].at - Window
      BY <2>1, <3>1 DEF Remembered, Held
    <3>4. insert[t].at <= now /\ insert[t].at \in Nat
      BY <1>one, <2>1, <3>1 DEF InTurn, Request
    <3>5. \A i \in DOMAIN granted : i \in tracker \/ granted[i] < now - Window
      BY <1>g, <1>w, <3>3, <3>4
    <3>6. InTurn' /\ Remembered'
      BY <2>1, <3>1, <3>2, <3>5 DEF InTurn, Remembered
    <3> QED BY <2>1, <3>1, <3>6, NothingGranted
  <2> QED BY <2>3, <2>4 DEF JumpInv
<1>6. CASE JumpTick
  <2>1. now' = now + 1 /\ UNCHANGED <<tracker, insert, granted, raced>>
    BY <1>6 DEF JumpTick
  <2>2. JumpTypeOK'
    BY <1>types, <2>1 DEF JumpTypeOK
  <2>3. InHand' = InHand /\ \A t : Held(t)' = Held(t)
    BY <2>1 DEF InHand, Held
  <2>t. InHand \subseteq Thread /\ \A t \in InHand : insert[t].at \in Nat
    BY <1>one DEF InHand, Request
  <2>4. ASSUME ~raced' PROVE (InTurn /\ Remembered /\ Capped)'
    <3>1. InTurn /\ Remembered /\ Capped
      BY <1>types, <2>1, <2>4
    <3>2. InTurn'
      BY <1>g, <2>t, <2>1, <2>3, <3>1 DEF InTurn
    <3>3. Remembered'
      BY <1>g, <1>w, <2>t, <2>1, <2>3, <3>1 DEF Remembered
    <3> QED BY <2>1, <3>1, <3>2, <3>3, NothingGranted
  <2> QED BY <2>2, <2>4 DEF JumpInv
<1>7. CASE RestartJumps
  <2>1. /\ UNCHANGED now /\ tracker' = {} /\ granted' = <<>> /\ raced' = FALSE
        /\ insert' = [t \in Thread |-> NoInsert]
    BY <1>7 DEF RestartJumps
  <2>2. DOMAIN granted' = {} /\ granted' \in Seq(Nat)
    BY <2>1
  <2>3. JumpTypeOK'
    BY <1>types, <1>none, <2>1, <2>2 DEF JumpTypeOK, NoInsert
  <2>4. InHand' = {}
    BY <2>1 DEF InHand, NoInsert
  <2>5. \A end : InWindow(end)' = {}
    BY <2>2 DEF InWindow
  <2>6. Capped'
    BY <2>5, FS_EmptySet, JumpAssumption DEF Capped
  <2>7. InTurn' /\ Remembered'
    BY <2>2, <2>4 DEF InTurn, Remembered
  <2> QED BY <2>3, <2>6, <2>7 DEF JumpInv
<1>8. CASE UNCHANGED jumpVars
  BY <1>8 DEF jumpVars, JumpInv, JumpTypeOK, InTurn, Remembered, Capped, InHand, Held, InWindow
<1> QED BY <1>1, <1>2, <1>3, <1>4, <1>5, <1>6, <1>7, <1>8 DEF JumpNext

\* As long as requests do not overlap, no window of the rolling length sees one process
\* grant more jumps than the cap, for any cap, window and number of requests and wherever
\* it restarts (emergency_queue.py:3-10).
THEOREM JumpsStayCapped == JumpSpec => []JumpsAreCapped
BY JumpStarts, JumpSteps, JumpImplies, PTL DEF JumpSpec

-----------------------------------------------------------------------------
(***************************************************************************)
(* The model of demand                                                     *)
(***************************************************************************)

Phase == {"idle", "training", "trained", "cleared", "reading", "rest", "done"}
Job == [phase : Phase, rows : Nat, run : Nat, model : Nat, failed : BOOLEAN]
Run == [rows : Nat, by : Caller]

DemandTypeOK ==
    /\ logs \in Nat
    /\ runs \in Seq(Run)
    /\ cached \in Nat
    /\ job \in [Caller -> Job]
    /\ overlapped \in BOOLEAN

\* The server's own trainings, among all that are recorded.
Mine == {i \in DOMAIN runs : runs[i].by # Cron}

\* No other of the server's trainings is newer, or has read more sessions.
Newest(m) ==
    /\ m \in Mine \cup {None}
    /\ m = None => Mine = {}
    /\ \A i \in Mine : i <= m /\ runs[i].rows <= runs[m].rows

\* The same among the trainings that are not n, which is recorded but not yet cached.
NewestBut(m, n) ==
    /\ m \in (Mine \ {n}) \cup {None}
    /\ m = None => Mine \ {n} = {}
    /\ \A i \in Mine \ {n} : i <= m /\ runs[i].rows <= runs[m].rows

\* A recorded training has read no session that has not completed; one in hand has
\* read all that the recorded ones had, when nothing else trains beside it.
ReadSoFar ==
    /\ \A i \in DOMAIN runs : runs[i].rows <= logs
    /\ \A c \in Caller : job[c].rows <= logs
    /\ \A c \in Caller : job[c].phase = "cleared" => c \in Admin

\* While trainings have never overlapped, there is at most one, which knows the newest
\* model once it has recorded it, and before that the cache has it.
OneTrains ==
    ~overlapped =>
      /\ \A c, d \in Training : c = d
      /\ (\A c \in Training : job[c].phase = "training") => Newest(cached)
      /\ \A c \in Training :
           IF job[c].phase = "training" THEN \A i \in Mine : runs[i].rows <= job[c].rows
           ELSE /\ job[c].run # None /\ Newest(job[c].run)
                /\ job[c].phase = "trained" => NewestBut(cached, job[c].run)
                /\ job[c].phase = "cleared" => cached = None

DemandInv == DemandTypeOK /\ ReadSoFar /\ OneTrains

LEMMA DemandStarts == DemandInit => DemandInv
<1> SUFFICES ASSUME DemandInit PROVE DemandInv
  OBVIOUS
<1>a. runs = << >> /\ Len(runs) = 0
  BY DEF DemandInit
<1>1. DOMAIN runs = {}
  BY <1>a
<1>b. Training = {}
  BY DEF DemandInit, NoJob, Training
<1>c. NoJob \in Job
  BY DEF NoJob, Job, Phase, None
<1>d. runs \in Seq(Run)
  BY <1>a
<1>e. job \in [Caller -> Job]
  BY <1>c DEF DemandInit
<1>2. DemandTypeOK
  BY <1>d, <1>e DEF DemandInit, DemandTypeOK, None
<1> QED BY <1>1, <1>2, <1>b DEF DemandInit, DemandInv, ReadSoFar, OneTrains, Newest, Mine, NoJob

LEMMA DemandImplies == DemandInv => ServedModelIsTheNewest
<1> SUFFICES ASSUME DemandInv, ~overlapped PROVE ServedModelIsTheNewest
  BY DEF ServedModelIsTheNewest
<1> DEFINE unseen == {job[c].run : c \in {d \in Training : job[d].phase # "training"}}
           mine == Mine \ unseen
<1> SUFFICES /\ cached \in mine \cup {None}
             /\ cached = None => mine = {} \/ \E c \in Admin : job[c].phase = "cleared"
             /\ cached # None => \A i \in mine : i <= cached /\ runs[i].rows <= runs[cached].rows
  BY DEF ServedModelIsTheNewest, Mine
<1>1. OneTrains /\ ReadSoFar
  BY DEF DemandInv
<1>2. CASE \A c \in Training : job[c].phase = "training"
  <2>1. unseen = {} /\ Newest(cached)
    BY <1>1, <1>2 DEF OneTrains
  <2> QED BY <2>1 DEF Newest
<1>3. ASSUME NEW c \in Training, job[c].phase # "training"
      PROVE  /\ cached \in mine \cup {None}
             /\ cached = None => mine = {} \/ \E d \in Admin : job[d].phase = "cleared"
             /\ cached # None => \A i \in mine : i <= cached /\ runs[i].rows <= runs[cached].rows
  <2>1. \A d \in Training : d = c
    BY <1>1 DEF OneTrains
  <2>2. unseen = {job[c].run} /\ c \in Caller /\ job[c].phase \in {"trained", "cleared"}
    BY <1>3, <2>1 DEF Training
  <2>3. CASE job[c].phase = "trained"
    <3>1. NewestBut(cached, job[c].run)
      BY <1>1, <1>3, <2>3 DEF OneTrains
    <3> QED BY <2>2, <3>1 DEF NewestBut
  <2>4. CASE job[c].phase = "cleared"
    <3>1. cached = None /\ c \in Admin
      BY <1>1, <1>3, <2>2, <2>4 DEF OneTrains, ReadSoFar
    <3> QED BY <2>4, <3>1
  <2> QED BY <2>2, <2>3, <2>4
<1> QED BY <1>2, <1>3

\* A step that moves one caller on, out of any training it was not in, and leaves the
\* trainings and the cache alone.
LEMMA OneCaller ==
    ASSUME DemandInv, NEW c \in Caller, NEW new \in Job,
           job' = [job EXCEPT ![c] = new],
           UNCHANGED <<logs, runs, cached, overlapped>>,
           new.rows <= logs, new.phase # "cleared",
           c # Cron => new.phase \notin {"training", "trained"},
           c # Cron /\ ~overlapped /\ c \in Training => Newest(cached)
    PROVE  DemandInv'
<1>1. DemandTypeOK'
  BY DEF DemandInv, DemandTypeOK
<1>2. \A d \in Caller : job'[d] = IF d = c THEN new ELSE job[d]
  BY DEF DemandInv, DemandTypeOK
<1>3. ReadSoFar'
  BY <1>2 DEF DemandInv, ReadSoFar
<1>4. Mine' = Mine /\ (\A m : Newest(m)' = Newest(m))
      /\ \A m, n : NewestBut(m, n)' = NewestBut(m, n)
  BY DEF Mine, Newest, NewestBut
<1>5. \A d \in Caller : d \in Training' => d \in Training /\ job'[d] = job[d]
  BY <1>2 DEF Training
<1>6. \A d \in Caller : d \in Training /\ d # c => d \in Training' /\ job'[d] = job[d]
  BY <1>2 DEF Training
<1>7. ASSUME ~overlapped PROVE OneTrains'
  <2>1. CASE c \in Training
    <3>1. Training' = {}
      <4>1. c # Cron
        BY <2>1 DEF Training
      <4>2. c \notin Training'
        BY <1>2, <4>1 DEF Training, Job
      <4>3. \A d \in Training : d = c
        BY <1>7, <2>1 DEF DemandInv, OneTrains
      <4>4. \A d \in Training' : d \in Caller
        BY DEF Training
      <4>5. \A d \in Training' : FALSE
        BY <1>5, <4>2, <4>3, <4>4
      <4> QED BY <4>5
    <3>2. Newest(cached)
      BY <1>7, <2>1, <3>1 DEF Training
    <3> QED BY <1>4, <3>1, <3>2 DEF OneTrains
  <2>2. CASE c \notin Training
    <3>1. Training' = Training
      <4>1. c \notin Training'
        BY <1>2, <2>2 DEF Training
      <4> QED BY <1>5, <1>6, <2>2, <4>1 DEF Training
    <3>2. \A d \in Training : job'[d] = job[d]
      BY <1>6, <2>2 DEF Training
    <3> QED BY <1>4, <1>7, <3>1, <3>2 DEF DemandInv, OneTrains
  <2> QED BY <2>1, <2>2
<1>8. OneTrains'
  BY <1>7 DEF OneTrains
<1> QED BY <1>1, <1>3, <1>8 DEF DemandInv

\* Every step keeps it.
LEMMA DemandSteps == DemandInv /\ [DemandNext]_demandVars => DemandInv'
<1> SUFFICES ASSUME DemandInv, [DemandNext]_demandVars PROVE DemandInv'
  OBVIOUS
<1>types. DemandTypeOK /\ ReadSoFar /\ OneTrains
  BY DEF DemandInv
<1>job. \A c \in Caller : job[c] \in Job
  BY <1>types DEF DemandTypeOK
<1>logs. logs \in Nat /\ 0 <= logs
  BY <1>types DEF DemandTypeOK
<1>rows. (\A c \in Caller : job[c].rows \in Nat) /\ (\A i \in DOMAIN runs : runs[i].rows \in Nat)
  <2>1. runs \in Seq(Run)
    BY <1>types DEF DemandTypeOK
  <2>2. \A i \in DOMAIN runs : runs[i] \in Run
    BY <2>1
  <2> QED BY <1>job, <2>2 DEF Job, Run
<1>noJob. NoJob \in Job /\ NoJob.phase = "idle" /\ NoJob.rows = 0
  BY DEF NoJob, Job, Phase, None
<1>apart. Loop \in Caller /\ Cron \in Caller /\ Loop # Cron /\ Loop \notin Admin /\ Cron \notin Admin
  BY DemandAssumption DEF Caller
<1>1. CASE CompleteSession
  <2>1. DemandTypeOK'
    BY <1>1, <1>types, <1>logs DEF CompleteSession, DemandTypeOK
  <2>3. ReadSoFar'
    BY <1>1, <1>types, <1>rows, <1>logs DEF CompleteSession, ReadSoFar
  <2>4. Training' = Training /\ Mine' = Mine /\ (\A m : Newest(m)' = Newest(m))
        /\ \A m, n : NewestBut(m, n)' = NewestBut(m, n)
    BY <1>1 DEF CompleteSession, Training, Mine, Newest, NewestBut
  <2>5. OneTrains'
    BY <1>1, <1>types, <2>4 DEF CompleteSession, OneTrains
  <2> QED BY <2>1, <2>3, <2>5 DEF DemandInv
<1>2. CASE ScriptEnds
  BY <1>2, <1>noJob, <1>apart, <1>logs, OneCaller DEF ScriptEnds
<1>3. CASE FindModel
  <2> DEFINE new == [NoJob EXCEPT !.phase = "reading"]
  <2>1. new \in Job /\ new.phase = "reading" /\ new.rows = 0
    BY DEF NoJob, Job, Phase, None
  <2>2. job' = [job EXCEPT ![Loop] = new] /\ UNCHANGED <<logs, runs, cached, overlapped>>
        /\ Loop \notin Training
    BY <1>3 DEF FindModel, Training
  <2> HIDE DEF new
  <2> QED BY <1>apart, <1>logs, <2>1, <2>2, OneCaller
<1>4. ASSUME NEW c \in Caller, Train(c) PROVE DemandInv'
  <2> DEFINE new == [NoJob EXCEPT !.phase = "training", !.rows = logs]
  <2>1. new \in Job /\ new.phase = "training" /\ new.rows = logs
    BY <1>types DEF NoJob, Job, Phase, None, DemandTypeOK
  <2>2. /\ job' = [job EXCEPT ![c] = new] /\ UNCHANGED <<logs, runs, cached>>
        /\ overlapped' = (overlapped \/ (c # Cron /\ Training # {}))
        /\ c \notin Training
    BY <1>4 DEF Train, Training
  <2> HIDE DEF new
  <2>3. \A d \in Caller : job'[d] = IF d = c THEN new ELSE job[d]
    BY <1>types, <2>2 DEF DemandTypeOK
  <2>4. DemandTypeOK'
    <3>1. overlapped' \in BOOLEAN
      BY <1>types, <2>2 DEF DemandTypeOK
    <3> QED BY <1>types, <2>1, <2>2, <3>1 DEF DemandTypeOK
  <2>5. ReadSoFar'
    BY <1>types, <2>1, <2>2, <2>3 DEF ReadSoFar, DemandTypeOK
  <2>6. Mine' = Mine /\ (\A m : Newest(m)' = Newest(m)) /\ Mine \subseteq DOMAIN runs
        /\ \A m, n : NewestBut(m, n)' = NewestBut(m, n)
    BY <2>2 DEF Mine, Newest, NewestBut
  <2>7. ASSUME ~overlapped' PROVE OneTrains'
    <3>0. ~overlapped
      BY <2>2, <2>7
    <3>1. CASE c = Cron
      <4>1. Training' = Training /\ \A d \in Training : job'[d] = job[d]
        BY <2>3, <3>1 DEF Training
      <4> QED BY <1>types, <2>2, <2>6, <3>0, <4>1 DEF OneTrains
    <3>2. CASE c # Cron
      <4>1. Training = {}
        BY <2>2, <2>7, <3>2
      <4>2. \A d \in Training' : d \in Caller /\ d = c
        BY <2>3, <4>1 DEF Training
      <4>3. Newest(cached)
        BY <1>types, <3>0, <4>1 DEF OneTrains
      <4>4. \A i \in Mine : runs[i].rows <= new.rows
        BY <1>types, <2>1, <2>6 DEF ReadSoFar
      <4>5. job'[c].phase = "training" /\ job'[c] = new
        BY <2>1, <2>3
      <4> QED BY <2>2, <2>6, <4>2, <4>3, <4>4, <4>5 DEF OneTrains
    <3> QED BY <3>1, <3>2
  <2>8. OneTrains'
    BY <2>7 DEF OneTrains
  <2> QED BY <2>4, <2>5, <2>8 DEF DemandInv
<1>5. ASSUME NEW c \in Caller, RecordRun(c) PROVE DemandInv'
  <2>p. PICK last : last = Len(runs) + 1
    OBVIOUS
  <2> DEFINE new == [job[c] EXCEPT !.phase = "trained", !.run = last]
             row == [rows |-> job[c].rows, by |-> c]
  <2>0. job[c] \in Job /\ Len(runs) \in Nat /\ DOMAIN runs = 1..Len(runs)
    <3>1. runs \in Seq(Run)
      BY <1>types DEF DemandTypeOK
    <3> QED BY <1>job, <3>1
  <2>1. new \in Job /\ new.phase = "trained" /\ new.rows = job[c].rows /\ new.run = last
    <3>1. last \in Nat
      BY <2>0, <2>p
    <3> QED BY <2>0, <3>1 DEF Job, Phase
  <2>2. /\ job' = [job EXCEPT ![c] = new] /\ runs' = Append(runs, row)
        /\ UNCHANGED <<logs, cached, overlapped>> /\ job[c].phase = "training"
    <3>1. job' = [job EXCEPT ![c].phase = "trained", ![c].run = last]
      BY <1>5, <2>p DEF RecordRun
    <3>2. job' = [job EXCEPT ![c] = new]
      BY <3>1, <1>types DEF DemandTypeOK, Job
    <3> QED BY <1>5, <3>2 DEF RecordRun
  <2>r. row \in Run /\ row.rows = job[c].rows /\ row.by = c
    BY <2>0 DEF Job, Run
  <2>l. last \in Nat /\ last = Len(runs) + 1 /\ last > 0
    BY <2>0, <2>p
  <2> HIDE DEF new, row
  <2>3. \A d \in Caller : job'[d] = IF d = c THEN new ELSE job[d]
    BY <1>types, <2>2 DEF DemandTypeOK
  <2>4. /\ DOMAIN runs' = DOMAIN runs \cup {last} /\ runs'[last] = row
        /\ \A i \in DOMAIN runs : runs'[i] = runs[i] /\ i < last /\ i \in Nat
    <3>1. runs \in Seq(Run)
      BY <1>types DEF DemandTypeOK
    <3>2. Len(runs') = last /\ DOMAIN runs' = 1..last
      BY <2>2, <2>l, <2>r, <3>1
    <3>3. runs'[last] = row /\ \A i \in 1..Len(runs) : runs'[i] = runs[i]
      BY <2>2, <2>l, <2>r, <3>1
    <3> QED BY <2>0, <2>l, <3>2, <3>3
  <2>5. DemandTypeOK'
    <3>1. runs' \in Seq(Run)
      BY <1>types, <2>2, <2>r DEF DemandTypeOK
    <3> QED BY <1>types, <2>1, <2>2, <3>1 DEF DemandTypeOK
  <2>6. ReadSoFar'
    <3>1. \A i \in DOMAIN runs' : runs'[i].rows <= logs'
      BY <1>types, <2>2, <2>4, <2>r DEF ReadSoFar
    <3>2. \A d \in Caller : job'[d].rows <= logs'
      BY <1>types, <2>1, <2>2, <2>3 DEF ReadSoFar
    <3> QED BY <1>types, <2>1, <2>3, <3>1, <3>2 DEF ReadSoFar
  <2>7. ASSUME ~overlapped' PROVE OneTrains'
    <3>0. ~overlapped
      BY <2>2, <2>7
    <3>1. CASE c = Cron
      <4>1. Training' = Training /\ \A d \in Training : job'[d] = job[d]
        BY <2>3, <3>1 DEF Training
      <4>2. Mine' = Mine /\ \A i \in Mine : runs'[i] = runs[i]
        BY <2>4, <2>r, <3>1 DEF Mine
      <4>3. (\A m : Newest(m) => Newest(m)') /\ \A m, n : NewestBut(m, n) => NewestBut(m, n)'
        BY <4>2 DEF Newest, NewestBut, None
      <4> QED BY <1>types, <2>2, <3>0, <4>1, <4>2, <4>3 DEF OneTrains
    <3>2. CASE c # Cron
      <4>1. c \in Training /\ \A d \in Training : d = c
        BY <1>types, <2>2, <3>0, <3>2 DEF OneTrains, Training
      <4>2. \A d \in Training' : d = c
        <5>1. \A d \in Caller : d # c => (d \in Training' <=> d \in Training)
          BY <2>3 DEF Training
        <5>2. \A d \in Training' : d \in Caller
          BY DEF Training
        <5> QED BY <4>1, <5>1, <5>2
      <4>3. Mine' = Mine \cup {last} /\ \A i \in Mine : runs'[i] = runs[i] /\ i < last /\ i \in Nat
        BY <2>4, <2>r, <3>2 DEF Mine
      <4>4. \A i \in Mine : runs[i].rows <= row.rows
        BY <1>types, <2>2, <2>r, <3>0, <4>1 DEF OneTrains
      <4>5. \A i \in Mine' : i <= last /\ runs'[i].rows <= runs'[last].rows
        <5>1. ASSUME NEW i \in Mine PROVE i <= last /\ runs'[i].rows <= runs'[last].rows
          BY <2>4, <2>l, <4>3, <4>4
        <5>2. row.rows \in Nat /\ runs'[last] = row
          BY <2>4, <2>r DEF Run
        <5> QED BY <2>l, <4>3, <5>1, <5>2
      <4>6. Newest(last)'
        BY <4>3, <4>5, <2>l DEF Newest, None
      <4>7. job'[c].phase = "trained" /\ job'[c].run = last
        BY <2>1, <2>3
      <4>8. c \in Training'
        BY <2>3, <3>2, <4>7 DEF Training
      <4>9. job'[c].phase # "training" /\ job'[c].run # None /\ Newest(job[c].run)'
        BY <2>l, <4>6, <4>7 DEF None
      <4>10. NewestBut(cached, last)'
        <5>1. Newest(cached)
          BY <1>types, <2>2, <3>0, <4>1 DEF OneTrains
        <5>2. Mine' \ {last} = Mine /\ cached' = cached
          BY <2>2, <4>3
        <5> QED BY <4>3, <5>1, <5>2 DEF Newest, NewestBut, None
      <4>11. NewestBut(cached, job[c].run)'
        BY <4>7, <4>10
      <4> QED BY <4>2, <4>7, <4>8, <4>9, <4>11 DEF OneTrains
    <3> QED BY <3>1, <3>2
  <2>8. OneTrains'
    BY <2>7 DEF OneTrains
  <2> QED BY <2>5, <2>6, <2>8 DEF DemandInv
<1>6. ASSUME NEW c \in Caller, TrainingFails(c) PROVE DemandInv'
  <2>1. /\ job' = [job EXCEPT ![c] = NoJob] /\ UNCHANGED <<logs, runs, cached, overlapped>>
        /\ job[c].phase = "training"
    BY <1>6 DEF TrainingFails
  <2>2. c # Cron /\ ~overlapped /\ c \in Training => Newest(cached)
    BY <1>types, <2>1 DEF OneTrains
  <2> QED BY <1>noJob, <1>logs, <2>1, <2>2, OneCaller
<1>7. ASSUME NEW c \in Caller \ {Cron}, Clear(c) PROVE DemandInv'
  <2> DEFINE new == [job[c] EXCEPT !.phase = "cleared"]
  <2>0. job[c] \in Job
    BY <1>job
  <2>1. new \in Job /\ new.phase = "cleared" /\ new.rows = job[c].rows /\ new.run = job[c].run
    BY <2>0 DEF Job, Phase
  <2>2. /\ job' = [job EXCEPT ![c] = new] /\ cached' = None
        /\ UNCHANGED <<logs, runs, overlapped>> /\ job[c].phase = "trained" /\ c \in Admin
    <3>1. job' = [job EXCEPT ![c].phase = "cleared"]
      BY <1>7 DEF Clear
    <3>2. job' = [job EXCEPT ![c] = new]
      BY <3>1, <1>types DEF DemandTypeOK, Job
    <3> QED BY <1>7, <3>2 DEF Clear
  <2> HIDE DEF new
  <2>3. \A d \in Caller : job'[d] = IF d = c THEN new ELSE job[d]
    BY <1>types, <2>2 DEF DemandTypeOK
  <2>4. DemandTypeOK'
    BY <1>types, <2>1, <2>2 DEF DemandTypeOK, None
  <2>5. ReadSoFar'
    BY <1>types, <2>1, <2>2, <2>3 DEF ReadSoFar
  <2>6. Mine' = Mine /\ (\A m : Newest(m)' = Newest(m))
    BY <2>2 DEF Mine, Newest
  <2>7. Training' = Training /\ c \in Training
    BY <2>1, <2>2, <2>3 DEF Training
  <2>8. ASSUME ~overlapped' PROVE OneTrains'
    <3>1. \A d \in Training : d = c
      BY <1>types, <2>2, <2>7, <2>8 DEF OneTrains
    <3>2. job[c].run # None /\ Newest(job[c].run)
      BY <1>types, <2>2, <2>7, <2>8 DEF OneTrains
    <3>3. job'[c] = new
      BY <2>3
    <3> QED BY <2>1, <2>2, <2>6, <2>7, <3>1, <3>2, <3>3 DEF OneTrains
  <2>9. OneTrains'
    BY <2>8 DEF OneTrains
  <2> QED BY <2>4, <2>5, <2>9 DEF DemandInv
<1>8. ASSUME NEW c \in Caller \ {Cron}, Update(c) PROVE DemandInv'
  <2> DEFINE new == [job[c] EXCEPT !.phase = "reading"]
  <2>0. job[c] \in Job
    BY <1>job
  <2>1. new \in Job /\ new.phase = "reading" /\ new.rows = job[c].rows
    BY <2>0 DEF Job, Phase
  <2>2. /\ job' = [job EXCEPT ![c] = new] /\ cached' = job[c].run
        /\ UNCHANGED <<logs, runs, overlapped>> /\ job[c].phase \in {"trained", "cleared"}
    <3>1. job' = [job EXCEPT ![c].phase = "reading"]
      BY <1>8 DEF Update
    <3>2. job' = [job EXCEPT ![c] = new]
      BY <3>1, <1>types DEF DemandTypeOK, Job
    <3> QED BY <1>8, <3>2 DEF Update
  <2> HIDE DEF new
  <2>3. \A d \in Caller : job'[d] = IF d = c THEN new ELSE job[d]
    BY <1>types, <2>2 DEF DemandTypeOK
  <2>4. DemandTypeOK'
    <3>1. job[c].run \in Nat
      BY <2>0 DEF Job
    <3> QED BY <1>types, <2>1, <2>2, <3>1 DEF DemandTypeOK
  <2>5. ReadSoFar'
    BY <1>types, <2>1, <2>2, <2>3 DEF ReadSoFar
  <2>6. Mine' = Mine /\ (\A m : Newest(m)' = Newest(m))
    BY <2>2 DEF Mine, Newest
  <2>7. ASSUME ~overlapped' PROVE OneTrains'
    <3>0. c \in Training /\ ~overlapped
      BY <2>2, <2>7 DEF Training
    <3>1. \A d \in Training : d = c
      BY <1>types, <3>0 DEF OneTrains
    <3>2. Newest(job[c].run)
      BY <1>types, <2>2, <3>0 DEF OneTrains
    <3>3. Training' = {}
      BY <2>1, <2>3, <3>1 DEF Training
    <3> QED BY <2>2, <2>6, <3>2, <3>3 DEF OneTrains
  <2>8. OneTrains'
    BY <2>7 DEF OneTrains
  <2> QED BY <2>4, <2>5, <2>8 DEF DemandInv
<1>9. ASSUME NEW c \in Caller \ {Cron}, ReadModel(c) PROVE DemandInv'
  <2> DEFINE new == [job[c] EXCEPT !.phase = IF cached = None THEN "done" ELSE "rest",
                                   !.model = cached, !.failed = (cached = None)]
  <2>0. job[c] \in Job /\ cached \in Nat /\ (cached = None) \in BOOLEAN
    BY <1>job, <1>types DEF DemandTypeOK
  <2>1. new \in Job /\ new.phase \in {"done", "rest"} /\ new.rows = job[c].rows
    BY <2>0 DEF Job, Phase
  <2>2. /\ job' = [job EXCEPT ![c] = new] /\ UNCHANGED <<logs, runs, cached, overlapped>>
        /\ c \notin Training
    <3>1. job' = [job EXCEPT ![c].phase = IF cached = None THEN "done" ELSE "rest",
                             ![c].model = cached, ![c].failed = (cached = None)]
      BY <1>9 DEF ReadModel
    <3>2. job' = [job EXCEPT ![c] = new]
      BY <3>1, <1>types DEF DemandTypeOK, Job
    <3> QED BY <1>9, <3>2 DEF ReadModel, Training
  <2>3. new.rows <= logs
    BY <1>types, <2>1 DEF ReadSoFar
  <2> HIDE DEF new
  <2> QED BY <2>1, <2>2, <2>3, OneCaller
<1>10. ASSUME NEW c \in Caller \ {Cron}, ReadRest(c) PROVE DemandInv'
  <2> DEFINE new == [job[c] EXCEPT !.phase = "done", !.run = cached, !.failed = (cached = None)]
  <2>0. job[c] \in Job /\ cached \in Nat /\ (cached = None) \in BOOLEAN
    BY <1>job, <1>types DEF DemandTypeOK
  <2>1. new \in Job /\ new.phase = "done" /\ new.rows = job[c].rows
    BY <2>0 DEF Job, Phase
  <2>2. /\ job' = [job EXCEPT ![c] = new] /\ UNCHANGED <<logs, runs, cached, overlapped>>
        /\ c \notin Training
    <3>1. job' = [job EXCEPT ![c].phase = "done", ![c].run = cached, ![c].failed = (cached = None)]
      BY <1>10 DEF ReadRest
    <3>2. job' = [job EXCEPT ![c] = new]
      BY <3>1, <1>types DEF DemandTypeOK, Job
    <3> QED BY <1>10, <3>2 DEF ReadRest, Training
  <2>3. new.rows <= logs
    BY <1>types, <2>1 DEF ReadSoFar
  <2> HIDE DEF new
  <2> QED BY <2>1, <2>2, <2>3, OneCaller
<1>11. ASSUME NEW c \in Caller \ {Cron}, Respond(c) PROVE DemandInv'
  <2>1. /\ job' = [job EXCEPT ![c] = NoJob] /\ UNCHANGED <<logs, runs, cached, overlapped>>
        /\ c \notin Training
    BY <1>11 DEF Respond, Training
  <2> QED BY <1>noJob, <1>logs, <2>1, OneCaller
<1>12. CASE UNCHANGED demandVars
  BY <1>12 DEF demandVars, DemandInv, DemandTypeOK, ReadSoFar, OneTrains, Newest, NewestBut, Mine,
            Training
<1> QED BY <1>1, <1>2, <1>3, <1>4, <1>5, <1>6, <1>7, <1>8, <1>9, <1>10, <1>11, <1>12
        DEF DemandNext

\* The server predicts with the newest model it made, which was fitted to every session
\* the earlier ones had read, for any number of administrators, sessions and trainings,
\* as long as its trainings do not overlap (demand_retrain_job.py:71-110).
THEOREM NewestModelIsServed == DemandSpec => []ServedModelIsTheNewest
BY DemandStarts, DemandSteps, DemandImplies, PTL DEF DemandSpec

=============================================================================
