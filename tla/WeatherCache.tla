----------------------------- MODULE WeatherCache -----------------------------
(***************************************************************************)
(* The backend's weather (services/weather_service.py) and the advisory    *)
(* that awaits it (services/charging_advisor.py): tasks of one event loop  *)
(* share a reading in memory, and each awaits Open-Meteo on its own when   *)
(* the reading is too old.  A reading is the time its weather was true,    *)
(* with the time the code stamps it with.                                  *)
(***************************************************************************)
EXTENDS Integers

CONSTANTS
    Task,           \* requests of the event loop
    Ttl,            \* CACHE_TTL_SECONDS, in ticks
    MaxTime         \* bound: ticks

ASSUME WeatherAssumption == Ttl \in Nat \ {0} /\ MaxTime \in Nat

VARIABLES
    clock,
    cache,          \* the last good reading
    task            \* each request's phase and locals

weatherVars == <<clock, cache, task>>

Never == -1
NoReading == [sampled |-> Never, fetched |-> Never]
Idle == [phase |-> "idle", kind |-> "current", asked |-> 0, sampled |-> Never, stale |-> FALSE]

\* What a request goes on with once it has a reading: the advisory asks the twin
\* engine next, the others answer.
Given(kind, asked, sampled, stale) ==
    [phase |-> IF kind = "advisory" THEN "feeders" ELSE "answered",
     kind |-> kind, asked |-> asked, sampled |-> sampled, stale |-> stale]

WeatherInit ==
    /\ clock = 0
    /\ cache = NoReading
    /\ task = [t \in Task |-> Idle]

IsCached == cache # NoReading /\ clock - cache.fetched < Ttl

\* get_current_weather up to its await.
Ask(t, kind) ==
    /\ task[t].phase = "idle"
    /\ task' = [task EXCEPT ![t] =
         IF IsCached THEN Given(kind, clock, cache.sampled, FALSE)
         ELSE [Idle EXCEPT !.phase = "fetching", !.kind = kind, !.asked = clock]]
    /\ UNCHANGED <<clock, cache>>

\* A wrong Fetched: the reading is stamped when it arrives.
FetchedStampedLate(t) ==
    /\ task[t].phase = "fetching"
    /\ \E sampled \in task[t].asked..clock :
         /\ cache' = [sampled |-> sampled, fetched |-> clock]
         /\ task' = [task EXCEPT ![t] = Given(@.kind, @.asked, sampled, FALSE)]
    /\ UNCHANGED clock

\* The answer arrives: its weather was true at some time since the question, and it
\* is stamped with the time of the question.
Fetched(t) ==
    /\ task[t].phase = "fetching"
    /\ \E sampled \in task[t].asked..clock :
         /\ cache' = [sampled |-> sampled, fetched |-> task[t].asked]
         /\ task' = [task EXCEPT ![t] = Given(@.kind, @.asked, sampled, FALSE)]
    /\ UNCHANGED clock

\* Open-Meteo is down: the last good reading, however old, or a neutral one.
FetchFails(t) ==
    /\ task[t].phase = "fetching"
    /\ task' = [task EXCEPT ![t] = Given(@.kind, @.asked, cache.sampled, TRUE)]
    /\ UNCHANGED <<clock, cache>>

\* The twin engine answers, or does not and counts as having no feeders.
FeedersAnswer(t) ==
    /\ task[t].phase = "feeders"
    /\ task' = [task EXCEPT ![t].phase = "answered"]
    /\ UNCHANGED <<clock, cache>>

Reply(t) ==
    /\ task[t].phase = "answered"
    /\ task' = [task EXCEPT ![t] = Idle]
    /\ UNCHANGED <<clock, cache>>

\* The client's timeout is one of each connect, write and read, so an answer that
\* keeps trickling may take as long as it likes.
WeatherTick ==
    /\ clock < MaxTime
    /\ clock' = clock + 1
    /\ UNCHANGED <<cache, task>>

WeatherNext ==
    \/ \E t \in Task, kind \in {"current", "advisory"} : Ask(t, kind)
    \/ \E t \in Task : Fetched(t) \/ FetchFails(t) \/ FeedersAnswer(t) \/ Reply(t)
    \/ WeatherTick

WeatherSpec == WeatherInit /\ [][WeatherNext]_weatherVars

-----------------------------------------------------------------------------
\* A reading that is not marked stale was true less than the TTL before the request
\* came, whichever request's fetch it is from and however late that fetch ended: the
\* cache may step back to an older question, and knows it (weather_service.py:57,
\* 95-97).
FreshMeansFresh ==
    \A t \in Task : task[t].phase \in {"feeders", "answered"} /\ ~task[t].stale =>
        task[t].sampled # Never /\ task[t].asked - task[t].sampled < Ttl

=============================================================================
