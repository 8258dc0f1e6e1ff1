------------------------------ MODULE StationSim ------------------------------
(***************************************************************************)
(* A simulated station (simulation/station_sim.py): vehicles queue for its *)
(* chargers, a session of at least two minutes ends with its charger       *)
(* available or offline, and a process per session reports the session's   *)
(* readings every two minutes.  The queue is a SimPy resource: a place is  *)
(* granted by one event and taken by the vehicle's process at another of   *)
(* the same instant, and a release lets the next vehicle in at a third.    *)
(***************************************************************************)
EXTENDS Integers, Sequences, FiniteSets, Functions

CONSTANTS
    Charger,        \* the station's chargers
    Order,          \* the chargers in the order of their indices
    Tick,           \* TELEMETRY_TICK_MINUTES, in the clock's units
    Stays,          \* lengths of a session, from two minutes up, in the clock's units
    Outages,        \* lengths of an outage, from five minutes up, in the clock's units
    MaxQueue,       \* bound: vehicles waiting
    MaxChain        \* bound: sessions of a charger without a pause, when one more arrives

ASSUME StationAssumption ==
    /\ IsFiniteSet(Charger) /\ Order \in Seq(Charger)
    /\ IsInjective(Order) /\ Range(Order) = Charger
    /\ Tick \in Nat \ {0} /\ Stays \subseteq Nat \ {0} /\ Outages \subseteq Nat \ {0}
    /\ MaxQueue \in Nat /\ MaxChain \in Nat

VARIABLES
    status,         \* ChargerState.status
    left,           \* the time left of the session or outage
    tickers,        \* the readings' processes of each charger, by the time to their next
    free,           \* free_indices, its last first out
    waiting,        \* requests the resource has queued
    admitted,       \* requests it has admitted, whose vehicles have not gone on yet
    released,       \* releases whose events are not processed yet
    idle,           \* history: time since its last session, up to a tick
    chain           \* history: sessions since the charger was last idle for a tick

stationVars == <<status, left, tickers, free, waiting, admitted, released, idle, chain>>

ToNextReading == 0..Tick
NoTickers == [t \in ToNextReading |-> 0]
Tickers(c) == SumFunctionOnSet(tickers[c], ToNextReading)

StationInit ==
    /\ status = [c \in Charger |-> "available"]
    /\ left = [c \in Charger |-> 0]
    /\ tickers = [c \in Charger |-> NoTickers]
    /\ free = Order
    /\ waiting = 0 /\ admitted = 0 /\ released = 0
    /\ idle = [c \in Charger |-> Tick]
    /\ chain = [c \in Charger |-> 0]

Busy == {c \in Charger : status[c] # "available"}
HasPlace == admitted + Cardinality(Busy) < Cardinality(Charger)
Due(c) == status[c] # "available" /\ left[c] = 0

\* The resource gives a free place to the first of n requests that wait.
Admit(n) ==
    IF n > 0 /\ HasPlace THEN waiting' = n - 1 /\ admitted' = admitted + 1
    ELSE waiting' = n /\ UNCHANGED admitted

\* vehicle_session up to its first yield.
Arrive ==
    /\ waiting < MaxQueue
    /\ \A c \in Charger : idle[c] = Tick \/ chain[c] < MaxChain
    /\ Admit(waiting + 1)
    /\ UNCHANGED <<status, left, tickers, free, released, idle, chain>>

\* Readings due at this instant were scheduled before it and come before the start.
Start ==
    /\ admitted > 0
    /\ \A c \in Charger : tickers[c][0] = 0
    /\ LET c == free[Len(free)] IN \E stay \in Stays :
         /\ status' = [status EXCEPT ![c] = "occupied"]
         /\ left' = [left EXCEPT ![c] = stay]
         /\ tickers' = [tickers EXCEPT ![c][Tick] = @ + 1]
         /\ chain' = [chain EXCEPT ![c] = IF idle[c] = Tick THEN 1 ELSE @ + 1]
         /\ idle' = [idle EXCEPT ![c] = 0]
    /\ free' = SubSeq(free, 1, Len(free) - 1)
    /\ admitted' = admitted - 1
    /\ UNCHANGED <<waiting, released>>

\* The charger is available: its index is free again, and the vehicle leaves.
Vacate(c) ==
    /\ status' = [status EXCEPT ![c] = "available"]
    /\ free' = Append(free, c)
    /\ released' = released + 1
    /\ UNCHANGED <<left, tickers, waiting, admitted, idle, chain>>

Break(c) ==
    /\ \E outage \in Outages : left' = [left EXCEPT ![c] = outage]
    /\ status' = [status EXCEPT ![c] = "offline"]
    /\ UNCHANGED <<tickers, free, waiting, admitted, released, idle, chain>>

\* A wrong End: a charger that breaks down is given back at once.
EndGivesBack(c) ==
    /\ status[c] = "occupied" /\ Due(c)
    /\ \/ Vacate(c)
       \/ /\ status' = [status EXCEPT ![c] = "offline"]
          /\ \E outage \in Outages : left' = [left EXCEPT ![c] = outage]
          /\ free' = Append(free, c) /\ released' = released + 1
          /\ UNCHANGED <<tickers, waiting, admitted, idle, chain>>

End(c) == status[c] = "occupied" /\ Due(c) /\ (Vacate(c) \/ Break(c))
Recover(c) == status[c] = "offline" /\ Due(c) /\ Vacate(c)

\* A wrong Report: the process goes on whatever its charger's status.
ReportForever(c) ==
    /\ tickers[c][0] > 0 /\ ~(status[c] = "occupied" /\ Due(c))
    /\ tickers' = [tickers EXCEPT ![c][0] = @ - 1, ![c][Tick] = @ + 1]
    /\ UNCHANGED <<status, left, free, waiting, admitted, released, idle, chain>>

\* A reading's process wakes, goes on if its charger is occupied, by this session or
\* the next, and else ends.  A session that ends at this instant has ended before.
Report(c) ==
    /\ tickers[c][0] > 0 /\ ~(status[c] = "occupied" /\ Due(c))
    /\ tickers' = [tickers EXCEPT ![c][0] = @ - 1,
                                  ![c][Tick] = IF status[c] = "occupied" THEN @ + 1 ELSE @]
    /\ UNCHANGED <<status, left, free, waiting, admitted, released, idle, chain>>

\* The event of a release is processed: the next vehicle is let in.
Release ==
    /\ released > 0
    /\ Admit(waiting)
    /\ released' = released - 1
    /\ UNCHANGED <<status, left, tickers, free, idle, chain>>

\* Time moves once nothing is left to do at this instant.
ClockMoves ==
    /\ admitted = 0 /\ released = 0
    /\ \A c \in Charger : ~Due(c) /\ tickers[c][0] = 0
    /\ left' = [c \in Charger |-> IF c \in Busy THEN left[c] - 1 ELSE left[c]]
    /\ tickers' = [c \in Charger |->
                     [t \in ToNextReading |-> IF t = Tick THEN 0 ELSE tickers[c][t + 1]]]
    /\ idle' = [c \in Charger |->
                  IF status[c] = "occupied" \/ idle[c] = Tick THEN idle[c] ELSE idle[c] + 1]
    /\ UNCHANGED <<status, free, waiting, admitted, released, chain>>

StationNext ==
    \/ Arrive \/ Start \/ Release \/ ClockMoves
    \/ \E c \in Charger : End(c) \/ Recover(c) \/ Report(c)

StationSpec == StationInit /\ [][StationNext]_stationVars

-----------------------------------------------------------------------------
\* The two accounts of the station agree, though the index is given back in one step
\* and the place in another: the free indices are those of the available chargers,
\* each once; whoever is given a place finds an index to pop
\* (station_sim.py:169, 190); and nobody waits at a free charger once time moves.
PortsAddUp ==
    /\ IsInjective(free) /\ Range(free) = Charger \ Busy
    /\ admitted <= Len(free)
    /\ waiting > 0 => admitted + Cardinality(Busy) = Cardinality(Charger) \/ released > 0

\* A reading's process that sleeps through the end of its session and the start of
\* the next lives on beside the new one (station_sim.py:160-163): a charger has at
\* most one for each session since it was last idle for a tick, at least one in a
\* session, and after a tick of idleness none that will wake again.
TickersAreTheChain ==
    \A c \in Charger :
      /\ Tickers(c) <= chain[c]
      /\ status[c] = "occupied" => Tickers(c) >= 1
      /\ idle[c] = Tick => Tickers(c) = tickers[c][0]

=============================================================================
