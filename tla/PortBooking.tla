----------------------------- MODULE PortBooking -----------------------------
(***************************************************************************)
(* The charging ports of one station, the holds placed on them and the     *)
(* sessions charged at them, as the backend's handlers read and write them *)
(* (backend/app/routers/stations.py and sessions.py, with the other three  *)
(* writers of chargers.status: fault_consumer.py, scenario_engine.py and   *)
(* the PATCH and admin consoles).                                          *)
(*                                                                         *)
(* A handler runs in a worker thread with a database session of its own.   *)
(* It SELECTs rows, assigns to the loaded objects, and one commit flushes  *)
(* what it changed.  PostgreSQL runs at READ COMMITTED and no row carries  *)
(* a version, so between a handler's SELECT and its commit other handlers  *)
(* may commit.  One action below is one SELECT (with the decisions taken   *)
(* on its result) or one commit.                                           *)
(***************************************************************************)
EXTENDS Integers

CONSTANTS
    NumPorts,       \* ports at the station, numbered 1..NumPorts
    User,           \* the drivers
    NoUser,         \* reserved_by_user_id is NULL
    Worker,         \* the threads that run handlers
    SessionId,      \* the session rows that may ever be created
    NoSession,      \* a handler that works on no session
    Endpoints,      \* the operations the environment uses
    PatchStatus,    \* the statuses an operator writes to a port
    MaxLogs         \* bound: completions of one session that may begin

Port == 1 .. NumPorts
NoPort == 0

ASSUME ConstantsAssumption ==
    /\ NumPorts \in Nat \ {0}
    /\ NoUser \notin User
    /\ NoSession \notin SessionId
    /\ MaxLogs \in Nat

\* An operator may write any string into the status column, "reserved" included,
\* and neither the PATCH nor the console sets an expiry with it.  A string that no
\* handler compares with behaves as "offline" does.
ASSUME PatchAssumption ==
    PatchStatus \subseteq {"available", "reserved", "occupied", "maintenance", "offline"}

VARIABLES
    charger,        \* the chargers table: Port -> row
    session,        \* the sessions table with its dependent rows
    req             \* Worker -> the request it is serving

vars == <<charger, session, req>>

-----------------------------------------------------------------------------
(***************************************************************************)
(* Rows and the unit of work                                               *)
(***************************************************************************)

Status == {"available", "reserved", "occupied", "maintenance", "offline"}

\* reserved_until: NULL, in the future, or not.
Until == {"none", "live", "lapsed"}

Row == [status : Status, until : Until, by : User \cup {NoUser}]

BlankRow == [status |-> "available", until |-> "none", by |-> NoUser]
BlankRows == [p \in Port |-> BlankRow]

\* The values handlers assign.  A new hold's expiry is a timestamp nobody has
\* seen before, "fresh", whatever the loaded one was.
Held(row, u) == [row EXCEPT !.status = "reserved", !.until = "fresh", !.by = u]
FreedKeepsStatus(row) == [row EXCEPT !.until = "none", !.by = NoUser]
Freed(row) == [row EXCEPT !.status = "available", !.until = "none", !.by = NoUser]
Claimed(row) == [row EXCEPT !.status = "occupied", !.until = "none", !.by = NoUser]
Marked(row, s) == [row EXCEPT !.status = s]

\* An UPDATE sets only the columns whose assigned value differs from the loaded
\* one; the others keep what the table holds by then.
Column(current, loaded, assigned) ==
    IF assigned = loaded THEN current ELSE assigned

Flush(current, loaded, assigned) ==
    [status |-> Column(current.status, loaded.status, assigned.status),
     until  |-> IF assigned.until = "fresh" THEN "live"
                ELSE Column(current.until, loaded.until, assigned.until),
     by     |-> Column(current.by, loaded.by, assigned.by)]

Lapsed(rows) ==
    {p \in Port : rows[p].status = "reserved" /\ rows[p].until = "lapsed"}

\* _expire_stale_reservations on loaded rows.
Expired(rows) ==
    [p \in Port |-> IF p \in Lapsed(rows) THEN Freed(rows[p]) ELSE rows[p]]

Available == {p \in Port : charger[p].status = "available"}
HeldByAnyone(u) == {p \in Port : charger[p].status = "reserved"}
HeldBy(u) == {p \in Port : charger[p].status = "reserved" /\ charger[p].by = u}

Lowest(p, S) == p \in S /\ \A q \in S : p <= q

Session ==
    [state : {"unused", "open", "ended"}, user : User \cup {NoUser},
     port : Port \cup {NoPort}, energy : BOOLEAN, logs : Nat, ledger : Nat]

UnusedSession ==
    [state |-> "unused", user |-> NoUser, port |-> NoPort,
     energy |-> FALSE, logs |-> 0, ledger |-> 0]

OpenSession(u, p) ==
    [UnusedSession EXCEPT !.state = "open", !.user = u, !.port = p]

-----------------------------------------------------------------------------
(***************************************************************************)
(* Requests.  loaded and assigned are the request's unit of work (rows it  *)
(* did not load are blank in both, so they flush to nothing); phase says   *)
(* which database call comes next.                                         *)
(***************************************************************************)

Op == {"none", "look", "reserve_any", "reserve", "cancel", "start", "complete",
       "fault", "scenario", "patch_charger"}

Phase == {"idle", "expire", "select", "reselect", "commit"}

AssignedRow ==
    [status : Status, until : Until \cup {"fresh"}, by : User \cup {NoUser}]

Request ==
    [op : Op, phase : Phase, user : User \cup {NoUser}, ports : SUBSET Port,
     loaded : [Port -> Row], assigned : [Port -> AssignedRow],
     session : SessionId \cup {NoSession}, energy : BOOLEAN]

NoRequest ==
    [op |-> "none", phase |-> "idle", user |-> NoUser, ports |-> {},
     loaded |-> BlankRows, assigned |-> BlankRows,
     session |-> NoSession, energy |-> FALSE]

Begin(r, op) == op \in Endpoints /\ req[r].phase = "idle"

Become(r, q) == req' = [req EXCEPT ![r] = q]

\* Handler r goes on with the rows it loaded for ports and what it assigned.
Goes(r, op, phase, u, ports, loaded, assigned) ==
    Become(r, [NoRequest EXCEPT !.op = op, !.phase = phase, !.user = u,
                 !.ports = ports, !.loaded = loaded, !.assigned = assigned])

OneRow(p, row) == [BlankRows EXCEPT ![p] = row]

Init ==
    /\ charger = BlankRows
    /\ session = [s \in SessionId |-> UnusedSession]
    /\ req = [r \in Worker |-> NoRequest]

-----------------------------------------------------------------------------
(***************************************************************************)
(* Stations: looking, reserving, cancelling                                *)
(***************************************************************************)

\* Any endpoint that only calls _get_station or lists the stations.  With no
\* lapsed hold to free it writes nothing, which is a stuttering step.
Look(r) ==
    /\ Begin(r, "look")
    /\ Lapsed(charger) # {}
    /\ Goes(r, "look", "expire", NoUser, Port, charger, Expired(charger))
    /\ UNCHANGED <<charger, session>>

\* _get_station loads every port and decides what has lapsed.  With nothing to
\* expire the loaded objects stay in the session's identity map ("select").
ReserveAny(r, u) ==
    /\ Begin(r, "reserve_any")
    /\ Goes(r, "reserve_any", IF Lapsed(charger) = {} THEN "select" ELSE "expire",
            u, Port, charger, Expired(charger))
    /\ UNCHANGED <<charger, session>>

\* reserve_charger on a port whose hold has lapsed: expire it first.
ReserveLapsed(r, u, p) ==
    /\ Begin(r, "reserve")
    /\ p \in Lapsed(charger)
    /\ Goes(r, "reserve", "expire", u, {p},
            OneRow(p, charger[p]), OneRow(p, Freed(charger[p])))
    /\ UNCHANGED <<charger, session>>

\* reserve_charger on a port that is free; any other status is a 409.
Reserve(r, u, p) ==
    /\ Begin(r, "reserve")
    /\ p \in Available
    /\ Goes(r, "reserve", "commit", u, {p},
            OneRow(p, charger[p]), OneRow(p, Held(charger[p], u)))
    /\ UNCHANGED <<charger, session>>

\* cancel_reservation looks at the status and the owner only.
Cancel(r, u, p) ==
    /\ Begin(r, "cancel")
    /\ p \in HeldBy(u)
    /\ Goes(r, "cancel", "commit", u, {p},
            OneRow(p, charger[p]), OneRow(p, Freed(charger[p])))
    /\ UNCHANGED <<charger, session>>
\* The query for a free port, lowest number first.  A port still in the
\* identity map keeps the attribute values it was first loaded with
\* ("select"); expired objects are read anew ("reselect").
Selected(r, p) == IF req[r].phase = "select" THEN req[r].loaded[p] ELSE charger[p]

ReserveSelected(r) ==
    LET q == req[r] IN
    /\ q.op \in {"reserve_any", "reserve"}
    /\ q.phase \in {"select", "reselect"}
    /\ \/ \E p \in q.ports :
             /\ Lowest(p, Available \cap q.ports)
             /\ Goes(r, q.op, "commit", q.user, {p},
                     OneRow(p, Selected(r, p)), OneRow(p, Held(Selected(r, p), q.user)))
       \/ /\ Available \cap q.ports = {}
          /\ Become(r, NoRequest)
    /\ UNCHANGED <<charger, session>>

-----------------------------------------------------------------------------
(***************************************************************************)
(* Sessions: starting, metering, completing                                *)
(***************************************************************************)

Unclaimed(s) ==
    session[s].state = "unused" /\ \A r \in Worker : req[r].session # s

Starts(r, u, s, p) ==
    Become(r, [NoRequest EXCEPT !.op = "start", !.phase = "commit", !.user = u,
                 !.ports = {p}, !.loaded = OneRow(p, charger[p]),
                 !.assigned = OneRow(p, Claimed(charger[p])), !.session = s])

\* start_session_at_station: the caller's own hold first, lapsed or not (no
\* expiry runs here); without one, a second query follows.
StartAtStation(r, u, s) ==
    /\ Begin(r, "start")
    /\ Unclaimed(s)
    /\ \/ \E p \in Port : Lowest(p, HeldBy(u)) /\ Starts(r, u, s, p)
       \/ /\ HeldBy(u) = {}
          /\ Become(r, [NoRequest EXCEPT !.op = "start", !.phase = "select",
                                         !.user = u, !.session = s])
    /\ UNCHANGED <<charger, session>>

StartSelected(r) ==
    LET q == req[r] IN
    /\ q.op = "start" /\ q.phase = "select"
    /\ \/ \E p \in Port : Lowest(p, Available) /\ Starts(r, q.user, q.session, p)
       \/ Available = {} /\ Become(r, NoRequest)
    /\ UNCHANGED <<charger, session>>

\* POST /sessions inserts the session it is told to; it neither looks at the
\* port nor marks it.
StartSession(u, s, p) ==
    /\ "start_session" \in Endpoints
    /\ Unclaimed(s)
    /\ session' = [session EXCEPT ![s] = OpenSession(u, p)]
    /\ UNCHANGED <<charger, req>>

\* PATCH /sessions/{id} {energy_kwh}: its one column does not depend on what
\* was loaded, so loading and committing are one step.
UpdateEnergy(s) ==
    /\ "update_energy" \in Endpoints
    /\ session[s].state # "unused"
    /\ session' = [session EXCEPT ![s].energy = TRUE]
    /\ UNCHANGED <<charger, req>>

\* PATCH /sessions/{id} {end_time}, a time or null.
UpdateEndTime(s, state) ==
    /\ "update_end_time" \in Endpoints
    /\ session[s].state # "unused"
    /\ session' = [session EXCEPT ![s].state = state]
    /\ UNCHANGED <<charger, req>>

\* complete_session loads the session and then its port.  Nothing checks that
\* the session is still open: only the clients that never repeat a completion
\* ("recomplete" is not among their endpoints) make sure it is.
CompletedWithoutRelease(row) == row
CompletedMisspelt(row) == Marked(row, "free")
Completed(row) == Marked(row, "available")

Complete(r, s) ==
    LET p == session[s].port IN
    /\ Begin(r, "complete")
    /\ session[s].state \in {"open"} \cup (IF "recomplete" \in Endpoints THEN {"ended"} ELSE {})
    /\ session[s].logs < MaxLogs /\ session[s].ledger < MaxLogs
    /\ Become(r, [NoRequest EXCEPT
                    !.op = "complete", !.phase = "commit", !.user = session[s].user,
                    !.ports = {p} \cap Port, !.session = s, !.energy = session[s].energy,
                    !.loaded = IF p = NoPort THEN @ ELSE OneRow(p, charger[p]),
                    !.assigned = IF p = NoPort THEN @ ELSE OneRow(p, Completed(charger[p]))])
    /\ UNCHANGED <<charger, session>>

-----------------------------------------------------------------------------
(***************************************************************************)
(* The other writers of chargers.status                                    *)
(***************************************************************************)

\* fault_consumer._apply_fault, once the window holds the threshold of critical
\* faults: every port loaded as available goes to maintenance.  One MQTT thread
\* runs it.
FaultOnAnyPort(r) ==
    /\ Begin(r, "fault")
    /\ \A w \in Worker : req[w].op # "fault"
    /\ Goes(r, "fault", "commit", NoUser, Port, charger,
            [p \in Port |-> Marked(charger[p], "maintenance")])
    /\ UNCHANGED <<charger, session>>

Fault(r) ==
    /\ Begin(r, "fault")
    /\ \A w \in Worker : req[w].op # "fault"
    /\ Available # {}
    /\ Goes(r, "fault", "commit", NoUser, Port, charger,
            [p \in Port |-> IF p \in Available THEN Marked(charger[p], "maintenance")
                            ELSE charger[p]])
    /\ UNCHANGED <<charger, session>>

ScenarioStatus == {"available", "offline", "occupied", "maintenance"}

\* apply_scenario gives every port of the target station the preset's status.
Scenario(r, status) ==
    /\ Begin(r, "scenario")
    /\ Goes(r, "scenario", "commit", NoUser, Port, charger,
            [p \in Port |-> Marked(charger[p], status)])
    /\ UNCHANGED <<charger, session>>

\* PATCH /stations/chargers/{id}: the status column alone, whatever the string.
UpdateCharger(r, p, status) ==
    /\ Begin(r, "patch_charger")
    /\ Goes(r, "patch_charger", "commit", NoUser, {p},
            OneRow(p, charger[p]), OneRow(p, Marked(charger[p], status)))
    /\ UNCHANGED <<charger, session>>

\* The database console's UPDATE statement sets the column whatever it held.
UpdateRow(p, status) ==
    /\ "update_row" \in Endpoints
    /\ charger' = [charger EXCEPT ![p].status = status]
    /\ UNCHANGED <<session, req>>

-----------------------------------------------------------------------------
(***************************************************************************)
(* Commits                                                                 *)
(***************************************************************************)

FlushRows(r) ==
    charger' = [p \in Port |-> Flush(charger[p], req[r].loaded[p], req[r].assigned[p])]

\* The commit inside _expire_stale_reservations.  It expires the loaded objects,
\* so a handler that goes on to reserve reads its port again.
CommitExpiryForgotten(r) ==
    /\ req[r].phase = "expire"
    /\ Become(r, NoRequest)
    /\ UNCHANGED <<charger, session>>

CommitExpiry(r) ==
    LET q == req[r] IN
    /\ q.phase = "expire"
    /\ FlushRows(r)
    /\ IF q.op = "look" THEN Become(r, NoRequest)
       ELSE Goes(r, q.op, "reselect", q.user, q.ports, BlankRows, BlankRows)
    /\ UNCHANGED session

CommitRows(r) ==
    /\ req[r].phase = "commit"
    /\ req[r].op \notin {"start", "complete"}
    /\ FlushRows(r)
    /\ Become(r, NoRequest)
    /\ UNCHANGED session

\* The claim of the port and the INSERT of the session are one commit.
CommitStart(r) ==
    LET q == req[r] IN
    /\ q.phase = "commit" /\ q.op = "start"
    /\ FlushRows(r)
    /\ \E p \in q.ports :
          session' = [session EXCEPT ![q.session] = OpenSession(q.user, p)]
    /\ Become(r, NoRequest)

\* end_time, the released port, the carbon entry (if energy was delivered when
\* the session was loaded) and the behaviour log (if it ran at a station).
LoggedOnlyIfMetered(row, energy) ==
    [row EXCEPT !.state = "ended",
                !.ledger = IF energy THEN @ + 1 ELSE @,
                !.logs = IF row.port # NoPort /\ energy THEN @ + 1 ELSE @]

Ended(row, energy) ==
    [row EXCEPT !.state = "ended",
                !.ledger = IF energy THEN @ + 1 ELSE @,
                !.logs = IF row.port # NoPort THEN @ + 1 ELSE @]

CommitComplete(r) ==
    LET q == req[r] IN
    /\ q.phase = "commit" /\ q.op = "complete"
    /\ FlushRows(r)
    /\ session' = [session EXCEPT ![q.session] = Ended(@, q.energy)]
    /\ Become(r, NoRequest)

\* The process restarts, the connection drops, or an exception ends the handler
\* before its next commit: the transaction rolls back.
Abort(r) ==
    /\ "abort" \in Endpoints
    /\ req[r].phase # "idle"
    /\ Become(r, NoRequest)
    /\ UNCHANGED <<charger, session>>

\* Ten minutes pass.
Lapse(p) ==
    /\ charger[p].until = "live"
    /\ charger' = [charger EXCEPT ![p].until = "lapsed"]
    /\ UNCHANGED <<session, req>>

-----------------------------------------------------------------------------

StationRequest(r) ==
    \/ Look(r)
    \/ \E u \in User : ReserveAny(r, u)
    \/ \E u \in User, p \in Port :
          ReserveLapsed(r, u, p) \/ Reserve(r, u, p) \/ Cancel(r, u, p)

SessionRequest(r) ==
    \/ \E u \in User, s \in SessionId : StartAtStation(r, u, s)
    \/ \E s \in SessionId : Complete(r, s)

StatusRequest(r) ==
    \/ Fault(r)
    \/ \E status \in ScenarioStatus : Scenario(r, status)
    \/ \E p \in Port, status \in PatchStatus : UpdateCharger(r, p, status)

\* What a handler that has begun does next.
Continue(r) ==
    \/ ReserveSelected(r) \/ StartSelected(r)
    \/ CommitExpiry(r) \/ CommitRows(r) \/ CommitStart(r) \/ CommitComplete(r)

OneStepRequest ==
    \/ \E u \in User, s \in SessionId, p \in Port \cup {NoPort} : StartSession(u, s, p)
    \/ \E s \in SessionId : UpdateEnergy(s)
    \/ \E s \in SessionId, state \in {"open", "ended"} : UpdateEndTime(s, state)
    \/ \E p \in Port, status \in PatchStatus : UpdateRow(p, status)

Next ==
    \/ \E r \in Worker : \/ StationRequest(r) \/ SessionRequest(r)
                         \/ StatusRequest(r) \/ Continue(r) \/ Abort(r)
    \/ OneStepRequest
    \/ \E p \in Port : Lapse(p)

Spec == Init /\ [][Next]_vars

\* A handler that has begun runs on.  Nothing makes anybody begin one: no sweep
\* runs, and a page polls the stations only while somebody has it open.
Fairness == \A r \in Worker : WF_vars(Continue(r))

FairSpec == Spec /\ Fairness

-----------------------------------------------------------------------------
(***************************************************************************)
(* Properties                                                              *)
(***************************************************************************)

TypeOK ==
    /\ charger \in [Port -> Row]
    /\ session \in [SessionId -> Session]
    /\ req \in [Worker -> Request]

\* A port on hold without an expiry: _expire_stale_reservations skips it and no
\* other user can ever get it back.
Stranded(p) == charger[p].status = "reserved" /\ charger[p].until = "none"

OperatorWrites(p) ==
    \/ \E status \in PatchStatus : UpdateRow(p, status)
    \/ \E r \in Worker : req[r].op = "patch_charger" /\ p \in req[r].ports /\ CommitRows(r)

\* Holds, expiries, cancellations, claims, completions, faults and scenarios each
\* write some of a port's columns over a row that has moved on since they read
\* it: no interleaving of them strands a port.  Only an operator does, by writing
\* "reserved" into a status column whose two companions a hold alone sets.
OnlyOperatorsStrandAPort ==
    [][\A p \in Port : ~Stranded(p) /\ Stranded(p)' => OperatorWrites(p)]_vars

\* A port that reads "occupied" is being charged at: completing the last session
\* on it has released it, however completions and starts interleave.  A port
\* that stayed occupied would never be offered to anybody again.
OccupiedHasOpenSession ==
    \A p \in Port : charger[p].status = "occupied" =>
        \E s \in SessionId : session[s].state = "open" /\ session[s].port = p

\* A completion and its behaviour log are one commit: no abort leaves an ended
\* session without its log, or a log of a session that is still open.
EndedExactlyWhenLogged ==
    \A s \in SessionId : session[s].port # NoPort =>
        (session[s].state = "ended" <=> session[s].logs > 0)

\* Whoever looks at a port whose hold has lapsed frees it, even when its holder
\* never comes back and whatever other handlers commit in between: the expiry "on
\* it being gone by the next time anyone looks" (stations.py).  A hold that nobody
\* looks at stays, and a look that a restart cuts off frees nothing.
LapsedHoldIsFreed ==
    \A r \in Worker, p \in Port :
        (req[r].phase = "expire" /\ p \in Lapsed(req[r].loaded)) ~> p \notin Lapsed(charger)

\* The sessions being charged at port p.
Charging(p) == {s \in SessionId : session[s].state = "open" /\ session[s].port = p}

\* When handlers do not overlap, every step is a step of StationPorts or none:
\* a port is held for, and then charged by, one driver at a time.
PortUse(row) ==
    CASE row.status = "available" -> "free"
      [] row.status = "reserved" -> IF row.until = "live" THEN "held" ELSE "stale"
      [] row.status = "occupied" -> "charging"
      [] OTHER -> "out"

PortDriver(p) ==
    CASE charger[p].status = "reserved" -> charger[p].by
      [] charger[p].status = "occupied" -> session[CHOOSE s \in Charging(p) : TRUE].user
      [] OTHER -> NoUser

Ports == INSTANCE StationPorts WITH
            use <- [p \in Port |-> PortUse(charger[p])],
            driver <- [p \in Port |-> PortDriver(p)]

ImplementsStationPorts == Ports!PortsSpec

\* When handlers do not overlap, the status column is the truth: a port is
\* occupied exactly when a session is open at it, and no two sessions are.
StatusIsTrue ==
    \A p \in Port :
        /\ charger[p].status = "occupied" <=> Charging(p) # {}
        /\ \A s, t \in Charging(p) : s = t

\* A user who holds a port has the only claim on it: it is charged at next by a
\* session of theirs ("otherwise the specific port they were told to walk to
\* could get handed to someone else's session instead", sessions.py).
HeldPortGoesToItsHolder ==
    [][\A p \in Port, s \in SessionId :
         (/\ charger[p].status = "reserved" /\ charger[p].until = "live"
          /\ session[s].state = "unused" /\ session'[s].state = "open"
          /\ session'[s].port = p)
         => session'[s].user = charger[p].by]_vars

\* No session is started on a hold that had already lapsed when the handler read
\* it: whoever looks at a port after its hold lapsed finds the hold gone
\* (stations.py: "only on it being gone by the next time anyone looks").
LapsedHoldIsNeverOffered ==
    \A r \in Worker :
        req[r].op = "start" /\ req[r].phase = "commit" => Lapsed(req[r].loaded) = {}

\* entities.py, ChargingBehaviorLog: "One row per completed session".
OneLogPerSession ==
    \A s \in SessionId : session[s].logs <= 1

=============================================================================
