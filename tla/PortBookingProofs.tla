-------------------------- MODULE PortBookingProofs --------------------------
(***************************************************************************)
(* Machine-checked proofs about PortBooking, for any number of ports,      *)
(* drivers, worker threads and sessions: what holds however the handlers   *)
(* interleave, and, in the second half, what their overlap alone takes     *)
(* away.                                                                   *)
(***************************************************************************)
EXTENDS PortBooking, TLAPS

-----------------------------------------------------------------------------
(***************************************************************************)
(* The unit of work                                                        *)
(***************************************************************************)

\* What a handler assigns to a loaded row is again a row, and a flush turns any
\* assigned row into a row of the table.
LEMMA RowTypes ==
    ASSUME NEW row \in Row
    PROVE  /\ row \in AssignedRow
           /\ Freed(row) \in AssignedRow
           /\ Claimed(row) \in AssignedRow
           /\ \A u \in User : Held(row, u) \in AssignedRow
           /\ \A s \in Status : Marked(row, s) \in AssignedRow
BY DEF Row, AssignedRow, Freed, Claimed, Held, Marked, Status, Until

LEMMA FlushType ==
    ASSUME NEW current \in Row, NEW loaded \in Row, NEW assigned \in AssignedRow
    PROVE  Flush(current, loaded, assigned) \in Row
BY DEF Row, AssignedRow, Flush, Column, Until

LEMMA BlankTypes ==
    /\ BlankRow \in Row
    /\ BlankRows \in [Port -> Row]
    /\ BlankRows \in [Port -> AssignedRow]
    /\ \A p \in Port, row \in Row : OneRow(p, row) \in [Port -> Row]
    /\ \A p \in Port, row \in AssignedRow : OneRow(p, row) \in [Port -> AssignedRow]
BY DEF Row, AssignedRow, BlankRow, BlankRows, OneRow, Status, Until

LEMMA ExpiredType ==
    ASSUME NEW rows \in [Port -> Row]
    PROVE  Expired(rows) \in [Port -> AssignedRow]
BY RowTypes DEF Expired

LEMMA NoRequestType == NoRequest \in Request
BY BlankTypes DEF NoRequest, Request, Op, Phase

\* A request put together by Goes is a request, and nothing else changes in req.
LEMMA GoesType ==
    ASSUME TypeOK, NEW r \in Worker, NEW op \in Op, NEW phase \in Phase,
           NEW u \in User \cup {NoUser}, NEW ports \in SUBSET Port,
           NEW loaded \in [Port -> Row], NEW assigned \in [Port -> AssignedRow],
           Goes(r, op, phase, u, ports, loaded, assigned)
    PROVE  req' \in [Worker -> Request]
BY NoRequestType DEF TypeOK, Goes, Become, NoRequest, Request

LEMMA FlushRowsType ==
    ASSUME TypeOK, NEW r \in Worker, FlushRows(r)
    PROVE  charger' \in [Port -> Row]
BY FlushType DEF TypeOK, FlushRows, Request

-----------------------------------------------------------------------------
(***************************************************************************)
(* Type correctness                                                        *)
(***************************************************************************)

LEMMA StationRequestType ==
    ASSUME TypeOK, NEW r \in Worker, StationRequest(r)
    PROVE  req' \in [Worker -> Request] /\ UNCHANGED <<charger, session>>
<1>0. charger \in [Port -> Row] /\ \A p \in Port : charger[p] \in Row
  BY DEF TypeOK
<1>1. CASE Look(r)
  BY <1>0, <1>1, ExpiredType, GoesType DEF Look, Op, Phase
<1>2. ASSUME NEW u \in User, ReserveAny(r, u)
      PROVE  req' \in [Worker -> Request] /\ UNCHANGED <<charger, session>>
  BY <1>0, <1>2, ExpiredType, GoesType DEF ReserveAny, Op, Phase
<1>3. ASSUME NEW u \in User, NEW p \in Port, ReserveLapsed(r, u, p)
      PROVE  req' \in [Worker -> Request] /\ UNCHANGED <<charger, session>>
  BY <1>0, <1>3, RowTypes, BlankTypes, GoesType DEF ReserveLapsed, Op, Phase
<1>4. ASSUME NEW u \in User, NEW p \in Port, Reserve(r, u, p)
      PROVE  req' \in [Worker -> Request] /\ UNCHANGED <<charger, session>>
  BY <1>0, <1>4, RowTypes, BlankTypes, GoesType DEF Reserve, Op, Phase
<1>5. ASSUME NEW u \in User, NEW p \in Port, Cancel(r, u, p)
      PROVE  req' \in [Worker -> Request] /\ UNCHANGED <<charger, session>>
  BY <1>0, <1>5, RowTypes, BlankTypes, GoesType DEF Cancel, Op, Phase
<1>6. QED
  BY <1>1, <1>2, <1>3, <1>4, <1>5 DEF StationRequest

\* The claim of a port by a start request.
LEMMA StartsType ==
    ASSUME TypeOK, NEW r \in Worker, NEW u \in User \cup {NoUser},
           NEW s \in SessionId \cup {NoSession}, NEW p \in Port, Starts(r, u, s, p)
    PROVE  req' \in [Worker -> Request]
<1>1. charger[p] \in Row /\ Claimed(charger[p]) \in AssignedRow
  BY RowTypes DEF TypeOK
<1>2. /\ OneRow(p, charger[p]) \in [Port -> Row]
      /\ OneRow(p, Claimed(charger[p])) \in [Port -> AssignedRow]
  BY <1>1, BlankTypes
<1>3. QED
  BY <1>2, NoRequestType, ZenonT(30) DEF TypeOK, Starts, Become, NoRequest, Request, Op, Phase

LEMMA CompleteType ==
    ASSUME TypeOK, NEW r \in Worker, NEW s \in SessionId, Complete(r, s)
    PROVE  req' \in [Worker -> Request] /\ UNCHANGED <<charger, session>>
<1> DEFINE p == session[s].port
<1>1. session[s] \in Session /\ p \in Port \cup {NoPort}
  BY DEF TypeOK, Session
<1>2. p # NoPort => /\ OneRow(p, charger[p]) \in [Port -> Row]
                    /\ OneRow(p, Completed(charger[p])) \in [Port -> AssignedRow]
  BY <1>1, RowTypes, BlankTypes DEF TypeOK, Completed, Status
<1>3. NoRequest \in Request /\ NoRequest.loaded = BlankRows /\ NoRequest.assigned = BlankRows
  BY NoRequestType DEF NoRequest
<1>4. /\ (IF p = NoPort THEN BlankRows ELSE OneRow(p, charger[p])) \in [Port -> Row]
      /\ (IF p = NoPort THEN BlankRows ELSE OneRow(p, Completed(charger[p])))
            \in [Port -> AssignedRow]
  BY <1>2, BlankTypes
<1>5. PICK q : req' = [req EXCEPT ![r] = q] /\ q \in Request
  <2> DEFINE q == [NoRequest EXCEPT
                    !.op = "complete", !.phase = "commit", !.user = session[s].user,
                    !.ports = {p} \cap Port, !.session = s, !.energy = session[s].energy,
                    !.loaded = IF p = NoPort THEN @ ELSE OneRow(p, charger[p]),
                    !.assigned = IF p = NoPort THEN @ ELSE OneRow(p, Completed(charger[p]))]
  <2>1. req' = [req EXCEPT ![r] = q]
    BY DEF Complete, Become
  <2>2. q \in Request
    BY <1>1, <1>3, <1>4 DEF Request, Session, Op, Phase
  <2>3. QED
    BY <2>1, <2>2
<1>6. QED
  BY <1>5 DEF TypeOK, Complete

LEMMA SessionRequestType ==
    ASSUME TypeOK, NEW r \in Worker, SessionRequest(r)
    PROVE  req' \in [Worker -> Request] /\ UNCHANGED <<charger, session>>
<1>1. ASSUME NEW u \in User, NEW s \in SessionId, StartAtStation(r, u, s)
      PROVE  req' \in [Worker -> Request] /\ UNCHANGED <<charger, session>>
  <2>1. CASE \E p \in Port : Lowest(p, HeldBy(u)) /\ Starts(r, u, s, p)
    BY <1>1, <2>1, StartsType DEF StartAtStation
  <2>2. CASE Become(r, [NoRequest EXCEPT !.op = "start", !.phase = "select",
                                         !.user = u, !.session = s])
    BY <1>1, <2>2, NoRequestType
       DEF StartAtStation, TypeOK, Become, NoRequest, Request, Op, Phase
  <2>3. QED
    BY <1>1, <2>1, <2>2 DEF StartAtStation
<1>2. QED
  BY <1>1, CompleteType DEF SessionRequest

LEMMA StatusRequestType ==
    ASSUME TypeOK, NEW r \in Worker, StatusRequest(r)
    PROVE  req' \in [Worker -> Request] /\ UNCHANGED <<charger, session>>
<1>0. /\ charger \in [Port -> Row]
      /\ \A p \in Port : /\ charger[p] \in Row
                         /\ charger[p] \in AssignedRow
                         /\ \A s \in Status : Marked(charger[p], s) \in AssignedRow
  BY RowTypes DEF TypeOK
<1>1. CASE Fault(r)
  <2> DEFINE new == [p \in Port |-> IF p \in Available THEN Marked(charger[p], "maintenance")
                                    ELSE charger[p]]
  <2>1. new \in [Port -> AssignedRow]
    BY <1>0 DEF Status
  <2>2. Goes(r, "fault", "commit", NoUser, Port, charger, new)
    BY <1>1 DEF Fault
  <2>3. QED
    BY <1>0, <1>1, <2>1, <2>2, GoesType DEF Fault, Op, Phase
<1>2. ASSUME NEW status \in ScenarioStatus, Scenario(r, status)
      PROVE  req' \in [Worker -> Request] /\ UNCHANGED <<charger, session>>
  <2> DEFINE new == [p \in Port |-> Marked(charger[p], status)]
  <2>1. new \in [Port -> AssignedRow]
    BY <1>0 DEF Status, ScenarioStatus
  <2>2. Goes(r, "scenario", "commit", NoUser, Port, charger, new)
    BY <1>2 DEF Scenario
  <2>3. QED
    BY <1>0, <1>2, <2>1, <2>2, GoesType DEF Scenario, Op, Phase
<1>3. ASSUME NEW p \in Port, NEW status \in PatchStatus, UpdateCharger(r, p, status)
      PROVE  req' \in [Worker -> Request] /\ UNCHANGED <<charger, session>>
  BY <1>0, <1>3, BlankTypes, PatchAssumption, GoesType DEF UpdateCharger, Status, Op, Phase
<1>4. QED
  BY <1>1, <1>2, <1>3 DEF StatusRequest

LEMMA EndedType ==
    ASSUME NEW row \in Session, NEW energy \in BOOLEAN
    PROVE  Ended(row, energy) \in Session
<1>1. /\ row.ledger + 1 \in Nat /\ row.logs + 1 \in Nat
      /\ row.ledger \in Nat /\ row.logs \in Nat
  BY DEF Session
<1>2. /\ (IF energy THEN row.ledger + 1 ELSE row.ledger) \in Nat
      /\ (IF row.port # NoPort THEN row.logs + 1 ELSE row.logs) \in Nat
  BY <1>1
<1> DEFINE ledger == IF energy THEN row.ledger + 1 ELSE row.ledger
           logs == IF row.port # NoPort THEN row.logs + 1 ELSE row.logs
<1>3. Ended(row, energy) = [row EXCEPT !.state = "ended", !.ledger = ledger, !.logs = logs]
  BY DEF Ended
<1>4. ledger \in Nat /\ logs \in Nat
  BY <1>2
<1> HIDE DEF ledger, logs
<1>5. QED
  BY <1>3, <1>4 DEF Session

LEMMA ContinueType ==
    ASSUME TypeOK, NEW r \in Worker, Continue(r)
    PROVE  TypeOK'
<1> DEFINE q == req[r]
<1>0. q \in Request /\ charger \in [Port -> Row]
  BY DEF TypeOK
<1>1. CASE ReserveSelected(r)
  <2>1. ASSUME NEW p \in q.ports,
               Goes(r, q.op, "commit", q.user, {p},
                    OneRow(p, Selected(r, p)), OneRow(p, Held(Selected(r, p), q.user)))
        PROVE  req' \in [Worker -> Request]
    <3>1. p \in Port /\ Selected(r, p) \in Row
      BY <1>0 DEF Request, Selected
    <3>2. q.user \in User \cup {NoUser} /\ Held(Selected(r, p), q.user) \in AssignedRow
      BY <1>0, <3>1 DEF Request, Held, Row, AssignedRow, Status, Until
    <3>3. QED
      BY <1>0, <2>1, <3>1, <3>2, BlankTypes, GoesType DEF Request, Phase
  <2>2. ASSUME Become(r, NoRequest)
        PROVE  req' \in [Worker -> Request]
    BY <2>2, NoRequestType DEF TypeOK, Become
  <2>3. QED
    BY <1>1, <2>1, <2>2 DEF ReserveSelected, TypeOK
<1>2. CASE StartSelected(r)
  <2>1. ASSUME NEW p \in Port, Starts(r, q.user, q.session, p)
        PROVE  req' \in [Worker -> Request]
    BY <1>0, <2>1, StartsType DEF Request
  <2>2. ASSUME Become(r, NoRequest)
        PROVE  req' \in [Worker -> Request]
    BY <2>2, NoRequestType DEF TypeOK, Become
  <2>3. QED
    BY <1>2, <2>1, <2>2 DEF StartSelected, TypeOK
<1>3. CASE CommitExpiry(r)
  <2>1. charger' \in [Port -> Row]
    BY <1>3, FlushRowsType DEF CommitExpiry
  <2>2. ASSUME Become(r, NoRequest)
        PROVE  req' \in [Worker -> Request]
    BY <2>2, NoRequestType DEF TypeOK, Become
  <2>3. ASSUME Goes(r, q.op, "reselect", q.user, q.ports, BlankRows, BlankRows)
        PROVE  req' \in [Worker -> Request]
    BY <1>0, <2>3, BlankTypes, GoesType DEF Request, Phase
  <2>4. QED
    BY <1>3, <2>1, <2>2, <2>3 DEF CommitExpiry, TypeOK
<1>4. CASE CommitRows(r)
  BY <1>4, FlushRowsType, NoRequestType DEF CommitRows, TypeOK, Become
<1>5. CASE CommitStart(r)
  <2>1. PICK p \in q.ports : session' = [session EXCEPT ![q.session] = OpenSession(q.user, p)]
    BY <1>5 DEF CommitStart
  <2>2. OpenSession(q.user, p) \in Session
    BY <1>0 DEF OpenSession, UnusedSession, Session, Request
  <2>3. session' \in [SessionId -> Session]
    BY <2>1, <2>2 DEF TypeOK
  <2>4. QED
    BY <1>5, <2>3, FlushRowsType, NoRequestType DEF CommitStart, TypeOK, Become
<1>6. CASE CommitComplete(r)
  <2>1. session' = [session EXCEPT ![q.session] = Ended(@, q.energy)]
    BY <1>6 DEF CommitComplete
  <2>2. \A row \in Session : Ended(row, q.energy) \in Session
    BY EndedType, <1>0 DEF Request
  <2>3. session' \in [SessionId -> Session]
    BY <2>1, <2>2 DEF TypeOK
  <2>4. QED
    BY <1>6, <2>3, FlushRowsType, NoRequestType DEF CommitComplete, TypeOK, Become
<1>7. QED
  BY <1>1, <1>2, <1>3, <1>4, <1>5, <1>6 DEF Continue

LEMMA OneStepRequestType ==
    ASSUME TypeOK, OneStepRequest
    PROVE  TypeOK'
<1>1. ASSUME NEW u \in User, NEW s \in SessionId, NEW p \in Port \cup {NoPort},
             StartSession(u, s, p)
      PROVE  TypeOK'
  BY <1>1 DEF StartSession, OpenSession, UnusedSession, Session, TypeOK
<1>2. ASSUME NEW s \in SessionId, UpdateEnergy(s)
      PROVE  TypeOK'
  BY <1>2 DEF UpdateEnergy, Session, TypeOK
<1>3. ASSUME NEW s \in SessionId, NEW state \in {"open", "ended"}, UpdateEndTime(s, state)
      PROVE  TypeOK'
  BY <1>3 DEF UpdateEndTime, Session, TypeOK
<1>4. ASSUME NEW p \in Port, NEW status \in PatchStatus, UpdateRow(p, status)
      PROVE  TypeOK'
  BY <1>4, PatchAssumption DEF UpdateRow, Row, Status, TypeOK
<1>5. QED
  BY <1>1, <1>2, <1>3, <1>4 DEF OneStepRequest

\* Every row of the tables and every request in flight keeps its type: no
\* interleaving writes a status or an expiry outside the vocabulary.
THEOREM TypeCorrect == Spec => []TypeOK
<1>1. Init => TypeOK
  BY BlankTypes, NoRequestType
     DEF Init, TypeOK, UnusedSession, Session
<1>2. TypeOK /\ [Next]_vars => TypeOK'
  <2> SUFFICES ASSUME TypeOK, [Next]_vars PROVE TypeOK'
    OBVIOUS
  <2>1. ASSUME NEW r \in Worker,
               StationRequest(r) \/ SessionRequest(r) \/ StatusRequest(r)
        PROVE  TypeOK'
    BY <2>1, StationRequestType, SessionRequestType, StatusRequestType DEF TypeOK
  <2>2. ASSUME NEW r \in Worker, Continue(r)
        PROVE  TypeOK'
    BY <2>2, ContinueType
  <2>3. ASSUME NEW r \in Worker, Abort(r)
        PROVE  TypeOK'
    BY <2>3, NoRequestType DEF Abort, Become, TypeOK
  <2>4. CASE OneStepRequest
    BY <2>4, OneStepRequestType
  <2>5. ASSUME NEW p \in Port, Lapse(p)
        PROVE  TypeOK'
    BY <2>5 DEF Lapse, Row, Until, TypeOK
  <2>6. CASE UNCHANGED vars
    BY <2>6 DEF vars, TypeOK
  <2>7. QED
    BY <2>1, <2>2, <2>3, <2>4, <2>5, <2>6 DEF Next
<1>3. QED
  BY <1>1, <1>2, PTL DEF Spec

-----------------------------------------------------------------------------
(***************************************************************************)
(* What requests in flight are about to write                              *)
(***************************************************************************)

\* Request q changes port p in one of the handlers' ways, or not at all.
Write(q, p) ==
    LET old == q.loaded[p]
        new == q.assigned[p]
    IN  \/ new = old
        \/ old.status = "reserved" /\ new = Freed(old)
        \/ \E u \in User \cup {NoUser} : new = Held(old, u)
        \/ /\ new = Claimed(old) /\ old.status \in {"available", "reserved"}
           /\ q.op = "start" /\ q.phase = "commit" /\ q.ports = {p}
        \/ q.op = "complete" /\ new = Completed(old)
        \/ /\ \E s \in Status \ {"reserved"} : new = Marked(old, s)
           /\ \/ q.op = "scenario"
              \/ q.op = "fault" /\ new.status \in {old.status, "maintenance"}
        \/ /\ \E s \in Status : new = Marked(old, s)
           /\ q.op = "patch_charger" /\ q.phase = "commit" /\ p \in q.ports

Works == \A r \in Worker, p \in Port : Write(req[r], p)

\* What Goes makes of the requests.
LEMMA GoesEffect ==
    ASSUME TypeOK, NEW r \in Worker, NEW op, NEW phase, NEW u, NEW ports,
           NEW loaded, NEW assigned, Goes(r, op, phase, u, ports, loaded, assigned)
    PROVE  /\ req'[r].loaded = loaded /\ req'[r].assigned = assigned
           /\ req'[r].op = op /\ req'[r].phase = phase
           /\ req'[r].user = u /\ req'[r].ports = ports
           /\ req'[r].session = NoSession
           /\ \A w \in Worker \ {r} : req'[w] = req[w]
BY DEF TypeOK, Goes, Become, NoRequest

LEMMA DroppedEffect ==
    ASSUME TypeOK, NEW r \in Worker, Become(r, NoRequest)
    PROVE  /\ req'[r] = NoRequest
           /\ \A w \in Worker \ {r} : req'[w] = req[w]
           /\ \A p \in Port : Write(NoRequest, p)
BY DEF TypeOK, Become, NoRequest, Write

LEMMA StartsEffect ==
    ASSUME TypeOK, NEW r \in Worker, NEW u, NEW s, NEW p \in Port, Starts(r, u, s, p)
    PROVE  /\ req'[r].loaded = OneRow(p, charger[p])
           /\ req'[r].assigned = OneRow(p, Claimed(charger[p]))
           /\ req'[r].op = "start" /\ req'[r].phase = "commit"
           /\ req'[r].user = u /\ req'[r].ports = {p} /\ req'[r].session = s
           /\ \A w \in Worker \ {r} : req'[w] = req[w]
BY DEF TypeOK, Starts, Become, NoRequest

LEMMA OneRowAt ==
    ASSUME NEW p \in Port, NEW row
    PROVE  /\ OneRow(p, row)[p] = row
           /\ \A q \in Port \ {p} : OneRow(p, row)[q] = BlankRow
BY DEF OneRow, BlankRows

\* The requests that begin at a station write what Write allows.
LEMMA StationRequestWrites ==
    ASSUME TypeOK, Works, NEW r \in Worker, StationRequest(r)
    PROVE  Works'
<1>0. SUFFICES ASSUME NEW w \in Worker, NEW p \in Port PROVE Write(req[w], p)'
  BY DEF Works
<1>1. ASSUME NEW op, NEW phase, NEW u, NEW ports,
             Goes(r, op, phase, u, ports, charger, Expired(charger))
      PROVE  Write(req[w], p)'
  <2>1. /\ req'[r].loaded[p] = charger[p]
        /\ req'[r].assigned[p] = Expired(charger)[p]
        /\ w # r => req'[w] = req[w]
    BY <1>1, GoesEffect
  <2>2. \/ Expired(charger)[p] = charger[p]
        \/ charger[p].status = "reserved" /\ Expired(charger)[p] = Freed(charger[p])
    BY DEF Expired, Lapsed
  <2>3. QED
    BY <2>1, <2>2 DEF Write, Works
<1>2. ASSUME NEW u \in User, NEW v \in Port, NEW op, NEW phase, NEW new,
             Goes(r, op, phase, u, {v}, OneRow(v, charger[v]), OneRow(v, new)),
             \/ charger[v].status = "reserved" /\ new = Freed(charger[v])
             \/ new = Held(charger[v], u)
      PROVE  Write(req[w], p)'
  <2>1. /\ req'[r].loaded = OneRow(v, charger[v])
        /\ req'[r].assigned = OneRow(v, new)
        /\ w # r => req'[w] = req[w]
    BY <1>2, GoesEffect
  <2>2. QED
    BY <1>2, <2>1, OneRowAt DEF Write, Works
<1>3. CASE Look(r)
  BY <1>1, <1>3 DEF Look
<1>4. ASSUME NEW u \in User, ReserveAny(r, u)
      PROVE  Write(req[w], p)'
  BY <1>1, <1>4 DEF ReserveAny
<1>5. ASSUME NEW u \in User, NEW v \in Port,
             ReserveLapsed(r, u, v) \/ Reserve(r, u, v) \/ Cancel(r, u, v)
      PROVE  Write(req[w], p)'
  BY <1>2, <1>5 DEF ReserveLapsed, Reserve, Cancel, Lapsed, HeldBy
<1>6. QED
  BY <1>3, <1>4, <1>5 DEF StationRequest

LEMMA SessionRequestWrites ==
    ASSUME TypeOK, Works, NEW r \in Worker, SessionRequest(r)
    PROVE  Works'
<1>0. SUFFICES ASSUME NEW w \in Worker, NEW p \in Port PROVE Write(req[w], p)'
  BY DEF Works
<1>1. ASSUME NEW u \in User, NEW s \in SessionId, StartAtStation(r, u, s)
      PROVE  Write(req[w], p)'
  <2>1. ASSUME NEW v \in Port, Lowest(v, HeldBy(u)), Starts(r, u, s, v)
        PROVE  Write(req[w], p)'
    BY <2>1, StartsEffect, OneRowAt DEF Write, Works, Lowest, HeldBy
  <2>2. ASSUME Become(r, [NoRequest EXCEPT !.op = "start", !.phase = "select",
                                           !.user = u, !.session = s])
        PROVE  Write(req[w], p)'
    BY <2>2 DEF Become, TypeOK, NoRequest, Write, Works
  <2>3. QED
    BY <1>1, <2>1, <2>2 DEF StartAtStation
<1>2. ASSUME NEW s \in SessionId, Complete(r, s)
      PROVE  Write(req[w], p)'
  <2>1. /\ req'[r].op = "complete"
        /\ \/ session[s].port = NoPort /\ req'[r].loaded = BlankRows
                                       /\ req'[r].assigned = BlankRows
           \/ /\ session[s].port # NoPort
              /\ req'[r].loaded = OneRow(session[s].port, charger[session[s].port])
              /\ req'[r].assigned =
                    OneRow(session[s].port, Completed(charger[session[s].port]))
        /\ w # r => req'[w] = req[w]
    BY <1>2 DEF Complete, Become, TypeOK, NoRequest
  <2>2. session[s].port \in Port \cup {NoPort}
    BY DEF TypeOK, Session
  <2>3. QED
    BY <2>1, <2>2, OneRowAt DEF Write, Works
<1>3. QED
  BY <1>1, <1>2 DEF SessionRequest

LEMMA StatusRequestWrites ==
    ASSUME TypeOK, Works, NEW r \in Worker, StatusRequest(r)
    PROVE  Works'
<1>0. SUFFICES ASSUME NEW w \in Worker, NEW p \in Port PROVE Write(req[w], p)'
  BY DEF Works
<1>1. ASSUME Fault(r)
      PROVE  Write(req[w], p)'
  <2> DEFINE new == [v \in Port |-> IF v \in Available THEN Marked(charger[v], "maintenance")
                                    ELSE charger[v]]
  <2>1. Goes(r, "fault", "commit", NoUser, Port, charger, new)
    BY <1>1 DEF Fault
  <2>2. /\ req'[r].loaded = charger /\ req'[r].assigned = new /\ req'[r].op = "fault"
        /\ w # r => req'[w] = req[w]
    BY <2>1, GoesEffect
  <2>3. \/ new[p] = charger[p]
        \/ new[p] = Marked(charger[p], "maintenance") /\ new[p].status = "maintenance"
    BY DEF Marked, TypeOK, Row
  <2>4. QED
    BY <2>2, <2>3 DEF Write, Works, Status
<1>2. ASSUME NEW s \in ScenarioStatus, Scenario(r, s)
      PROVE  Write(req[w], p)'
  <2> DEFINE new == [v \in Port |-> Marked(charger[v], s)]
  <2>1. Goes(r, "scenario", "commit", NoUser, Port, charger, new)
    BY <1>2 DEF Scenario
  <2>2. /\ req'[r].loaded = charger /\ req'[r].assigned = new /\ req'[r].op = "scenario"
        /\ w # r => req'[w] = req[w]
    BY <2>1, GoesEffect
  <2>3. new[p] = Marked(charger[p], s) /\ s \in Status \ {"reserved"}
    BY DEF Status, ScenarioStatus
  <2>4. QED
    BY <2>2, <2>3 DEF Write, Works
<1>3. ASSUME NEW v \in Port, NEW s \in PatchStatus, UpdateCharger(r, v, s)
      PROVE  Write(req[w], p)'
  <2>1. Goes(r, "patch_charger", "commit", NoUser, {v},
             OneRow(v, charger[v]), OneRow(v, Marked(charger[v], s)))
    BY <1>3 DEF UpdateCharger
  <2>2. /\ req'[r].loaded = OneRow(v, charger[v])
        /\ req'[r].assigned = OneRow(v, Marked(charger[v], s))
        /\ req'[r].op = "patch_charger" /\ req'[r].phase = "commit" /\ req'[r].ports = {v}
        /\ w # r => req'[w] = req[w]
    BY <2>1, GoesEffect
  <2>3. s \in Status
    BY PatchAssumption DEF Status
  <2>4. QED
    BY <2>2, <2>3, OneRowAt DEF Write, Works
<1>4. QED
  BY <1>1, <1>2, <1>3 DEF StatusRequest

LEMMA ContinueWrites ==
    ASSUME TypeOK, Works, NEW r \in Worker, Continue(r)
    PROVE  Works'
<1>0. SUFFICES ASSUME NEW w \in Worker, NEW p \in Port PROVE Write(req[w], p)'
  BY DEF Works
<1>1. ASSUME Become(r, NoRequest)
      PROVE  Write(req[w], p)'
  BY <1>1, DroppedEffect DEF Write, Works
<1>2. CASE ReserveSelected(r)
  <2>1. ASSUME NEW v \in req[r].ports,
               Goes(r, req[r].op, "commit", req[r].user, {v}, OneRow(v, Selected(r, v)),
                    OneRow(v, Held(Selected(r, v), req[r].user)))
        PROVE  Write(req[w], p)'
    <3>1. v \in Port /\ req[r].user \in User \cup {NoUser}
      BY DEF TypeOK, Request
    <3>2. /\ req'[r].loaded = OneRow(v, Selected(r, v))
          /\ req'[r].assigned = OneRow(v, Held(Selected(r, v), req[r].user))
          /\ w # r => req'[w] = req[w]
      BY <2>1, GoesEffect
    <3>3. QED
      BY <3>1, <3>2, OneRowAt DEF Write, Works
  <2>2. QED
    BY <1>1, <1>2, <2>1 DEF ReserveSelected
<1>3. CASE StartSelected(r)
  <2>1. ASSUME NEW v \in Port, Lowest(v, Available),
               Starts(r, req[r].user, req[r].session, v)
        PROVE  Write(req[w], p)'
    BY <2>1, StartsEffect, OneRowAt DEF Write, Works, Lowest, Available
  <2>2. QED
    BY <1>1, <1>3, <2>1 DEF StartSelected
<1>4. CASE CommitExpiry(r)
  <2>1. ASSUME Goes(r, req[r].op, "reselect", req[r].user, req[r].ports,
                    BlankRows, BlankRows)
        PROVE  Write(req[w], p)'
    BY <2>1, GoesEffect DEF Write, Works
  <2>2. QED
    BY <1>1, <1>4, <2>1 DEF CommitExpiry
<1>5. CASE CommitRows(r) \/ CommitStart(r) \/ CommitComplete(r)
  BY <1>1, <1>5 DEF CommitRows, CommitStart, CommitComplete
<1>6. QED
  BY <1>2, <1>3, <1>4, <1>5 DEF Continue

LEMMA NextWrites == TypeOK /\ Works /\ [Next]_vars => Works'
<1> SUFFICES ASSUME TypeOK, Works, [Next]_vars PROVE Works'
  OBVIOUS
<1>1. ASSUME NEW r \in Worker,
             StationRequest(r) \/ SessionRequest(r) \/ StatusRequest(r) \/ Continue(r)
      PROVE  Works'
  BY <1>1, StationRequestWrites, SessionRequestWrites, StatusRequestWrites, ContinueWrites
<1>2. ASSUME NEW r \in Worker, Abort(r)
      PROVE  Works'
  BY <1>2, DroppedEffect DEF Abort, Write, Works
<1>3. ASSUME UNCHANGED req
      PROVE  Works'
  BY <1>3 DEF Write, Works
<1>4. OneStepRequest => UNCHANGED req
  BY DEF OneStepRequest, StartSession, UpdateEnergy, UpdateEndTime, UpdateRow
<1>5. ASSUME NEW p \in Port, Lapse(p)
      PROVE  UNCHANGED req
  BY <1>5 DEF Lapse
<1>6. QED
  BY <1>1, <1>2, <1>3, <1>4, <1>5 DEF Next, vars

LEMMA WorksCorrect == Spec => []Works
<1>1. Init => Works
  BY DEF Init, Works, Write, NoRequest
<1>2. QED
  BY <1>1, NextWrites, TypeCorrect, PTL DEF Spec

-----------------------------------------------------------------------------
(***************************************************************************)
(* Only operators strand a port                                            *)
(***************************************************************************)

\* Flushing any write but an operator's leaves the row with an expiry if it is
\* reserved, whatever other commits made of the row since the request loaded it.
LEMMA FlushKeepsExpiry ==
    ASSUME TypeOK, NEW r \in Worker, NEW p \in Port, Write(req[r], p), ~Stranded(p),
           ~(req[r].op = "patch_charger" /\ req[r].phase = "commit" /\ p \in req[r].ports),
           NEW row, row = Flush(charger[p], req[r].loaded[p], req[r].assigned[p]),
           row.status = "reserved"
    PROVE  row.until # "none"
<1> DEFINE old == req[r].loaded[p]
           new == req[r].assigned[p]
<1>1. old \in Row /\ charger[p] \in Row
  BY DEF TypeOK, Request
<1>2. CASE new = old
  BY <1>1, <1>2 DEF Stranded, Flush, Column, Row, Until
<1>3. CASE old.status = "reserved" /\ new = Freed(old)
  BY <1>1, <1>3 DEF Freed, Flush, Column, Row
<1>4. CASE \E u \in User \cup {NoUser} : new = Held(old, u)
  BY <1>1, <1>4 DEF Held, Flush, Column, Row
<1>5. CASE new = Claimed(old) /\ old.status \in {"available", "reserved"}
  BY <1>1, <1>5 DEF Claimed, Flush, Column, Row
<1>6. CASE \E s \in Status \ {"reserved"} : new = Marked(old, s)
  BY <1>1, <1>6 DEF Stranded, Marked, Flush, Column, Row, Until
<1>7. QED
  BY <1>2, <1>3, <1>4, <1>5, <1>6 DEF Write, Completed, Status

\* Only the two operations of an operator change a row other than by a flush of
\* what Write allows; time alone never takes an expiry away.
LEMMA OnlyOperatorsStep ==
    ASSUME TypeOK, Works, [Next]_vars, NEW p \in Port, ~Stranded(p), Stranded(p)'
    PROVE  OperatorWrites(p)
<1>1. charger[p] \in Row /\ charger'[p].status = "reserved" /\ charger'[p].until = "none"
  BY DEF TypeOK, Stranded
<1>2. ASSUME UNCHANGED charger
      PROVE  FALSE
  BY <1>1, <1>2 DEF Stranded
<1>3. ASSUME NEW r \in Worker, FlushRows(r)
      PROVE  req[r].op = "patch_charger" /\ req[r].phase = "commit" /\ p \in req[r].ports
  <2>1. charger'[p] = Flush(charger[p], req[r].loaded[p], req[r].assigned[p])
    BY <1>3 DEF FlushRows
  <2>2. QED
    BY <1>1, <2>1, FlushKeepsExpiry DEF Works
<1>4. ASSUME NEW r \in Worker, Continue(r)
      PROVE  OperatorWrites(p)
  <2>1. UNCHANGED charger \/ FlushRows(r)
    BY <1>4 DEF Continue, ReserveSelected, StartSelected, CommitExpiry, CommitRows,
                CommitStart, CommitComplete
  <2>2. req[r].op = "patch_charger" /\ req[r].phase = "commit" /\ p \in req[r].ports
    BY <1>2, <1>3, <2>1
  <2>3. CommitRows(r)
    BY <1>2, <1>4, <2>2 DEF Continue, ReserveSelected, StartSelected, CommitExpiry,
                            CommitStart, CommitComplete
  <2>4. QED
    BY <2>2, <2>3 DEF OperatorWrites
<1>5. ASSUME NEW v \in Port, NEW s \in PatchStatus, UpdateRow(v, s)
      PROVE  OperatorWrites(p)
  <2>1. v # p => charger'[p] = charger[p]
    BY <1>5 DEF UpdateRow, TypeOK
  <2>2. v = p
    BY <1>1, <2>1 DEF Stranded
  <2>3. QED
    BY <1>5, <2>2 DEF OperatorWrites
<1>6. ASSUME NEW v \in Port, Lapse(v)
      PROVE  FALSE
  <2>1. /\ v # p => charger'[p] = charger[p]
        /\ v = p => charger'[p].until = "lapsed"
    BY <1>1, <1>6 DEF Lapse, TypeOK, Row
  <2>2. QED
    BY <1>1, <2>1 DEF Stranded
<1>7. ASSUME NEW r \in Worker,
             StationRequest(r) \/ SessionRequest(r) \/ StatusRequest(r) \/ Abort(r)
      PROVE  UNCHANGED charger
  BY <1>7, StationRequestType, SessionRequestType, StatusRequestType DEF Abort
<1>8. OneStepRequest =>
        UNCHANGED charger \/ \E v \in Port, s \in PatchStatus : UpdateRow(v, s)
  BY DEF OneStepRequest, StartSession, UpdateEnergy, UpdateEndTime
<1>9. UNCHANGED vars => UNCHANGED charger
  BY DEF vars
<1>10. QED
  BY <1>2, <1>4, <1>5, <1>6, <1>7, <1>8, <1>9 DEF Next

\* Whatever requests interleave and wherever they are aborted, no step but an
\* operator's write leaves a port on hold without an expiry, so every hold a
\* driver places can be freed by the next reader after it lapses.
THEOREM HoldsExpire == Spec => OnlyOperatorsStrandAPort
<1>1. TypeOK /\ Works /\ [Next]_vars =>
        [\A p \in Port : ~Stranded(p) /\ Stranded(p)' => OperatorWrites(p)]_vars
  BY OnlyOperatorsStep
<1>2. QED
  BY <1>1, TypeCorrect, WorksCorrect, PTL DEF Spec, OnlyOperatorsStrandAPort

-----------------------------------------------------------------------------
(***************************************************************************)
(* Every occupied port has an open session                                 *)
(***************************************************************************)

\* The environments in which only the handlers of a session move a port in and
\* out of "occupied": no operator, no scenario, no PATCHed end_time.
OnlyHandlers ==
    Endpoints \cap {"scenario", "patch_charger", "update_row", "update_end_time"} = {}

\* A start request will use a session row that nobody else knows of.
StartOwnsSession ==
    \A r \in Worker : req[r].op = "start" =>
        /\ req[r].session \in SessionId
        /\ session[req[r].session].state = "unused"
        /\ \A w \in Worker \ {r} : req[w].session # req[r].session

\* A completion works on a session that exists and will free its port.
CompleteKnowsPort ==
    \A r \in Worker : req[r].op = "complete" =>
        /\ req[r].session \in SessionId
        /\ session[req[r].session].state # "unused"
        /\ session[req[r].session].port \in Port =>
              req[r].assigned[session[req[r].session].port].status = "available"

OpsAsked ==
    \A r \in Worker :
        /\ req[r].op \in Endpoints \cup {"none"}
        /\ req[r].phase = "expire" => req[r].op \notin {"start", "complete"}

RequestInv == StartOwnsSession /\ CompleteKnowsPort /\ OpsAsked

\* Session s attends port p: it is open there, and no completion of it believes
\* that the port has been freed already and so would leave it as it is.
Attends(s, p) ==
    /\ session[s].state = "open" /\ session[s].port = p
    /\ \A r \in Worker : req[r].op = "complete" /\ req[r].session = s
                          => req[r].loaded[p].status # "available"

Attended == \A p \in Port : charger[p].status = "occupied" => \E s \in SessionId : Attends(s, p)

\* Worker r's request becomes one that neither starts nor completes a session.
Plain(r) ==
    /\ \A w \in Worker \ {r} : req'[w] = req[w]
    /\ req'[r].session = NoSession /\ req'[r].op \notin {"start", "complete"}
    /\ req'[r].op \in Endpoints \cup {"none"}

\* Such a request disturbs neither part of the invariant.
LEMMA PlainRequest ==
    ASSUME TypeOK, RequestInv, NEW r \in Worker, Plain(r), UNCHANGED session
    PROVE  /\ RequestInv'
           /\ \A s \in SessionId, p \in Port : Attends(s, p) => Attends(s, p)'
BY ConstantsAssumption
   DEF RequestInv, StartOwnsSession, CompleteKnowsPort, OpsAsked, Attends, Plain

\* A flush leaves a port occupied only if it was and the request keeps its status,
\* or if the request claims it for the session it starts.
LEMMA FlushOccupied ==
    ASSUME TypeOK, OnlyHandlers, OpsAsked, NEW r \in Worker, NEW p \in Port,
           Write(req[r], p),
           Flush(charger[p], req[r].loaded[p], req[r].assigned[p]).status = "occupied"
    PROVE  \/ /\ charger[p].status = "occupied"
              /\ req[r].assigned[p].status = req[r].loaded[p].status
           \/ req[r].op = "start" /\ req[r].phase = "commit" /\ req[r].ports = {p}
<1> DEFINE old == req[r].loaded[p]
           new == req[r].assigned[p]
<1>1. old \in Row /\ charger[p] \in Row
  BY DEF TypeOK, Request
<1>2. CASE new = old
  BY <1>2 DEF Flush, Column
<1>3. CASE old.status = "reserved" /\ new = Freed(old)
  BY <1>1, <1>3 DEF Freed, Flush, Column, Row
<1>4. CASE \E u \in User \cup {NoUser} : new = Held(old, u)
  BY <1>1, <1>4 DEF Held, Flush, Column, Row
<1>5. CASE req[r].op = "complete" /\ new = Completed(old)
  BY <1>1, <1>5 DEF Completed, Marked, Flush, Column, Row
<1>6. CASE req[r].op = "fault" /\ new.status \in {old.status, "maintenance"}
  BY <1>1, <1>6 DEF Flush, Column
<1>7. req[r].op \notin {"scenario", "patch_charger"}
  BY DEF OpsAsked, OnlyHandlers
<1>8. QED
  BY <1>2, <1>3, <1>4, <1>5, <1>6, <1>7 DEF Write

LEMMA StationRequestInv ==
    ASSUME TypeOK, RequestInv, Attended, NEW r \in Worker,
           StationRequest(r) \/ StatusRequest(r) \/ Abort(r)
    PROVE  RequestInv' /\ Attended'
<1>1. UNCHANGED <<charger, session>>
  BY StationRequestType, StatusRequestType DEF Abort
<1>2. Plain(r)
  <2>1. CASE Look(r)
    BY <2>1, GoesEffect DEF Look, Begin, Plain
  <2>2. ASSUME NEW u \in User, ReserveAny(r, u)
        PROVE  Plain(r)
    BY <2>2, GoesEffect DEF ReserveAny, Begin, Plain
  <2>3. ASSUME NEW u \in User, NEW p \in Port,
               ReserveLapsed(r, u, p) \/ Reserve(r, u, p) \/ Cancel(r, u, p)
        PROVE  Plain(r)
    BY <2>3, GoesEffect DEF ReserveLapsed, Reserve, Cancel, Begin, Plain
  <2>4. CASE Fault(r)
    BY <2>4, GoesEffect DEF Fault, Begin, Plain
  <2>5. ASSUME NEW s \in ScenarioStatus, Scenario(r, s)
        PROVE  Plain(r)
    BY <2>5, GoesEffect DEF Scenario, Begin, Plain
  <2>6. ASSUME NEW p \in Port, NEW s \in PatchStatus, UpdateCharger(r, p, s)
        PROVE  Plain(r)
    BY <2>6, GoesEffect DEF UpdateCharger, Begin, Plain
  <2>7. CASE Abort(r)
    <3>1. req'[r] = NoRequest /\ \A w \in Worker \ {r} : req'[w] = req[w]
      BY <2>7, DroppedEffect DEF Abort
    <3>2. NoRequest.session = NoSession /\ NoRequest.op = "none"
      BY DEF NoRequest
    <3>3. QED
      BY <3>1, <3>2 DEF Plain
  <2>8. QED
    BY <2>1, <2>2, <2>3, <2>4, <2>5, <2>6, <2>7 DEF StationRequest, StatusRequest
<1>3. QED
  BY <1>1, <1>2, PlainRequest DEF Attended

\* The other requests: session rows are theirs, or the port's release is certain.
LEMMA SessionRequestInv ==
    ASSUME TypeOK, RequestInv, Attended, OnlyHandlers,
           NEW r \in Worker, SessionRequest(r)
    PROVE  RequestInv' /\ Attended'
<1>1. UNCHANGED <<charger, session>>
  BY SessionRequestType
<1>2. ASSUME NEW u \in User, NEW s \in SessionId, StartAtStation(r, u, s)
      PROVE  RequestInv' /\ Attended'
  <2> DEFINE Begun == /\ req'[r].op = "start" /\ req'[r].session = s
                     /\ req'[r].phase # "expire"
                     /\ \A w \in Worker \ {r} : req'[w] = req[w]
  <2>1. Begun
    <3>1. ASSUME NEW p \in Port, Starts(r, u, s, p)
          PROVE  Begun
      BY <3>1, StartsEffect
    <3>2. ASSUME Become(r, [NoRequest EXCEPT !.op = "start", !.phase = "select",
                                             !.user = u, !.session = s])
          PROVE  Begun
      BY <3>2 DEF Become, TypeOK, NoRequest
    <3>3. QED
      BY <1>2, <3>1, <3>2 DEF StartAtStation
  <2>2. "start" \in Endpoints /\ Unclaimed(s)
    BY <1>2 DEF StartAtStation, Begin
  <2>3. RequestInv'
    BY <1>1, <2>1, <2>2, ConstantsAssumption
       DEF RequestInv, StartOwnsSession, CompleteKnowsPort, OpsAsked, Unclaimed
  <2>4. \A v \in SessionId, p \in Port : Attends(v, p) => Attends(v, p)'
    BY <1>1, <2>1 DEF Attends
  <2>5. QED
    BY <1>1, <2>3, <2>4 DEF Attended
<1>3. ASSUME NEW s \in SessionId, Complete(r, s)
      PROVE  RequestInv' /\ Attended'
  <2> DEFINE p == session[s].port
  <2>1. /\ req'[r].op = "complete" /\ req'[r].session = s /\ req'[r].phase = "commit"
        /\ \A w \in Worker \ {r} : req'[w] = req[w]
        /\ p # NoPort => /\ req'[r].loaded = OneRow(p, charger[p])
                         /\ req'[r].assigned = OneRow(p, Completed(charger[p]))
    BY <1>3 DEF Complete, Become, TypeOK, NoRequest
  <2>2. p \in Port \cup {NoPort} /\ NoPort \notin Port
    BY ConstantsAssumption DEF TypeOK, Session, NoPort, Port
  <2>3. "complete" \in Endpoints /\ session[s].state # "unused"
    BY <1>3 DEF Complete, Begin
  <2>4. p \in Port => /\ req'[r].loaded[p] = charger[p]
                      /\ req'[r].assigned[p].status = "available"
    <3>1. p \in Port => charger[p] \in Row
      BY DEF TypeOK
    <3>2. QED
      BY <2>1, <2>2, <3>1, OneRowAt DEF Completed, Marked, Row
  <2>5. RequestInv'
    BY <1>1, <2>1, <2>3, <2>4
       DEF RequestInv, StartOwnsSession, CompleteKnowsPort, OpsAsked
  <2>6. ASSUME NEW q \in Port, charger[q].status = "occupied",
               NEW v \in SessionId, Attends(v, q)
        PROVE  Attends(v, q)'
    BY <1>1, <2>1, <2>4, <2>6 DEF Attends
  <2>7. QED
    BY <1>1, <2>5, <2>6 DEF Attended
<1>4. QED
  BY <1>2, <1>3 DEF SessionRequest

\* Steps of a running handler that leave the sessions alone.
LEMMA RowsInv ==
    ASSUME TypeOK, RequestInv, Attended, Works, OnlyHandlers, NEW r \in Worker,
           \/ ReserveSelected(r) \/ StartSelected(r)
           \/ CommitExpiry(r) \/ CommitRows(r)
    PROVE  RequestInv' /\ Attended'
<1>1. UNCHANGED session
  BY DEF ReserveSelected, StartSelected, CommitExpiry, CommitRows
<1>2. CASE req[r].op # "start"
  <2>1. Plain(r)
    <3>1. ASSUME Become(r, NoRequest)
          PROVE  Plain(r)
      <4>1. NoRequest.session = NoSession /\ NoRequest.op = "none"
        BY DEF NoRequest
      <4>2. QED
        BY <3>1, <4>1, DroppedEffect DEF Plain
    <3>2. ASSUME NEW phase, NEW u, NEW ports, NEW loaded, NEW assigned,
                 req[r].op \notin {"start", "complete"},
                 Goes(r, req[r].op, phase, u, ports, loaded, assigned)
          PROVE  Plain(r)
      BY <3>2, GoesEffect DEF Plain, RequestInv, OpsAsked
    <3>3. QED
      BY <1>2, <3>1, <3>2 DEF ReserveSelected, StartSelected, CommitExpiry, CommitRows,
                             RequestInv, OpsAsked
  <2>2. /\ RequestInv'
        /\ \A s \in SessionId, p \in Port : Attends(s, p) => Attends(s, p)'
    BY <1>1, <2>1, PlainRequest
  <2>3. ASSUME NEW p \in Port, charger'[p].status = "occupied"
        PROVE  charger[p].status = "occupied"
    <3>1. CASE FlushRows(r)
      BY <1>2, <2>3, <3>1, FlushOccupied DEF FlushRows, Works, RequestInv
    <3>2. QED
      BY <2>3, <3>1 DEF ReserveSelected, StartSelected, CommitExpiry, CommitRows
  <2>4. QED
    BY <2>2, <2>3 DEF Attended
<1>3. CASE req[r].op = "start"
  <2>1. UNCHANGED charger /\ StartSelected(r)
    BY <1>3 DEF ReserveSelected, StartSelected, CommitExpiry, CommitRows,
               RequestInv, OpsAsked
  <2>2. CASE Become(r, NoRequest)
    <3>1. NoRequest.session = NoSession /\ NoRequest.op = "none"
      BY DEF NoRequest
    <3>2. Plain(r)
      BY <2>2, <3>1, DroppedEffect DEF Plain
    <3>3. QED
      BY <1>1, <2>1, <3>2, PlainRequest DEF Attended
  <2>3. ASSUME NEW p \in Port, Starts(r, req[r].user, req[r].session, p)
        PROVE  RequestInv' /\ Attended'
    <3>1. /\ req'[r].op = "start" /\ req'[r].session = req[r].session
          /\ req'[r].phase = "commit"
          /\ \A w \in Worker \ {r} : req'[w] = req[w]
      BY <2>3, StartsEffect
    <3>2. RequestInv'
      BY <1>1, <1>3, <3>1
         DEF RequestInv, StartOwnsSession, CompleteKnowsPort, OpsAsked
    <3>3. \A s \in SessionId, q \in Port : Attends(s, q) => Attends(s, q)'
      BY <1>1, <3>1 DEF Attends
    <3>4. QED
      BY <2>1, <3>2, <3>3 DEF Attended
  <2>4. QED
    BY <2>1, <2>2, <2>3 DEF StartSelected
<1>4. QED
  BY <1>2, <1>3

\* Every worker other than r goes on as it was, and r is idle again.
Done(r) ==
    /\ req'[r].op = "none" /\ req'[r].session = NoSession
    /\ \A w \in Worker \ {r} : req'[w] = req[w]

LEMMA DoneEffect ==
    ASSUME TypeOK, RequestInv, NEW r \in Worker, Become(r, NoRequest)
    PROVE  /\ Done(r)
           /\ OpsAsked'
<1>1. NoRequest.op = "none" /\ NoRequest.session = NoSession
  BY DEF NoRequest
<1>2. QED
  BY <1>1, DroppedEffect DEF Done, RequestInv, OpsAsked

\* The commit of a start: the port it claims is attended by the session it
\* inserts; the witnesses of other ports were in use, so they are not that row.
LEMMA CommitStartInv ==
    ASSUME TypeOK, RequestInv, Attended, Works, OnlyHandlers, NEW r \in Worker,
           CommitStart(r)
    PROVE  RequestInv' /\ Attended'
<1>1. PICK s \in SessionId : /\ s = req[r].session /\ session[s].state = "unused"
                             /\ \A w \in Worker \ {r} : req[w].session # s
  BY DEF CommitStart, RequestInv, StartOwnsSession
<1>2. PICK v \in req[r].ports :
         session' = [session EXCEPT ![s] = OpenSession(req[r].user, v)]
  BY <1>1 DEF CommitStart
<1>3. /\ session'[s].state = "open" /\ session'[s].port = v
      /\ \A t \in SessionId \ {s} : session'[t] = session[t]
  BY <1>1, <1>2 DEF TypeOK, OpenSession, UnusedSession
<1>4. Done(r) /\ OpsAsked'
  BY DoneEffect DEF CommitStart
<1>5. RequestInv'
  <2>1. StartOwnsSession'
    <3> SUFFICES ASSUME NEW w \in Worker, req'[w].op = "start"
                 PROVE  /\ req'[w].session \in SessionId
                        /\ session'[req'[w].session].state = "unused"
                        /\ \A x \in Worker \ {w} : req'[x].session # req'[w].session
      BY DEF StartOwnsSession
    <3>1. w # r /\ req'[w] = req[w]
      BY <1>4 DEF Done
    <3>2. QED
      BY <1>1, <1>3, <1>4, <3>1, ConstantsAssumption DEF RequestInv, StartOwnsSession, Done
  <2>2. CompleteKnowsPort'
    <3> SUFFICES ASSUME NEW w \in Worker, req'[w].op = "complete"
                 PROVE  LET t == req'[w].session IN
                        /\ t \in SessionId /\ session'[t].state # "unused"
                        /\ session'[t].port \in Port =>
                             req'[w].assigned[session'[t].port].status = "available"
      BY DEF CompleteKnowsPort
    <3>1. w # r /\ req'[w] = req[w]
      BY <1>4 DEF Done
    <3>2. QED
      BY <1>1, <1>3, <1>4, <3>1 DEF RequestInv, CompleteKnowsPort
  <2>3. QED
    BY <2>1, <2>2, <1>4 DEF RequestInv
<1>6. ASSUME NEW p \in Port, charger'[p].status = "occupied"
      PROVE  \E t \in SessionId : Attends(t, p)'
  <2>1. \/ charger[p].status = "occupied"
        \/ req[r].ports = {p}
    BY <1>6, FlushOccupied DEF CommitStart, FlushRows, Works, RequestInv
  <2>2. CASE charger[p].status = "occupied"
    <3>1. PICK t \in SessionId : Attends(t, p)
      BY <2>2 DEF Attended
    <3>2. t # s
      BY <1>1, <3>1 DEF Attends
    <3>3. QED
      BY <1>3, <1>4, <3>1, <3>2 DEF Attends, Done
  <2>3. CASE req[r].ports = {p}
    <3>1. v = p
      BY <2>3
    <3>2. Attends(s, p)'
      BY <1>1, <1>3, <1>4, <3>1 DEF Attends, Done
    <3>3. QED
      BY <1>1, <3>2
  <2>4. QED
    BY <2>1, <2>2, <2>3
<1>7. QED
  BY <1>5, <1>6 DEF Attended

\* The commit of a completion: a port that stays occupied was loaded with the
\* status the completion assigns to its own port, so its witness is another
\* session.
LEMMA CommitCompleteInv ==
    ASSUME TypeOK, RequestInv, Attended, Works, OnlyHandlers, NEW r \in Worker,
           CommitComplete(r)
    PROVE  RequestInv' /\ Attended'
<1>1. PICK s \in SessionId :
         /\ s = req[r].session /\ session[s].state # "unused"
         /\ session[s].port \in Port =>
              req[r].assigned[session[s].port].status = "available"
  BY DEF CommitComplete, RequestInv, CompleteKnowsPort
<1>2. /\ session'[s].state = "ended" /\ session'[s].port = session[s].port
      /\ \A t \in SessionId \ {s} : session'[t] = session[t]
  BY <1>1 DEF CommitComplete, TypeOK, Ended, Session
<1>3. Done(r) /\ OpsAsked'
  BY DoneEffect DEF CommitComplete
<1>4. RequestInv'
  <2>1. StartOwnsSession'
    <3> SUFFICES ASSUME NEW w \in Worker, req'[w].op = "start"
                 PROVE  /\ req'[w].session \in SessionId
                        /\ session'[req'[w].session].state = "unused"
                        /\ \A x \in Worker \ {w} : req'[x].session # req'[w].session
      BY DEF StartOwnsSession
    <3>1. w # r /\ req'[w] = req[w]
      BY <1>3 DEF Done
    <3>2. QED
      BY <1>1, <1>2, <1>3, <3>1, ConstantsAssumption DEF RequestInv, StartOwnsSession, Done
  <2>2. CompleteKnowsPort'
    <3> SUFFICES ASSUME NEW w \in Worker, req'[w].op = "complete"
                 PROVE  LET t == req'[w].session IN
                        /\ t \in SessionId /\ session'[t].state # "unused"
                        /\ session'[t].port \in Port =>
                             req'[w].assigned[session'[t].port].status = "available"
      BY DEF CompleteKnowsPort
    <3>1. w # r /\ req'[w] = req[w]
      BY <1>3 DEF Done
    <3>2. QED
      BY <1>1, <1>2, <1>3, <3>1 DEF RequestInv, CompleteKnowsPort
  <2>3. QED
    BY <2>1, <2>2, <1>3 DEF RequestInv
<1>5. ASSUME NEW p \in Port, charger'[p].status = "occupied"
      PROVE  \E t \in SessionId : Attends(t, p)'
  <2>1. /\ charger[p].status = "occupied"
        /\ req[r].assigned[p].status = req[r].loaded[p].status
    BY <1>5, FlushOccupied DEF CommitComplete, FlushRows, Works, RequestInv
  <2>2. PICK t \in SessionId : Attends(t, p)
    BY <2>1 DEF Attended
  <2>3. t # s
    BY <1>1, <2>1, <2>2 DEF Attends, CommitComplete
  <2>4. QED
    BY <1>2, <1>3, <2>2, <2>3 DEF Attends, Done
<1>6. QED
  BY <1>4, <1>5 DEF Attended

\* Requests of one step: they leave the workers alone.
LEMMA OneStepInv ==
    ASSUME TypeOK, RequestInv, Attended, OnlyHandlers,
           OneStepRequest \/ \E p \in Port : Lapse(p)
    PROVE  RequestInv' /\ Attended'
<1>1. UNCHANGED req
  BY DEF OneStepRequest, StartSession, UpdateEnergy, UpdateEndTime, UpdateRow, Lapse
<1>2. OpsAsked'
  BY <1>1 DEF RequestInv, OpsAsked
<1>3. ASSUME NEW u \in User, NEW s \in SessionId, NEW p \in Port \cup {NoPort},
             StartSession(u, s, p)
      PROVE  RequestInv' /\ Attended'
  <2>1. /\ session[s].state = "unused" /\ \A w \in Worker : req[w].session # s
        /\ session' = [session EXCEPT ![s] = OpenSession(u, p)] /\ UNCHANGED charger
    BY <1>3 DEF StartSession, Unclaimed
  <2>2. \A t \in SessionId \ {s} : session'[t] = session[t]
    BY <2>1 DEF TypeOK
  <2>3. RequestInv'
    BY <1>1, <1>2, <2>1, <2>2
       DEF RequestInv, StartOwnsSession, CompleteKnowsPort
  <2>4. \A t \in SessionId, q \in Port : Attends(t, q) => Attends(t, q)'
    BY <1>1, <2>1, <2>2 DEF Attends
  <2>5. QED
    BY <2>1, <2>3, <2>4 DEF Attended
<1>4. ASSUME NEW s \in SessionId, UpdateEnergy(s)
      PROVE  RequestInv' /\ Attended'
  <2>1. /\ \A t \in SessionId : /\ session'[t].state = session[t].state
                                 /\ session'[t].port = session[t].port
        /\ UNCHANGED charger
    BY <1>4 DEF UpdateEnergy, TypeOK, Session
  <2>2. QED
    BY <1>1, <1>2, <2>1
       DEF RequestInv, StartOwnsSession, CompleteKnowsPort, Attended, Attends
<1>5. ASSUME NEW p \in Port, Lapse(p)
      PROVE  RequestInv' /\ Attended'
  <2>1. /\ \A q \in Port : charger'[q].status = charger[q].status
        /\ UNCHANGED session
    BY <1>5 DEF Lapse, TypeOK, Row
  <2>2. QED
    BY <1>1, <1>2, <2>1
       DEF RequestInv, StartOwnsSession, CompleteKnowsPort, Attended, Attends
<1>6. /\ \A s \in SessionId, state \in {"open", "ended"} : ~UpdateEndTime(s, state)
      /\ \A p \in Port, status \in PatchStatus : ~UpdateRow(p, status)
  BY DEF OnlyHandlers, UpdateEndTime, UpdateRow
<1>7. QED
  BY <1>3, <1>4, <1>5, <1>6 DEF OneStepRequest

\* Where only handlers write, an occupied port has an open session, however the
\* starts, completions, expiries and faults of any number of threads interleave
\* and wherever they are aborted.
THEOREM PortsAreReleased ==
    ASSUME OnlyHandlers
    PROVE  Spec => []OccupiedHasOpenSession
<1>1. Init => RequestInv /\ Attended
  BY DEF Init, RequestInv, StartOwnsSession, CompleteKnowsPort, OpsAsked, Attended,
         NoRequest, BlankRows, BlankRow
<1>2. TypeOK /\ Works /\ RequestInv /\ Attended /\ [Next]_vars
        => RequestInv' /\ Attended'
  <2> SUFFICES ASSUME TypeOK, Works, RequestInv, Attended, [Next]_vars
               PROVE  RequestInv' /\ Attended'
    OBVIOUS
  <2>1. CASE UNCHANGED vars
    BY <2>1 DEF vars, RequestInv, StartOwnsSession, CompleteKnowsPort, OpsAsked,
                Attended, Attends
  <2>2. ASSUME NEW r \in Worker, Continue(r)
        PROVE  RequestInv' /\ Attended'
    BY <2>2, RowsInv, CommitStartInv, CommitCompleteInv DEF Continue
  <2>3. QED
    BY <2>1, <2>2, StationRequestInv, SessionRequestInv, OneStepInv DEF Next
<1>3. Attended => OccupiedHasOpenSession
  BY DEF Attended, Attends, OccupiedHasOpenSession
<1>4. QED
  BY <1>1, <1>2, <1>3, TypeCorrect, WorksCorrect, PTL DEF Spec

-----------------------------------------------------------------------------
(***************************************************************************)
(* A completion and its log are one commit                                 *)
(***************************************************************************)

\* Unless somebody PATCHes an end_time, however requests interleave and wherever
\* they are aborted, a session at a port has ended exactly when its behaviour log
\* has been written: the handler's one commit writes both.
THEOREM EndsAreLogged ==
    ASSUME "update_end_time" \notin Endpoints
    PROVE  Spec => []EndedExactlyWhenLogged
<1>1. Init => EndedExactlyWhenLogged
  BY DEF Init, EndedExactlyWhenLogged, UnusedSession
<1>2. TypeOK /\ EndedExactlyWhenLogged /\ [Next]_vars => EndedExactlyWhenLogged'
  <2> SUFFICES ASSUME TypeOK, EndedExactlyWhenLogged, [Next]_vars
               PROVE  EndedExactlyWhenLogged'
    OBVIOUS
  <2>1. CASE UNCHANGED session
    BY <2>1 DEF EndedExactlyWhenLogged
  <2>2. ASSUME NEW s, NEW u, NEW p, session' = [session EXCEPT ![s] = OpenSession(u, p)]
        PROVE  EndedExactlyWhenLogged'
    <3>1. \A t \in SessionId : \/ session'[t] = session[t]
                               \/ session'[t].state = "open" /\ session'[t].logs = 0
      BY <2>2 DEF TypeOK, OpenSession, UnusedSession
    <3>2. QED
      BY <3>1 DEF EndedExactlyWhenLogged
  <2>3. ASSUME NEW s, NEW energy, session' = [session EXCEPT ![s] = Ended(@, energy)]
        PROVE  EndedExactlyWhenLogged'
    <3>1. \A t \in SessionId :
            \/ session'[t] = session[t]
            \/ session'[t].state = "ended"
               /\ (session'[t].port # NoPort => session'[t].logs > 0)
      BY <2>3 DEF TypeOK, Session, Ended
    <3>2. QED
      BY <3>1 DEF EndedExactlyWhenLogged
  <2>4. ASSUME NEW s \in SessionId, UpdateEnergy(s)
        PROVE  EndedExactlyWhenLogged'
    <3>1. \A t \in SessionId : /\ session'[t].state = session[t].state
                               /\ session'[t].port = session[t].port
                               /\ session'[t].logs = session[t].logs
      BY <2>4 DEF UpdateEnergy, TypeOK, Session
    <3>2. QED
      BY <3>1 DEF EndedExactlyWhenLogged
  <2>5. ASSUME NEW r \in Worker, Continue(r)
        PROVE  EndedExactlyWhenLogged'
    <3>1. CASE CommitStart(r)
      <4>1. PICK p : session' = [session EXCEPT ![req[r].session] = OpenSession(req[r].user, p)]
        BY <3>1 DEF CommitStart
      <4>2. PICK s, u : s = req[r].session /\ u = req[r].user
        OBVIOUS
      <4>3. session' = [session EXCEPT ![s] = OpenSession(u, p)]
        BY <4>1, <4>2
      <4>4. QED
        BY <2>2, <4>3
    <3>2. CASE CommitComplete(r)
      BY <2>3, <3>2 DEF CommitComplete
    <3>3. CASE ReserveSelected(r) \/ StartSelected(r) \/ CommitExpiry(r) \/ CommitRows(r)
      BY <2>1, <3>3 DEF ReserveSelected, StartSelected, CommitExpiry, CommitRows
    <3>4. QED
      BY <2>5, <3>1, <3>2, <3>3 DEF Continue
  <2>6. CASE OneStepRequest
    <3>1. ASSUME NEW u \in User, NEW s \in SessionId, NEW p \in Port \cup {NoPort},
                 StartSession(u, s, p)
          PROVE  EndedExactlyWhenLogged'
      BY <2>2, <3>1 DEF StartSession
    <3>2. ASSUME NEW p \in Port, NEW status \in PatchStatus, UpdateRow(p, status)
          PROVE  EndedExactlyWhenLogged'
      BY <2>1, <3>2 DEF UpdateRow
    <3>3. \A s \in SessionId, state \in {"open", "ended"} : ~UpdateEndTime(s, state)
      BY DEF UpdateEndTime
    <3>4. QED
      BY <2>4, <2>6, <3>1, <3>2, <3>3 DEF OneStepRequest
  <2>7. ASSUME NEW r \in Worker,
               StationRequest(r) \/ SessionRequest(r) \/ StatusRequest(r) \/ Abort(r)
        PROVE  UNCHANGED session
    BY <2>7, StationRequestType, SessionRequestType, StatusRequestType DEF Abort
  <2>8. ASSUME NEW p \in Port, Lapse(p)
        PROVE  UNCHANGED session
    BY <2>8 DEF Lapse
  <2>9. UNCHANGED vars => UNCHANGED session
    BY DEF vars
  <2>10. QED
    BY <2>1, <2>5, <2>6, <2>7, <2>8, <2>9 DEF Next
<1>3. QED
  BY <1>1, <1>2, TypeCorrect, PTL DEF Spec

-----------------------------------------------------------------------------
(***************************************************************************)
(* One handler at a time: each commit is then one transaction on the       *)
(* tables, the status column tells the truth and the tables implement      *)
(* StationPorts.                                                           *)
(***************************************************************************)

\* Handlers do not overlap, nobody writes a port or a session by hand, and no
\* client completes a session twice.
OneAtATime ==
    /\ \A a, b \in Worker : a = b
    /\ Endpoints \cap {"recomplete", "start_session", "update_end_time", "scenario",
                       "patch_charger", "update_row"} = {}

-----------------------------------------------------------------------------
(***************************************************************************)
(* The inductive invariant                                                 *)
(***************************************************************************)

\* The three columns of a port agree: an expiry and a holder, exactly on a hold.
RowSound(row) ==
    /\ row.status = "reserved" => row.until # "none" /\ row.by \in User
    /\ row.status # "reserved" => row.until = "none" /\ row.by = NoUser

RowsSound == \A p \in Port : RowSound(charger[p])

SessionsSound ==
    \A s \in SessionId :
        session[s].state = "open" => session[s].port \in Port /\ session[s].user \in User

\* The row a handler loaded is the one in the table, but for time passing.
Kept(loaded, current) ==
    \/ current = loaded
    \/ /\ loaded.status = "reserved" /\ loaded.until = "live"
       /\ current = [loaded EXCEPT !.until = "lapsed"]

\* What a handler assigned to a row: nothing, or one of the six updates.
Same(q, p) == q.assigned[p] = q.loaded[p]

Frees(q, p) == q.loaded[p].status = "reserved" /\ q.assigned[p] = Freed(q.loaded[p])
Sweeps(q, p) == q.loaded[p].until = "lapsed" /\ Frees(q, p)
Holds(q, p) ==
    q.loaded[p].status = "available" /\ q.assigned[p] = Held(q.loaded[p], q.user)
Claims(q, p) ==
    /\ \/ q.loaded[p].status = "available"
       \/ q.loaded[p].status = "reserved" /\ q.loaded[p].by = q.user
    /\ q.assigned[p] = Claimed(q.loaded[p])
Retires(q, p) ==
    q.loaded[p].status = "available" /\ q.assigned[p] = Marked(q.loaded[p], "maintenance")

Only(q, p) == q.ports = {p} /\ \A v \in Port \ {p} : Same(q, v)

\* Each request in flight, by what it is about to do.
Reserving(q) == q.op \in {"reserve_any", "reserve"} /\ q.user \in User
NewSession(q) ==
    q.user \in User /\ q.session \in SessionId /\ session[q.session].state = "unused"

Expiring(q) ==
    /\ q.phase = "expire" /\ (q.op = "look" \/ Reserving(q))
    /\ \A p \in Port : Same(q, p) \/ Sweeps(q, p)
Choosing(q) ==
    /\ q.phase \in {"select", "reselect"} /\ Reserving(q)
    /\ \A p \in Port : Same(q, p)
    /\ q.phase = "select" => \A p \in q.ports : Kept(q.loaded[p], charger[p])
Seeking(q) ==
    /\ q.phase = "select" /\ q.op = "start" /\ NewSession(q)
    /\ \A p \in Port : Same(q, p)
Holding(q) ==
    q.phase = "commit" /\ Reserving(q) /\ \E p \in Port : Only(q, p) /\ Holds(q, p)
Freeing(q) ==
    q.phase = "commit" /\ q.op = "cancel" /\ \E p \in Port : Only(q, p) /\ Frees(q, p)
Retiring(q) ==
    q.phase = "commit" /\ q.op = "fault" /\ \A p \in Port : Same(q, p) \/ Retires(q, p)
Claiming(q) ==
    /\ q.phase = "commit" /\ q.op = "start" /\ NewSession(q)
    /\ \E p \in Port : Only(q, p) /\ Claims(q, p)
Releasing(q) ==
    /\ q.phase = "commit" /\ q.op = "complete"
    /\ q.session \in SessionId /\ session[q.session].state = "open"
    /\ \E p \in Port : /\ Only(q, p) /\ session[q.session].port = p
                       /\ Kept(q.loaded[p], charger[p])
                       /\ q.assigned[p] = Completed(q.loaded[p])

RequestSound(q) ==
    /\ \A p \in Port : Same(q, p) \/ Kept(q.loaded[p], charger[p])
    /\ \/ q = NoRequest
       \/ Expiring(q) \/ Choosing(q) \/ Seeking(q)
       \/ Holding(q) \/ Freeing(q) \/ Retiring(q) \/ Claiming(q) \/ Releasing(q)

RequestsSound == \A r \in Worker : RequestSound(req[r])

SerialInv == TypeOK /\ RowsSound /\ SessionsSound /\ StatusIsTrue /\ RequestsSound

-----------------------------------------------------------------------------
(***************************************************************************)
(* What a step does to the tables                                          *)
(***************************************************************************)

HeldRow(u) == [status |-> "reserved", until |-> "live", by |-> u]
InUseRow == [status |-> "occupied", until |-> "none", by |-> NoUser]
OutRow == [status |-> "maintenance", until |-> "none", by |-> NoUser]

SetRows(S, row) == charger' = [p \in Port |-> IF p \in S THEN row ELSE charger[p]]

Stale(p) == charger[p].status = "reserved" /\ charger[p].until = "lapsed"

Swept == \E S \in SUBSET Port : /\ \A p \in S : Stale(p)
                                /\ SetRows(S, BlankRow) /\ UNCHANGED session
Placed == \E p \in Port, u \in User : /\ charger[p].status = "available"
                                      /\ SetRows({p}, HeldRow(u)) /\ UNCHANGED session
GivenUp == \E p \in Port : /\ charger[p].status = "reserved"
                           /\ SetRows({p}, BlankRow) /\ UNCHANGED session
TakenOut == \E S \in SUBSET Port : /\ \A p \in S : charger[p].status = "available"
                                   /\ SetRows(S, OutRow) /\ UNCHANGED session
Opened ==
    \E p \in Port, u \in User, s \in SessionId :
        /\ session[s].state = "unused"
        /\ \/ charger[p].status = "available"
           \/ charger[p].status = "reserved" /\ charger[p].by = u
        /\ SetRows({p}, InUseRow)
        /\ session' = [session EXCEPT ![s] = OpenSession(u, p)]
Closed ==
    \E s \in SessionId, energy \in BOOLEAN :
        /\ session[s].state = "open"
        /\ SetRows({session[s].port}, BlankRow)
        /\ session' = [session EXCEPT ![s] = Ended(@, energy)]
Metered ==
    \E s \in SessionId : /\ session[s].state # "unused" /\ UNCHANGED charger
                         /\ session' = [session EXCEPT ![s].energy = TRUE]
Waited == \E p \in Port : Lapse(p)

Transaction ==
    \/ Swept \/ Placed \/ GivenUp \/ TakenOut \/ Opened \/ Closed
    \/ Metered \/ Waited \/ UNCHANGED <<charger, session>>

\* Flushing what was assigned to a row that is still the loaded one replaces the
\* whole row, even when its hold has lapsed in between.
LEMMA Outcome ==
    ASSUME NEW loaded \in Row, NEW current \in Row, RowSound(current), Kept(loaded, current)
    PROVE  /\ loaded.status = "reserved" => Flush(current, loaded, Freed(loaded)) = BlankRow
           /\ loaded.status = "available" =>
                /\ \A u \in User : Flush(current, loaded, Held(loaded, u)) = HeldRow(u)
                /\ Flush(current, loaded, Marked(loaded, "maintenance")) = OutRow
           /\ loaded.status \in {"available", "reserved"} =>
                Flush(current, loaded, Claimed(loaded)) = InUseRow
           /\ loaded.status = "occupied" =>
                Flush(current, loaded, Completed(loaded)) = BlankRow
<1>1. /\ loaded.status = current.status /\ loaded.by = current.by
      /\ loaded.status # "reserved" => loaded.until = "none" /\ loaded.by = NoUser
      /\ loaded.status = "reserved" => loaded.until # "none" /\ loaded.by \in User
  BY DEF Kept, RowSound, Row
<1>2. NoUser \notin User
  BY ConstantsAssumption
<1>3. loaded.status = "reserved" => Flush(current, loaded, Freed(loaded)) = BlankRow
  BY <1>1, <1>2 DEF Row, Freed, Flush, Column, BlankRow
<1>4. ASSUME loaded.status = "available"
      PROVE  /\ \A u \in User : Flush(current, loaded, Held(loaded, u)) = HeldRow(u)
             /\ Flush(current, loaded, Marked(loaded, "maintenance")) = OutRow
  <2>1. current.until = "none" /\ current.by = NoUser
    BY <1>1, <1>4 DEF RowSound
  <2>2. \A u \in User : Flush(current, loaded, Held(loaded, u)) = HeldRow(u)
    BY <1>1, <1>2, <1>4 DEF Row, Held, Flush, Column, HeldRow
  <2>3. Flush(current, loaded, Marked(loaded, "maintenance")) = OutRow
    BY <1>1, <1>4, <2>1 DEF Row, Marked, Flush, Column, OutRow
  <2>4. QED
    BY <2>2, <2>3
<1>5. loaded.status \in {"available", "reserved"} =>
        Flush(current, loaded, Claimed(loaded)) = InUseRow
  BY <1>1, <1>2 DEF Row, RowSound, Claimed, Flush, Column, InUseRow
<1>6. loaded.status = "occupied" => Flush(current, loaded, Completed(loaded)) = BlankRow
  BY <1>1 DEF Row, RowSound, Completed, Marked, Flush, Column, BlankRow
<1>7. QED
  BY <1>3, <1>4, <1>5, <1>6

\* A row a handler did not assign to stays as it is.
LEMMA Untouched ==
    ASSUME NEW loaded \in Row, NEW current \in Row
    PROVE  Flush(current, loaded, loaded) = current
BY DEF Row, Until, Flush, Column

LEMMA Loaded ==
    ASSUME TypeOK, NEW r \in Worker, NEW p \in Port
    PROVE  /\ req[r].loaded[p] \in Row /\ charger[p] \in Row
           /\ req[r].assigned[p] \in AssignedRow
BY DEF TypeOK, Request

\* The updates of a sound request change the rows it names and no other.
LEMMA FlushSets ==
    ASSUME TypeOK, NEW r \in Worker, FlushRows(r), NEW S \in SUBSET Port, NEW row,
           \A p \in S : Flush(charger[p], req[r].loaded[p], req[r].assigned[p]) = row,
           \A p \in Port \ S : Same(req[r], p)
    PROVE  SetRows(S, row)
<1>1. \A p \in Port \ S : Flush(charger[p], req[r].loaded[p], req[r].assigned[p]) = charger[p]
  BY Untouched, Loaded DEF Same
<1>2. QED
  BY <1>1 DEF FlushRows, SetRows

\* A changed row was loaded as it is now.
LEMMA ChangedIsKept ==
    ASSUME RequestsSound, NEW r \in Worker, NEW p \in Port, ~Same(req[r], p)
    PROVE  Kept(req[r].loaded[p], charger[p])
BY DEF RequestsSound, RequestSound

\* Every update changes its row.
LEMMA UpdatesChange ==
    ASSUME TypeOK, NEW r \in Worker, NEW p \in Port,
           \/ Frees(req[r], p) \/ Holds(req[r], p)
           \/ Claims(req[r], p) \/ Retires(req[r], p)
    PROVE  ~Same(req[r], p)
BY Loaded DEF Frees, Holds, Claims, Retires, Freed, Held, Claimed, Marked, Same, Row

-----------------------------------------------------------------------------
(***************************************************************************)
(* Every step is a transaction                                             *)
(***************************************************************************)

\* The request that commits in each way is one that said it would.
LEMMA SoundPhases ==
    ASSUME SerialInv, NEW r \in Worker
    PROVE  /\ req[r].phase = "idle" => req[r] = NoRequest
           /\ req[r].phase = "expire" => Expiring(req[r])
           /\ req[r].phase \in {"select", "reselect"} => Choosing(req[r]) \/ Seeking(req[r])
           /\ req[r].phase = "commit" =>
                \/ Holding(req[r]) \/ Freeing(req[r]) \/ Retiring(req[r])
                \/ Claiming(req[r]) \/ Releasing(req[r])
<1>1. NoRequest.phase = "idle"
  BY DEF NoRequest
<1>2. RequestSound(req[r])
  BY DEF SerialInv, RequestsSound
<1>3. QED
  BY <1>1, <1>2 DEF RequestSound, Expiring, Choosing, Seeking, Holding, Freeing, Retiring,
                    Claiming, Releasing

LEMMA ExpiryTransaction ==
    ASSUME SerialInv, NEW r \in Worker, CommitExpiry(r)
    PROVE  Swept
<1> DEFINE S == {p \in Port : ~Same(req[r], p)}
<1>1. TypeOK /\ RowsSound /\ RequestsSound /\ FlushRows(r) /\ UNCHANGED session
  BY DEF SerialInv, CommitExpiry
<1>2. Expiring(req[r])
  BY SoundPhases DEF CommitExpiry
<1>3. ASSUME NEW p \in S
      PROVE  /\ Stale(p)
             /\ Flush(charger[p], req[r].loaded[p], req[r].assigned[p]) = BlankRow
  <2>1. Sweeps(req[r], p) /\ Kept(req[r].loaded[p], charger[p])
    BY <1>1, <1>2, ChangedIsKept DEF Expiring
  <2>2. QED
    BY <1>1, <2>1, Outcome, Loaded DEF Sweeps, Frees, RowsSound, Kept, Stale
<1>4. SetRows(S, BlankRow)
  BY <1>1, <1>3, FlushSets
<1>5. QED
  BY <1>1, <1>3, <1>4 DEF Swept

\* A commit that assigns to one port sets that port's row.
LEMMA OneSet ==
    ASSUME SerialInv, NEW r \in Worker, FlushRows(r), NEW p \in Port, Only(req[r], p),
           NEW row, Flush(charger[p], req[r].loaded[p], req[r].assigned[p]) = row
    PROVE  SetRows({p}, row)
<1>1. \A v \in Port \ {p} : Same(req[r], v)
  BY DEF Only
<1>2. QED
  BY <1>1, FlushSets DEF SerialInv

LEMMA RowsTransaction ==
    ASSUME SerialInv, NEW r \in Worker, CommitRows(r)
    PROVE  Placed \/ GivenUp \/ TakenOut
<1>1. TypeOK /\ RowsSound /\ RequestsSound /\ FlushRows(r) /\ UNCHANGED session
  BY DEF SerialInv, CommitRows
<1>2. Holding(req[r]) \/ Freeing(req[r]) \/ Retiring(req[r])
  BY SoundPhases DEF CommitRows, Claiming, Releasing
<1>3. CASE Holding(req[r])
  <2>1. PICK p \in Port : Only(req[r], p) /\ Holds(req[r], p)
    BY <1>3 DEF Holding
  <2>2. req[r].user \in User
    BY <1>3 DEF Holding, Reserving
  <2>3. Kept(req[r].loaded[p], charger[p])
    BY <1>1, <2>1, UpdatesChange, ChangedIsKept
  <2>4. Flush(charger[p], req[r].loaded[p], req[r].assigned[p]) = HeldRow(req[r].user)
    BY <1>1, <2>1, <2>2, <2>3, Outcome, Loaded DEF Holds, RowsSound
  <2>5. charger[p].status = "available"
    BY <2>1, <2>3 DEF Holds, Kept
  <2>6. SetRows({p}, HeldRow(req[r].user))
    BY <1>1, <2>1, <2>4, OneSet
  <2>7. QED
    BY <1>1, <2>2, <2>5, <2>6 DEF Placed
<1>4. CASE Freeing(req[r])
  <2>1. PICK p \in Port : Only(req[r], p) /\ Frees(req[r], p)
    BY <1>4 DEF Freeing
  <2>2. Kept(req[r].loaded[p], charger[p])
    BY <1>1, <2>1, UpdatesChange, ChangedIsKept
  <2>3. Flush(charger[p], req[r].loaded[p], req[r].assigned[p]) = BlankRow
    BY <1>1, <2>1, <2>2, Outcome, Loaded DEF Frees, RowsSound
  <2>4. charger[p].status = "reserved"
    BY <2>1, <2>2, Loaded, <1>1 DEF Frees, Kept, Row
  <2>5. SetRows({p}, BlankRow)
    BY <1>1, <2>1, <2>3, OneSet
  <2>6. QED
    BY <1>1, <2>4, <2>5 DEF GivenUp
<1>5. CASE Retiring(req[r])
  <2> DEFINE S == {p \in Port : ~Same(req[r], p)}
  <2>1. ASSUME NEW p \in S
        PROVE  /\ charger[p].status = "available"
               /\ Flush(charger[p], req[r].loaded[p], req[r].assigned[p]) = OutRow
    <3>1. Retires(req[r], p) /\ Kept(req[r].loaded[p], charger[p])
      BY <1>1, <1>5, ChangedIsKept DEF Retiring
    <3>2. QED
      BY <1>1, <3>1, Outcome, Loaded DEF Retires, RowsSound, Kept
  <2>2. SetRows(S, OutRow)
    BY <1>1, <2>1, FlushSets
  <2>3. QED
    BY <1>1, <2>1, <2>2 DEF TakenOut
<1>6. QED
  BY <1>2, <1>3, <1>4, <1>5

LEMMA StartTransaction ==
    ASSUME SerialInv, NEW r \in Worker, CommitStart(r)
    PROVE  Opened
<1>1. TypeOK /\ RowsSound /\ RequestsSound /\ FlushRows(r)
  BY DEF SerialInv, CommitStart
<1>2. Claiming(req[r])
  BY SoundPhases DEF CommitStart, Holding, Reserving, Freeing, Retiring, Releasing
<1>3. PICK p \in Port : Only(req[r], p) /\ Claims(req[r], p)
  BY <1>2 DEF Claiming
<1>4. Kept(req[r].loaded[p], charger[p])
  BY <1>1, <1>3, UpdatesChange, ChangedIsKept
<1>5. req[r].loaded[p] \in Row /\ charger[p] \in Row /\ RowSound(charger[p])
  BY <1>1, Loaded DEF RowsSound
<1>6. Flush(charger[p], req[r].loaded[p], req[r].assigned[p]) = InUseRow
  BY <1>3, <1>4, <1>5, Outcome DEF Claims
<1>7. \/ charger[p].status = "available"
      \/ charger[p].status = "reserved" /\ charger[p].by = req[r].user
  BY <1>3, <1>4, <1>5 DEF Claims, Kept, Row
<1>8. SetRows({p}, InUseRow)
  BY <1>1, <1>3, <1>6, OneSet
<1>9. session' = [session EXCEPT ![req[r].session] = OpenSession(req[r].user, p)]
  BY <1>3 DEF CommitStart, Only
<1>10. QED
  BY <1>2, <1>7, <1>8, <1>9 DEF Claiming, NewSession, Opened

LEMMA CompleteTransaction ==
    ASSUME SerialInv, NEW r \in Worker, CommitComplete(r)
    PROVE  Closed
<1>1. TypeOK /\ RowsSound /\ RequestsSound /\ StatusIsTrue /\ FlushRows(r)
  BY DEF SerialInv, CommitComplete
<1>2. Releasing(req[r])
  BY SoundPhases DEF CommitComplete, Holding, Reserving, Freeing, Retiring, Claiming
<1>3. PICK p \in Port : /\ Only(req[r], p) /\ session[req[r].session].port = p
                        /\ Kept(req[r].loaded[p], charger[p])
                        /\ req[r].assigned[p] = Completed(req[r].loaded[p])
  BY <1>2 DEF Releasing
<1>4. req[r].session \in SessionId /\ session[req[r].session].state = "open"
  BY <1>2 DEF Releasing
<1>5. charger[p].status = "occupied"
  BY <1>1, <1>3, <1>4 DEF StatusIsTrue, Charging
<1>6. req[r].loaded[p] \in Row /\ charger[p] \in Row /\ RowSound(charger[p])
  BY <1>1, Loaded DEF RowsSound
<1>7. Kept(req[r].loaded[p], charger[p])
  BY <1>3
<1>8. Flush(charger[p], req[r].loaded[p], req[r].assigned[p]) = BlankRow
  <2>1. req[r].loaded[p].status = "occupied"
    BY <1>5, <1>6, <1>7 DEF Kept, Row
  <2>2. QED
    BY <1>3, <1>6, <1>7, <2>1, Outcome
<1>9. SetRows({p}, BlankRow)
  BY <1>1, <1>3, <1>8, OneSet
<1>10. session' = [session EXCEPT ![req[r].session] = Ended(@, req[r].energy)]
  BY DEF CommitComplete
<1>11. req[r].energy \in BOOLEAN
  BY <1>1 DEF TypeOK, Request
<1>12. QED
  BY <1>3, <1>4, <1>9, <1>10, <1>11 DEF Closed

LEMMA StepIsTransaction ==
    ASSUME SerialInv, OneAtATime, [Next]_vars
    PROVE  Transaction
<1>1. TypeOK
  BY DEF SerialInv
<1>2. ASSUME NEW r \in Worker,
             StationRequest(r) \/ SessionRequest(r) \/ StatusRequest(r) \/ Abort(r)
      PROVE  UNCHANGED <<charger, session>>
  BY <1>1, <1>2, StationRequestType, SessionRequestType, StatusRequestType DEF Abort
<1>3. ASSUME NEW r \in Worker, Continue(r)
      PROVE  Transaction
  <2>1. ReserveSelected(r) \/ StartSelected(r) => UNCHANGED <<charger, session>>
    BY DEF ReserveSelected, StartSelected
  <2>2. QED
    BY <1>3, <2>1, ExpiryTransaction, RowsTransaction, StartTransaction, CompleteTransaction
       DEF Continue, Transaction
<1>4. OneStepRequest => Metered
  BY DEF OneAtATime, OneStepRequest, StartSession, UpdateEnergy, UpdateEndTime, UpdateRow,
         Metered
<1>5. UNCHANGED vars => UNCHANGED <<charger, session>>
  BY DEF vars
<1>6. QED
  BY <1>2, <1>3, <1>4, <1>5 DEF Next, Transaction, Waited

-----------------------------------------------------------------------------
(***************************************************************************)
(* Transactions keep the tables sound                                      *)
(***************************************************************************)

\* Setting rows: what the others and the set ones hold.
LEMMA RowsSet ==
    ASSUME NEW S \in SUBSET Port, NEW row, SetRows(S, row), RowsSound, RowSound(row)
    PROVE  /\ \A p \in S : charger'[p] = row
           /\ \A p \in Port \ S : charger'[p] = charger[p]
           /\ RowsSound'
<1>1. \A p \in Port : charger'[p] = IF p \in S THEN row ELSE charger[p]
  BY DEF SetRows
<1>2. \A p \in Port : RowSound(charger'[p])
  BY <1>1 DEF RowsSound
<1>3. QED
  BY <1>1, <1>2 DEF RowsSound, RowSound

LEMMA RowConstants ==
    /\ RowSound(BlankRow) /\ RowSound(InUseRow) /\ RowSound(OutRow)
    /\ \A u \in User : RowSound(HeldRow(u))
BY DEF RowSound, BlankRow, InUseRow, OutRow, HeldRow

\* A port whose sessions do not change and that is occupied as before.
LEMMA StillTrue ==
    ASSUME StatusIsTrue, NEW p \in Port,
           charger'[p].status = "occupied" <=> charger[p].status = "occupied",
           Charging(p)' = Charging(p)
    PROVE  /\ charger'[p].status = "occupied" <=> Charging(p)' # {}
           /\ \A s, t \in Charging(p)' : s = t
BY DEF StatusIsTrue

LEMMA QuietTransaction ==
    ASSUME SerialInv, UNCHANGED session,
           Swept \/ Placed \/ GivenUp \/ TakenOut \/ Waited \/ UNCHANGED charger
    PROVE  RowsSound' /\ SessionsSound' /\ StatusIsTrue'
<1>1. SessionsSound'
  BY DEF SerialInv, SessionsSound
<1>2. \A p \in Port : Charging(p)' = Charging(p)
  BY DEF Charging
<1>3. ASSUME NEW S \in SUBSET Port, NEW row, SetRows(S, row), RowSound(row),
             row.status # "occupied", \A p \in S : charger[p].status # "occupied"
      PROVE  RowsSound' /\ StatusIsTrue'
  <2>1. /\ \A p \in S : charger'[p] = row
        /\ \A p \in Port \ S : charger'[p] = charger[p]
        /\ RowsSound'
    BY <1>3, RowsSet DEF SerialInv
  <2>2. \A p \in Port : charger'[p].status = "occupied" <=> charger[p].status = "occupied"
    BY <1>3, <2>1
  <2>3. StatusIsTrue'
    BY <1>2, <2>2, StillTrue DEF SerialInv, StatusIsTrue
  <2>4. QED
    BY <2>1, <2>3
<1>4. BlankRow.status # "occupied" /\ OutRow.status # "occupied"
      /\ \A u \in User : HeldRow(u).status # "occupied"
  BY DEF BlankRow, OutRow, HeldRow
<1>5. CASE Swept
  BY <1>1, <1>3, <1>4, <1>5, RowConstants DEF Swept, Stale
<1>6. CASE Placed
  <2>1. PICK p \in Port, u \in User : charger[p].status = "available" /\ SetRows({p}, HeldRow(u))
    BY <1>6 DEF Placed
  <2>2. {p} \in SUBSET Port
    OBVIOUS
  <2>3. QED
    BY <1>1, <1>3, <1>4, <2>1, <2>2, RowConstants
<1>7. CASE GivenUp
  <2>1. PICK p \in Port : charger[p].status = "reserved" /\ SetRows({p}, BlankRow)
    BY <1>7 DEF GivenUp
  <2>2. {p} \in SUBSET Port
    OBVIOUS
  <2>3. QED
    BY <1>1, <1>3, <1>4, <2>1, <2>2, RowConstants
<1>8. CASE TakenOut
  BY <1>1, <1>3, <1>4, <1>8, RowConstants DEF TakenOut
<1>9. CASE Waited
  <2>1. PICK v \in Port : Lapse(v)
    BY <1>9 DEF Waited
  <2>2. RowSound(charger[v]) /\ charger[v] \in Row
    BY DEF SerialInv, TypeOK, RowsSound
  <2>3. /\ charger'[v].status = charger[v].status /\ charger'[v].by = charger[v].by
        /\ charger'[v].until = "lapsed"
        /\ \A p \in Port \ {v} : charger'[p] = charger[p]
    BY <2>1, <2>2 DEF Lapse, SerialInv, TypeOK, Row
  <2>4. charger[v].status = "reserved"
    BY <2>1, <2>2 DEF Lapse, RowSound
  <2>5. RowSound(charger'[v])
    BY <2>2, <2>3, <2>4 DEF RowSound
  <2>6. \A p \in Port : RowSound(charger'[p])
    BY <2>3, <2>5 DEF SerialInv, RowsSound
  <2>7. RowsSound'
    BY <2>6 DEF RowsSound, RowSound
  <2>8. \A p \in Port : charger'[p].status = "occupied" <=> charger[p].status = "occupied"
    BY <2>3
  <2>9. StatusIsTrue'
    BY <1>2, <2>8, StillTrue DEF SerialInv, StatusIsTrue
  <2>10. QED
    BY <1>1, <2>7, <2>9
<1>10. CASE UNCHANGED charger
  BY <1>1, <1>2, <1>10, StillTrue DEF SerialInv, StatusIsTrue, RowsSound, RowSound
<1>11. QED
  BY <1>5, <1>6, <1>7, <1>8, <1>9, <1>10

LEMMA OpenedTransaction ==
    ASSUME SerialInv, Opened
    PROVE  RowsSound' /\ SessionsSound' /\ StatusIsTrue'
<1>1. PICK v \in Port, u \in User, s \in SessionId :
        /\ session[s].state = "unused"
        /\ charger[v].status \in {"available", "reserved"}
        /\ SetRows({v}, InUseRow)
        /\ session' = [session EXCEPT ![s] = OpenSession(u, v)]
  BY DEF Opened
<1>2. {v} \in SUBSET Port
  OBVIOUS
<1>3. /\ charger'[v] = InUseRow /\ RowsSound'
      /\ \A p \in Port \ {v} : charger'[p] = charger[p]
  BY <1>1, <1>2, RowsSet, RowConstants DEF SerialInv
<1>4. /\ session'[s].state = "open" /\ session'[s].port = v /\ session'[s].user = u
      /\ \A t \in SessionId \ {s} : session'[t] = session[t]
  BY <1>1 DEF SerialInv, TypeOK, OpenSession, UnusedSession
<1>5. SessionsSound'
  BY <1>4 DEF SerialInv, SessionsSound
<1>6. Charging(v) = {}
  BY <1>1 DEF SerialInv, StatusIsTrue
<1>7. Charging(v)' = {s}
  BY <1>4, <1>6 DEF Charging
<1>8. \A p \in Port \ {v} : Charging(p)' = Charging(p)
  BY <1>1, <1>4 DEF Charging
<1>9. InUseRow.status = "occupied"
  BY DEF InUseRow
<1>10. StatusIsTrue'
  BY <1>3, <1>7, <1>8, <1>9, StillTrue DEF SerialInv, StatusIsTrue
<1>11. QED
  BY <1>3, <1>5, <1>10

LEMMA ClosedTransaction ==
    ASSUME SerialInv, Closed
    PROVE  RowsSound' /\ SessionsSound' /\ StatusIsTrue'
<1>1. PICK s \in SessionId, energy \in BOOLEAN :
        /\ session[s].state = "open"
        /\ SetRows({session[s].port}, BlankRow)
        /\ session' = [session EXCEPT ![s] = Ended(@, energy)]
  BY DEF Closed
<1>2. PICK v \in Port : v = session[s].port /\ {v} \in SUBSET Port
  BY <1>1 DEF SerialInv, SessionsSound
<1>3. /\ charger'[v] = BlankRow /\ RowsSound'
      /\ \A p \in Port \ {v} : charger'[p] = charger[p]
  BY <1>1, <1>2, RowsSet, RowConstants DEF SerialInv
<1>4. /\ session'[s].state = "ended"
      /\ \A t \in SessionId \ {s} : session'[t] = session[t]
  BY <1>1 DEF SerialInv, TypeOK, Session, Ended
<1>5. SessionsSound'
  BY <1>4 DEF SerialInv, SessionsSound
<1>6. Charging(v) = {s}
  BY <1>1, <1>2 DEF SerialInv, StatusIsTrue, Charging
<1>7. Charging(v)' = {}
  BY <1>4, <1>6 DEF Charging
<1>8. \A p \in Port \ {v} : Charging(p)' = Charging(p)
  BY <1>1, <1>2, <1>4 DEF Charging
<1>9. BlankRow.status # "occupied"
  BY DEF BlankRow
<1>10. StatusIsTrue'
  BY <1>2, <1>3, <1>7, <1>8, <1>9, StillTrue DEF SerialInv, StatusIsTrue
<1>11. QED
  BY <1>3, <1>5, <1>10

\* Metering changes neither who charges where nor any port.
LEMMA MeteredEffect ==
    ASSUME TypeOK, Metered
    PROVE  /\ \A s \in SessionId : /\ session'[s].state = session[s].state
                                    /\ session'[s].port = session[s].port
                                    /\ session'[s].user = session[s].user
           /\ \A p \in Port : Charging(p)' = Charging(p)
           /\ UNCHANGED charger
<1>1. PICK v \in SessionId : session' = [session EXCEPT ![v].energy = TRUE]
  BY DEF Metered
<1>2. \A s \in SessionId : /\ session'[s].state = session[s].state
                           /\ session'[s].port = session[s].port
                           /\ session'[s].user = session[s].user
  BY <1>1 DEF TypeOK, Session
<1>3. QED
  BY <1>2 DEF Metered, Charging

LEMMA TransactionInv ==
    ASSUME SerialInv, Transaction
    PROVE  RowsSound' /\ SessionsSound' /\ StatusIsTrue'
<1>1. CASE Metered
  <2>1. TypeOK
    BY DEF SerialInv
  <2>2. SessionsSound'
    BY <1>1, <2>1, MeteredEffect DEF SerialInv, SessionsSound
  <2>3. StatusIsTrue'
    BY <1>1, <2>1, MeteredEffect, StillTrue DEF SerialInv, StatusIsTrue
  <2>4. RowsSound'
    BY <1>1 DEF Metered, SerialInv, RowsSound, RowSound
  <2>5. QED
    BY <2>2, <2>3, <2>4
<1>2. Swept \/ Placed \/ GivenUp \/ TakenOut \/ Waited => UNCHANGED session
  BY DEF Swept, Placed, GivenUp, TakenOut, Waited, Lapse
<1>3. QED
  BY <1>1, <1>2, QuietTransaction, OpenedTransaction, ClosedTransaction DEF Transaction

-----------------------------------------------------------------------------
(***************************************************************************)
(* Requests in flight stay sound                                           *)
(***************************************************************************)

LEMMA KeptAsIs == \A row : Kept(row, row)
BY DEF Kept

LEMMA NoRequestSound == RequestSound(NoRequest)'
BY DEF RequestSound, Same, NoRequest

\* With one worker, its request is all there is.
LEMMA OneRequest ==
    ASSUME OneAtATime, NEW r \in Worker, RequestSound(req[r])'
    PROVE  RequestsSound'
<1>1. \A w \in Worker : w = r
  BY DEF OneAtATime
<1>2. QED
  BY <1>1 DEF RequestsSound

LEMMA DroppedSound ==
    ASSUME TypeOK, OneAtATime, NEW r \in Worker, Become(r, NoRequest)
    PROVE  RequestsSound'
<1>1. req'[r] = NoRequest
  BY DroppedEffect
<1>2. RequestSound(req[r])'
  BY <1>1, NoRequestSound DEF RequestSound, Expiring, Choosing, Seeking, Holding, Freeing,
     Retiring, Claiming, Releasing, Reserving, NewSession
<1>3. QED
  BY <1>2, OneRequest

\* A handler that has just loaded every port and expired what has lapsed.
LEMMA ExpiredSound ==
    ASSUME SerialInv, OneAtATime, UNCHANGED <<charger, session>>, NEW r \in Worker,
           NEW op \in {"look", "reserve_any"}, NEW u, op = "reserve_any" => u \in User,
           NEW phase \in {"select", "expire"},
           phase = "select" => op = "reserve_any" /\ Lapsed(charger) = {},
           Goes(r, op, phase, u, Port, charger, Expired(charger))
    PROVE  RequestsSound'
<1>1. TypeOK
  BY DEF SerialInv
<1>2. /\ req'[r].loaded = charger /\ req'[r].assigned = Expired(charger)
      /\ req'[r].op = op /\ req'[r].phase = phase /\ req'[r].user = u
      /\ req'[r].ports = Port
  BY <1>1, GoesEffect
<1>3. \A p \in Port : /\ Same(req[r], p)' \/ Sweeps(req[r], p)'
                      /\ phase = "select" => Same(req[r], p)'
  BY <1>2 DEF Expired, Lapsed, Same, Sweeps, Frees
<1>4. \A p \in Port : Kept(req[r].loaded[p], charger[p])'
  BY <1>2, KeptAsIs
<1>5. CASE phase = "expire"
  <2>1. Expiring(req[r])'
    BY <1>2, <1>3, <1>5 DEF Expiring, Reserving
  <2>2. QED
    BY <1>4, <2>1, OneRequest DEF RequestSound
<1>6. CASE phase = "select"
  <2>1. Choosing(req[r])'
    BY <1>2, <1>3, <1>4, <1>6 DEF Choosing, Reserving
  <2>2. QED
    BY <1>4, <2>1, OneRequest DEF RequestSound
<1>7. QED
  BY <1>5, <1>6

\* A handler that has just loaded one port and assigned to it.
LEMMA OneRowRequest ==
    ASSUME UNCHANGED charger, NEW r \in Worker, NEW v \in Port, NEW old, NEW new,
           Kept(old, charger[v]),
           req'[r].ports = {v}, req'[r].loaded = OneRow(v, old),
           req'[r].assigned = OneRow(v, new)
    PROVE  /\ Only(req[r], v)'
           /\ req'[r].loaded[v] = old /\ req'[r].assigned[v] = new
           /\ \A p \in Port : Same(req[r], p)' \/ Kept(req[r].loaded[p], charger[p])'
<1>1. /\ req'[r].loaded[v] = old /\ req'[r].assigned[v] = new
      /\ \A p \in Port \ {v} : req'[r].loaded[p] = req'[r].assigned[p]
  BY OneRowAt
<1>2. QED
  BY <1>1 DEF Only, Same

LEMMA StationRequestSound ==
    ASSUME SerialInv, OneAtATime, NEW r \in Worker, StationRequest(r)
    PROVE  RequestsSound'
<1>1. TypeOK
  BY DEF SerialInv
<1>2. UNCHANGED <<charger, session>>
  BY <1>1, StationRequestType
<1>3. CASE Look(r)
  BY <1>2, <1>3, ExpiredSound DEF Look
<1>4. ASSUME NEW u \in User, ReserveAny(r, u)
      PROVE  RequestsSound'
  BY <1>2, <1>4, ExpiredSound DEF ReserveAny
<1>5. ASSUME NEW u \in User, NEW v \in Port,
             NEW op, NEW phase, NEW new,
             Goes(r, op, phase, u, {v}, OneRow(v, charger[v]), OneRow(v, new))
      PROVE  /\ Only(req[r], v)'
             /\ req'[r].loaded[v] = charger[v] /\ req'[r].assigned[v] = new
             /\ \A p \in Port : Same(req[r], p)' \/ Kept(req[r].loaded[p], charger[p])'
             /\ req'[r].op = op /\ req'[r].phase = phase /\ req'[r].user = u
  <2>1. /\ req'[r].loaded = OneRow(v, charger[v]) /\ req'[r].assigned = OneRow(v, new)
        /\ req'[r].op = op /\ req'[r].phase = phase /\ req'[r].user = u
        /\ req'[r].ports = {v}
    BY <1>1, <1>5, GoesEffect
  <2>2. QED
    BY <1>2, <2>1, OneRowRequest, KeptAsIs
<1>6. ASSUME NEW u \in User, NEW v \in Port, ReserveLapsed(r, u, v)
      PROVE  RequestsSound'
  <2>1. /\ Only(req[r], v)'
        /\ req'[r].loaded[v] = charger[v] /\ req'[r].assigned[v] = Freed(charger[v])
        /\ \A p \in Port : Same(req[r], p)' \/ Kept(req[r].loaded[p], charger[p])'
        /\ req'[r].op = "reserve" /\ req'[r].phase = "expire" /\ req'[r].user = u
    BY <1>5, <1>6 DEF ReserveLapsed
  <2>2. Sweeps(req[r], v)'
    BY <1>6, <2>1 DEF ReserveLapsed, Lapsed, Sweeps, Frees
  <2>3. Expiring(req[r])'
    BY <2>1, <2>2 DEF Expiring, Reserving, Only
  <2>4. QED
    BY <2>1, <2>3, OneRequest DEF RequestSound
<1>7. ASSUME NEW u \in User, NEW v \in Port, Reserve(r, u, v)
      PROVE  RequestsSound'
  <2>1. /\ Only(req[r], v)'
        /\ req'[r].loaded[v] = charger[v] /\ req'[r].assigned[v] = Held(charger[v], u)
        /\ \A p \in Port : Same(req[r], p)' \/ Kept(req[r].loaded[p], charger[p])'
        /\ req'[r].op = "reserve" /\ req'[r].phase = "commit" /\ req'[r].user = u
    BY <1>5, <1>7 DEF Reserve
  <2>2. Holds(req[r], v)'
    BY <1>7, <2>1 DEF Reserve, Available, Holds
  <2>3. Holding(req[r])'
    BY <2>1, <2>2 DEF Holding, Reserving
  <2>4. QED
    BY <2>1, <2>3, OneRequest DEF RequestSound
<1>8. ASSUME NEW u \in User, NEW v \in Port, Cancel(r, u, v)
      PROVE  RequestsSound'
  <2>1. /\ Only(req[r], v)'
        /\ req'[r].loaded[v] = charger[v] /\ req'[r].assigned[v] = Freed(charger[v])
        /\ \A p \in Port : Same(req[r], p)' \/ Kept(req[r].loaded[p], charger[p])'
        /\ req'[r].op = "cancel" /\ req'[r].phase = "commit" /\ req'[r].user = u
    BY <1>5, <1>8 DEF Cancel
  <2>2. Frees(req[r], v)'
    BY <1>8, <2>1 DEF Cancel, HeldBy, Frees
  <2>3. Freeing(req[r])'
    BY <2>1, <2>2 DEF Freeing
  <2>4. QED
    BY <2>1, <2>3, OneRequest DEF RequestSound
<1>9. QED
  BY <1>3, <1>4, <1>6, <1>7, <1>8 DEF StationRequest

\* A start that has found its port.
LEMMA StartsSound ==
    ASSUME SerialInv, OneAtATime, UNCHANGED <<charger, session>>, NEW r \in Worker,
           NEW u \in User, NEW s \in SessionId, session[s].state = "unused", NEW v \in Port,
           \/ charger[v].status = "available"
           \/ charger[v].status = "reserved" /\ charger[v].by = u,
           Starts(r, u, s, v)
    PROVE  RequestsSound'
<1>1. TypeOK
  BY DEF SerialInv
<1>2. /\ req'[r].loaded = OneRow(v, charger[v])
      /\ req'[r].assigned = OneRow(v, Claimed(charger[v]))
      /\ req'[r].op = "start" /\ req'[r].phase = "commit"
      /\ req'[r].user = u /\ req'[r].ports = {v} /\ req'[r].session = s
  BY <1>1, StartsEffect
<1>3. /\ Only(req[r], v)'
      /\ req'[r].loaded[v] = charger[v] /\ req'[r].assigned[v] = Claimed(charger[v])
      /\ \A p \in Port : Same(req[r], p)' \/ Kept(req[r].loaded[p], charger[p])'
  BY <1>2, OneRowRequest, KeptAsIs
<1>4. Claims(req[r], v)'
  BY <1>2, <1>3 DEF Claims
<1>5. Claiming(req[r])'
  BY <1>2, <1>3, <1>4 DEF Claiming, NewSession
<1>6. QED
  BY <1>3, <1>5, OneRequest DEF RequestSound

LEMMA SessionRequestSound ==
    ASSUME SerialInv, OneAtATime, NEW r \in Worker, SessionRequest(r)
    PROVE  RequestsSound'
<1>1. TypeOK
  BY DEF SerialInv
<1>2. UNCHANGED <<charger, session>>
  BY <1>1, SessionRequestType
<1>3. ASSUME NEW u \in User, NEW s \in SessionId, StartAtStation(r, u, s)
      PROVE  RequestsSound'
  <2>1. session[s].state = "unused"
    BY <1>3 DEF StartAtStation, Unclaimed
  <2>2. ASSUME NEW v \in Port, Lowest(v, HeldBy(u)), Starts(r, u, s, v)
        PROVE  RequestsSound'
    BY <1>2, <2>1, <2>2, StartsSound DEF Lowest, HeldBy
  <2>3. ASSUME Become(r, [NoRequest EXCEPT !.op = "start", !.phase = "select",
                                           !.user = u, !.session = s])
        PROVE  RequestsSound'
    <3>1. /\ req'[r].op = "start" /\ req'[r].phase = "select" /\ req'[r].user = u
          /\ req'[r].session = s /\ req'[r].loaded = req'[r].assigned
      BY <1>1, <2>3 DEF Become, TypeOK, NoRequest
    <3>2. \A p \in Port : Same(req[r], p)'
      BY <3>1 DEF Same
    <3>3. Seeking(req[r])'
      BY <1>2, <2>1, <3>1, <3>2 DEF Seeking, NewSession
    <3>4. QED
      BY <3>2, <3>3, OneRequest DEF RequestSound
  <2>4. QED
    BY <1>3, <2>2, <2>3 DEF StartAtStation
<1>4. ASSUME NEW s \in SessionId, Complete(r, s)
      PROVE  RequestsSound'
  <2>1. session[s].state = "open"
    BY <1>4 DEF Complete, OneAtATime
  <2>2. PICK v \in Port : v = session[s].port
    BY <2>1 DEF SerialInv, SessionsSound
  <2>3. v # NoPort
    BY ConstantsAssumption DEF Port, NoPort
  <2>4. /\ req'[r].op = "complete" /\ req'[r].session = s /\ req'[r].phase = "commit"
        /\ req'[r].ports = {v}
        /\ req'[r].loaded = OneRow(v, charger[v])
        /\ req'[r].assigned = OneRow(v, Completed(charger[v]))
    BY <1>1, <1>4, <2>2, <2>3 DEF Complete, Become, TypeOK, NoRequest
  <2>5. /\ Only(req[r], v)'
        /\ req'[r].loaded[v] = charger[v] /\ req'[r].assigned[v] = Completed(charger[v])
        /\ \A p \in Port : Same(req[r], p)' \/ Kept(req[r].loaded[p], charger[p])'
    BY <1>2, <2>4, OneRowRequest, KeptAsIs
  <2>6. Releasing(req[r])'
    BY <1>2, <2>1, <2>2, <2>4, <2>5, KeptAsIs DEF Releasing
  <2>7. QED
    BY <2>5, <2>6, OneRequest DEF RequestSound
<1>5. QED
  BY <1>3, <1>4 DEF SessionRequest

LEMMA StatusRequestSound ==
    ASSUME SerialInv, OneAtATime, NEW r \in Worker, StatusRequest(r)
    PROVE  RequestsSound'
<1>1. TypeOK
  BY DEF SerialInv
<1>2. UNCHANGED <<charger, session>>
  BY <1>1, StatusRequestType
<1>3. Fault(r)
  BY DEF StatusRequest, OneAtATime, Scenario, UpdateCharger, Begin
<1>4. PICK new : /\ new = [p \in Port |-> IF p \in Available
                                          THEN Marked(charger[p], "maintenance")
                                          ELSE charger[p]]
                 /\ Goes(r, "fault", "commit", NoUser, Port, charger, new)
  BY <1>3 DEF Fault
<1>5. /\ req'[r].loaded = charger /\ req'[r].assigned = new
      /\ req'[r].op = "fault" /\ req'[r].phase = "commit"
  BY <1>1, <1>4, GoesEffect
<1>6. \A p \in Port : Same(req[r], p)' \/ Retires(req[r], p)'
  BY <1>4, <1>5 DEF Same, Retires, Available
<1>7. Retiring(req[r])'
  BY <1>5, <1>6 DEF Retiring
<1>8. \A p \in Port : Kept(req[r].loaded[p], charger[p])'
  BY <1>2, <1>5, KeptAsIs
<1>9. QED
  BY <1>7, <1>8, OneRequest DEF RequestSound

LEMMA ReserveSelectedSound ==
    ASSUME SerialInv, OneAtATime, NEW r \in Worker, ReserveSelected(r)
    PROVE  RequestsSound'
<1>1. TypeOK
  BY DEF SerialInv
<1>2. UNCHANGED <<charger, session>>
  BY DEF ReserveSelected
<1>3. Choosing(req[r])
  BY SoundPhases DEF ReserveSelected, Seeking
<1>4. ASSUME NEW v \in req[r].ports, Lowest(v, Available \cap req[r].ports),
             Goes(r, req[r].op, "commit", req[r].user, {v}, OneRow(v, Selected(r, v)),
                  OneRow(v, Held(Selected(r, v), req[r].user)))
      PROVE  RequestsSound'
  <2>1. v \in Port /\ charger[v].status = "available"
    BY <1>1, <1>4 DEF TypeOK, Request, Lowest, Available
  <2>2. Selected(r, v) = charger[v]
    <3>1. req[r].loaded[v] \in Row
      BY <1>1, <2>1, Loaded
    <3>2. req[r].phase = "select" => Kept(req[r].loaded[v], charger[v])
      BY <1>3 DEF Choosing
    <3>3. QED
      BY <2>1, <3>1, <3>2 DEF Selected, Kept, Row
  <2>3. PICK row, op, u : row = charger[v] /\ op = req[r].op /\ u = req[r].user
    OBVIOUS
  <2>4. Goes(r, op, "commit", u, {v}, OneRow(v, row), OneRow(v, Held(row, u)))
    BY <1>4, <2>2, <2>3
  <2>5. /\ req'[r].loaded = OneRow(v, row) /\ req'[r].assigned = OneRow(v, Held(row, u))
        /\ req'[r].op = op /\ req'[r].phase = "commit" /\ req'[r].user = u
        /\ req'[r].ports = {v}
    BY <1>1, <2>4, GoesEffect
  <2>6. /\ Only(req[r], v)'
        /\ req'[r].loaded[v] = row /\ req'[r].assigned[v] = Held(row, u)
        /\ \A p \in Port : Same(req[r], p)' \/ Kept(req[r].loaded[p], charger[p])'
    BY <1>2, <2>1, <2>3, <2>5, OneRowRequest, KeptAsIs
  <2>7. Holds(req[r], v)'
    BY <2>1, <2>3, <2>5, <2>6 DEF Holds
  <2>8. Holding(req[r])'
    BY <1>3, <2>1, <2>3, <2>5, <2>6, <2>7 DEF Choosing, Holding, Reserving
  <2>9. QED
    BY <2>6, <2>8, OneRequest DEF RequestSound
<1>5. QED
  BY <1>1, <1>4, DroppedSound DEF ReserveSelected

LEMMA ContinueSound ==
    ASSUME SerialInv, OneAtATime, NEW r \in Worker, Continue(r)
    PROVE  RequestsSound'
<1>1. TypeOK
  BY DEF SerialInv
<1>2. CASE StartSelected(r)
  <2>1. Seeking(req[r])
    BY <1>2, SoundPhases DEF StartSelected, Choosing, Reserving
  <2>2. UNCHANGED <<charger, session>>
    BY <1>2 DEF StartSelected
  <2>3. ASSUME NEW v \in Port, Lowest(v, Available), Starts(r, req[r].user, req[r].session, v)
        PROVE  RequestsSound'
    BY <2>1, <2>2, <2>3, StartsSound DEF Lowest, Available, Seeking, NewSession
  <2>4. QED
    BY <1>1, <1>2, <2>3, DroppedSound DEF StartSelected
<1>3. CASE CommitExpiry(r)
  <2>1. CASE req[r].op = "look"
    BY <1>1, <1>3, <2>1, DroppedSound DEF CommitExpiry
  <2>2. CASE req[r].op # "look"
    <3>1. Reserving(req[r])
      BY <1>3, <2>2, SoundPhases DEF CommitExpiry, Expiring
    <3>2. /\ req'[r].loaded = BlankRows /\ req'[r].assigned = BlankRows
          /\ req'[r].op = req[r].op /\ req'[r].phase = "reselect"
          /\ req'[r].user = req[r].user
      BY <1>1, <1>3, <2>2, GoesEffect DEF CommitExpiry
    <3>3. \A p \in Port : Same(req[r], p)'
      BY <3>2 DEF Same
    <3>4. Choosing(req[r])'
      BY <3>1, <3>2, <3>3 DEF Choosing, Reserving
    <3>5. QED
      BY <3>3, <3>4, OneRequest DEF RequestSound
  <2>3. QED
    BY <2>1, <2>2
<1>4. CASE CommitRows(r) \/ CommitStart(r) \/ CommitComplete(r)
  BY <1>1, <1>4, DroppedSound DEF CommitRows, CommitStart, CommitComplete
<1>5. QED
  BY <1>2, <1>3, <1>4, ReserveSelectedSound DEF Continue

\* Time passing and metering leave the requests as they are, and as sound.
LEMMA WaitingSound ==
    ASSUME SerialInv, Metered \/ Waited, UNCHANGED req
    PROVE  RequestsSound'
<1>1. TypeOK /\ RowsSound /\ RequestsSound
  BY DEF SerialInv
<1>2. \A s \in SessionId : /\ session'[s].state = session[s].state
                           /\ session'[s].port = session[s].port
  BY <1>1, MeteredEffect DEF Waited, Lapse
<1>3. ASSUME NEW r \in Worker, NEW p \in Port, Kept(req[r].loaded[p], charger[p])
      PROVE  Kept(req[r].loaded[p], charger[p])'
  <2>1. CASE UNCHANGED charger
    BY <1>3, <2>1
  <2>2. ASSUME NEW v \in Port, Lapse(v)
        PROVE  Kept(req[r].loaded[p], charger[p])'
    <3>1. req[r].loaded[p] \in Row /\ charger[p] \in Row /\ RowSound(charger[p])
      BY <1>1, Loaded DEF RowsSound
    <3>2. CASE p = v
      <4>1. charger'[p] = [charger[p] EXCEPT !.until = "lapsed"] /\ charger[p].until = "live"
        BY <1>1, <2>2, <3>2 DEF Lapse, TypeOK
      <4>2. charger[p].status = "reserved"
        BY <3>1, <4>1 DEF RowSound
      <4>3. charger[p] = req[r].loaded[p]
        BY <1>3, <3>1, <4>1 DEF Kept, Row
      <4>4. QED
        BY <4>1, <4>2, <4>3 DEF Kept
    <3>3. CASE p # v
      <4>1. charger'[p] = charger[p]
        BY <1>1, <2>2, <3>3 DEF Lapse, TypeOK
      <4>2. QED
        BY <1>3, <4>1
    <3>4. QED
      BY <3>2, <3>3
  <2>3. QED
    BY <2>1, <2>2 DEF Metered, Waited
<1>4. SUFFICES ASSUME NEW r \in Worker PROVE RequestSound(req[r])'
  BY DEF RequestsSound
<1>5. RequestSound(req[r]) /\ req[r] \in Request
  BY <1>1 DEF RequestsSound, TypeOK
<1>6. \A p \in Port : Same(req[r], p)' \/ Kept(req[r].loaded[p], charger[p])'
  BY <1>3, <1>5 DEF RequestSound, Same
<1>7. /\ Expiring(req[r]) => Expiring(req[r])'
      /\ Holding(req[r]) => Holding(req[r])'
      /\ Freeing(req[r]) => Freeing(req[r])'
      /\ Retiring(req[r]) => Retiring(req[r])'
  BY DEF Expiring, Holding, Freeing, Retiring, Same, Sweeps, Frees, Holds, Retires, Only
<1>8. Choosing(req[r]) => Choosing(req[r])'
  BY <1>3, <1>5 DEF Choosing, Same, Request
<1>9. NewSession(req[r]) => NewSession(req[r])'
  BY <1>2 DEF NewSession
<1>10. Seeking(req[r]) => Seeking(req[r])'
  BY <1>9 DEF Seeking, Same
<1>11. Claiming(req[r]) => Claiming(req[r])'
  BY <1>9 DEF Claiming, Claims, Only, Same
<1>12. Releasing(req[r]) => Releasing(req[r])'
  BY <1>2, <1>3 DEF Releasing, Only, Same
<1>13. QED
  BY <1>5, <1>6, <1>7, <1>8, <1>10, <1>11, <1>12 DEF RequestSound

LEMMA SerialInvStep ==
    ASSUME OneAtATime, SerialInv, [Next]_vars, TypeOK'
    PROVE  SerialInv'
<1>1. RowsSound' /\ SessionsSound' /\ StatusIsTrue'
  BY StepIsTransaction, TransactionInv
<1>2. RequestsSound'
  <2>1. CASE UNCHANGED vars
    <3>1. RequestsSound
      BY DEF SerialInv
    <3>2. QED
      BY <2>1, <3>1 DEF vars, RequestsSound, RequestSound, Expiring, Choosing, Seeking,
         Holding, Freeing, Retiring, Claiming, Releasing, Reserving, NewSession, Same, Kept,
         Sweeps, Frees, Holds, Retires, Claims, Only
  <2>2. ASSUME NEW r \in Worker, Abort(r)
        PROVE  RequestsSound'
    BY <2>2, DroppedSound DEF SerialInv, Abort
  <2>3. CASE OneStepRequest
    <3>1. Metered /\ UNCHANGED req
      BY <2>3 DEF OneAtATime, OneStepRequest, StartSession, UpdateEnergy, UpdateEndTime,
         UpdateRow, Metered
    <3>2. QED
      BY <3>1, WaitingSound
  <2>4. ASSUME NEW p \in Port, Lapse(p)
        PROVE  RequestsSound'
    BY <2>4, WaitingSound DEF Lapse, Waited
  <2>5. QED
    BY <2>1, <2>2, <2>3, <2>4, StationRequestSound, SessionRequestSound, StatusRequestSound,
       ContinueSound DEF Next
<1>3. QED
  BY <1>1, <1>2 DEF SerialInv

LEMMA SerialInvInit == Init => SerialInv
<1> SUFFICES ASSUME Init PROVE SerialInv
  OBVIOUS
<1>1. TypeOK
  BY BlankTypes, NoRequestType DEF Init, TypeOK, UnusedSession, Session
<1>2. RowsSound
  BY DEF Init, RowsSound, RowSound, BlankRows, BlankRow
<1>3. \A s \in SessionId : session[s].state = "unused"
  BY DEF Init, UnusedSession
<1>4. \A p \in Port : Charging(p) = {} /\ charger[p].status = "available"
  BY <1>3 DEF Init, Charging, BlankRows, BlankRow
<1>5. StatusIsTrue /\ SessionsSound
  BY <1>3, <1>4 DEF StatusIsTrue, SessionsSound
<1>6. RequestsSound
  BY DEF Init, RequestsSound, RequestSound, Same, NoRequest
<1>7. QED
  BY <1>1, <1>2, <1>5, <1>6 DEF SerialInv

LEMMA SerialInvariant ==
    ASSUME OneAtATime
    PROVE  Spec => []SerialInv
<1>1. SerialInv /\ [Next]_vars /\ TypeOK' => SerialInv'
  BY SerialInvStep
<1>2. QED
  BY <1>1, SerialInvInit, TypeCorrect, PTL DEF Spec

\* While one handler runs at a time, through any sequence of reservations, starts,
\* completions, expiries, faults and aborts, the status column tells the truth: a
\* port is occupied exactly when a session is open at it, and no two sessions are.
THEOREM StatusIsTrueAlone ==
    ASSUME OneAtATime
    PROVE  Spec => []StatusIsTrue
<1>1. SerialInv => StatusIsTrue
  BY DEF SerialInv
<1>2. QED
  BY <1>1, SerialInvariant, PTL

\* While one handler runs at a time, a live hold is broken by nobody: the next
\* session opened at the port is its holder's.  Only handlers that overlap can
\* hand a held port to another driver.
THEOREM HoldsAreKeptAlone ==
    ASSUME OneAtATime
    PROVE  Spec => HeldPortGoesToItsHolder
<1> DEFINE A == \A p \in Port, s \in SessionId :
                  (/\ charger[p].status = "reserved" /\ charger[p].until = "live"
                   /\ session[s].state = "unused" /\ session'[s].state = "open"
                   /\ session'[s].port = p)
                  => session'[s].user = charger[p].by
<1>1. SerialInv /\ [Next]_vars => [A]_vars
  <2> SUFFICES ASSUME SerialInv, [Next]_vars, NEW p \in Port, NEW s \in SessionId,
                      charger[p].status = "reserved",
                      session[s].state = "unused", session'[s].state = "open",
                      session'[s].port = p
               PROVE  session'[s].user = charger[p].by
    OBVIOUS
  <2>1. TypeOK /\ Transaction
    BY StepIsTransaction DEF SerialInv
  <2>2. ~UNCHANGED session /\ ~Metered
    BY <2>1, MeteredEffect
  <2>3. ~Closed
    <3>1. ASSUME NEW t \in SessionId, NEW energy \in BOOLEAN, session[t].state = "open",
                 session' = [session EXCEPT ![t] = Ended(@, energy)]
          PROVE  FALSE
      BY <2>1, <3>1 DEF TypeOK
    <3>2. QED
      BY <3>1 DEF Closed
  <2>4. Opened
    BY <2>1, <2>2, <2>3
       DEF Transaction, Swept, Placed, GivenUp, TakenOut, Waited, Lapse
  <2>5. PICK v \in Port, u \in User, t \in SessionId :
          /\ \/ charger[v].status = "available"
             \/ charger[v].status = "reserved" /\ charger[v].by = u
          /\ session' = [session EXCEPT ![t] = OpenSession(u, v)]
    BY <2>4 DEF Opened
  <2>6. t = s
    BY <2>1, <2>5 DEF TypeOK
  <2>7. session'[s].port = v /\ session'[s].user = u
    BY <2>1, <2>5, <2>6 DEF TypeOK, OpenSession, UnusedSession
  <2>8. QED
    BY <2>5, <2>7
<1> HIDE DEF A
<1>2. Spec => [][A]_vars
  BY <1>1, SerialInvariant, PTL DEF Spec
<1>3. QED
  BY <1>2 DEF A, HeldPortGoesToItsHolder

\* While one handler runs at a time and no client completes a session twice, a
\* session is logged at most once (entities.py: "One row per completed session").
THEOREM OneLogAlone ==
    ASSUME OneAtATime
    PROVE  Spec => []OneLogPerSession
<1> DEFINE LogsSound == \A s \in SessionId : /\ session[s].logs <= 1
                                             /\ session[s].state = "open" => session[s].logs = 0
<1>1. Init => LogsSound
  BY DEF Init, UnusedSession
<1>2. SerialInv /\ LogsSound /\ [Next]_vars => LogsSound'
  <2> SUFFICES ASSUME SerialInv, LogsSound, [Next]_vars PROVE LogsSound'
    OBVIOUS
  <2>1. TypeOK /\ Transaction
    BY StepIsTransaction DEF SerialInv
  <2>2. CASE UNCHANGED session
    BY <2>2
  <2>3. CASE Metered
    <3>1. PICK v \in SessionId : session' = [session EXCEPT ![v].energy = TRUE]
      BY <2>3 DEF Metered
    <3>2. \A s \in SessionId : /\ session'[s].logs = session[s].logs
                               /\ session'[s].state = session[s].state
      BY <2>1, <3>1 DEF TypeOK, Session
    <3>3. QED
      BY <3>2
  <2>4. CASE Opened
    <3>1. PICK p \in Port, u \in User, s \in SessionId :
            session' = [session EXCEPT ![s] = OpenSession(u, p)]
      BY <2>4 DEF Opened
    <3>2. session'[s].logs = 0 /\ \A t \in SessionId \ {s} : session'[t] = session[t]
      BY <2>1, <3>1 DEF TypeOK, OpenSession, UnusedSession
    <3>3. QED
      BY <3>2
  <2>5. CASE Closed
    <3>1. PICK s \in SessionId, energy \in BOOLEAN :
            /\ session[s].state = "open"
            /\ session' = [session EXCEPT ![s] = Ended(@, energy)]
      BY <2>5 DEF Closed
    <3>2. /\ session'[s].state = "ended" /\ session'[s].logs <= session[s].logs + 1
          /\ \A t \in SessionId \ {s} : session'[t] = session[t]
      BY <2>1, <3>1 DEF TypeOK, Session, Ended
    <3>3. session[s].logs = 0
      BY <3>1
    <3>4. QED
      BY <3>2, <3>3
  <2>6. QED
    BY <2>1, <2>2, <2>3, <2>4, <2>5
       DEF Transaction, Swept, Placed, GivenUp, TakenOut, Waited, Lapse
<1>3. LogsSound => OneLogPerSession
  BY DEF OneLogPerSession
<1>4. QED
  BY <1>1, <1>2, <1>3, SerialInvariant, PTL DEF Spec

-----------------------------------------------------------------------------
(***************************************************************************)
(* The tables implement StationPorts                                       *)
(***************************************************************************)

LEMMA OnlyMember ==
    ASSUME NEW S, NEW s \in S, \A a, b \in S : a = b
    PROVE  (CHOOSE x \in S : TRUE) = s
<1>1. (CHOOSE x \in S : TRUE) \in S
  OBVIOUS
<1>2. QED
  BY <1>1

\* Whom a port works for, by what it is doing.
LEMMA DriverNow ==
    ASSUME NEW p \in Port
    PROVE  /\ charger[p].status = "reserved" => PortDriver(p) = charger[p].by
           /\ charger[p].status \notin {"reserved", "occupied"} => PortDriver(p) = NoUser
BY DEF PortDriver

LEMMA DriverThen ==
    ASSUME NEW p \in Port
    PROVE  /\ charger'[p].status = "reserved" => PortDriver(p)' = charger'[p].by
           /\ charger'[p].status \notin {"reserved", "occupied"} => PortDriver(p)' = NoUser
BY DEF PortDriver

LEMMA PortUnchanged ==
    ASSUME StatusIsTrue, NEW p \in Port, charger'[p] = charger[p],
           Charging(p)' = Charging(p),
           \A s \in Charging(p) : session'[s].user = session[s].user
    PROVE  PortUse(charger[p])' = PortUse(charger[p]) /\ PortDriver(p)' = PortDriver(p)
<1>1. PortUse(charger[p])' = PortUse(charger[p])
  BY DEF PortUse
<1>2. CASE charger[p].status = "occupied"
  <2>1. PICK s \in Charging(p) : TRUE
    BY <1>2 DEF StatusIsTrue
  <2>2. \A a, b \in Charging(p) : a = b
    BY DEF StatusIsTrue
  <2>3. (CHOOSE x \in Charging(p) : TRUE) = s
    BY <2>1, <2>2, OnlyMember
  <2>4. (CHOOSE x \in Charging(p)' : TRUE) = s
    BY <2>1, <2>2, OnlyMember
  <2>5. PortDriver(p) = session[s].user
    BY <1>2, <2>3 DEF PortDriver
  <2>6. PortDriver(p)' = session'[s].user
    BY <1>2, <2>4 DEF PortDriver
  <2>7. QED
    BY <1>1, <2>1, <2>5, <2>6
<1>3. CASE charger[p].status # "occupied"
  BY <1>1, <1>3 DEF PortDriver
<1>4. QED
  BY <1>2, <1>3

\* A port's use and driver after it is set.
LEMMA PortSet ==
    ASSUME NEW p \in Port
    PROVE  /\ charger'[p] = BlankRow => PortUse(charger[p])' = "free" /\ PortDriver(p)' = NoUser
           /\ charger'[p] = OutRow => PortUse(charger[p])' = "out" /\ PortDriver(p)' = NoUser
           /\ \A u \in User : charger'[p] = HeldRow(u) =>
                PortUse(charger[p])' = "held" /\ PortDriver(p)' = u
BY DriverThen DEF PortUse, BlankRow, OutRow, HeldRow

LEMMA BecomeSets ==
    ASSUME NEW S \in SUBSET Port, NEW what, NEW u,
           \A p \in S : PortUse(charger[p])' = what /\ PortDriver(p)' = u,
           \A p \in Port \ S : /\ PortUse(charger[p])' = PortUse(charger[p])
                               /\ PortDriver(p)' = PortDriver(p)
    PROVE  Ports!Become(S, what, u)
BY DEF Ports!Become

\* Setting the rows of S where no session changes.
LEMMA SetBecomes ==
    ASSUME SerialInv, UNCHANGED session, NEW S \in SUBSET Port, NEW row, SetRows(S, row),
           NEW what, NEW u,
           \A p \in S : charger'[p] = row =>
                          PortUse(charger[p])' = what /\ PortDriver(p)' = u
    PROVE  Ports!Become(S, what, u)
<1>1. \A p \in Port : charger'[p] = IF p \in S THEN row ELSE charger[p]
  BY DEF SetRows
<1>2. \A p \in Port \ S : /\ PortUse(charger[p])' = PortUse(charger[p])
                          /\ PortDriver(p)' = PortDriver(p)
  <2>1. \A p \in Port : Charging(p)' = Charging(p)
    BY DEF Charging
  <2>2. QED
    BY <1>1, <2>1, PortUnchanged DEF SerialInv
<1>3. QED
  BY <1>1, <1>2, BecomeSets

LEMMA QuietImplements ==
    ASSUME SerialInv, Swept \/ Placed \/ GivenUp \/ TakenOut
    PROVE  Ports!PortsNext
<1>1. CASE Swept
  <2>1. PICK S \in SUBSET Port : /\ \A p \in S : Stale(p)
                                 /\ SetRows(S, BlankRow) /\ UNCHANGED session
    BY <1>1 DEF Swept
  <2>2. Ports!Become(S, "free", NoUser)
    BY <2>1, SetBecomes, PortSet
  <2>3. \A p \in S : PortUse(charger[p]) = "stale"
    BY <2>1 DEF Stale, PortUse
  <2>4. Ports!Sweep(S)
    BY <2>2, <2>3 DEF Ports!Sweep
  <2>5. QED
    BY <2>4 DEF Ports!PortsNext
<1>2. CASE Placed
  <2>1. PICK p \in Port, u \in User : /\ charger[p].status = "available"
                                      /\ SetRows({p}, HeldRow(u)) /\ UNCHANGED session
    BY <1>2 DEF Placed
  <2>2. Ports!Become({p}, "held", u)
    BY <2>1, SetBecomes, PortSet
  <2>3. Ports!Hold(p, u)
    BY <2>1, <2>2 DEF Ports!Hold, PortUse
  <2>4. QED
    BY <2>3 DEF Ports!PortsNext
<1>3. CASE GivenUp
  <2>1. PICK p \in Port : /\ charger[p].status = "reserved"
                          /\ SetRows({p}, BlankRow) /\ UNCHANGED session
    BY <1>3 DEF GivenUp
  <2>2. Ports!Become({p}, "free", NoUser)
    BY <2>1, SetBecomes, PortSet
  <2>3. Ports!GiveUp(p)
    BY <2>1, <2>2 DEF Ports!GiveUp, PortUse
  <2>4. QED
    BY <2>3 DEF Ports!PortsNext
<1>4. CASE TakenOut
  <2>1. PICK S \in SUBSET Port : /\ \A p \in S : charger[p].status = "available"
                                 /\ SetRows(S, OutRow) /\ UNCHANGED session
    BY <1>4 DEF TakenOut
  <2>2. Ports!Become(S, "out", NoUser)
    BY <2>1, SetBecomes, PortSet
  <2>3. \A p \in S : PortUse(charger[p]) = "free"
    BY <2>1 DEF PortUse
  <2>4. Ports!Retire(S)
    BY <2>2, <2>3 DEF Ports!Retire
  <2>5. QED
    BY <2>4 DEF Ports!PortsNext
<1>5. QED
  BY <1>1, <1>2, <1>3, <1>4

LEMMA LapseImplements ==
    ASSUME SerialInv, NEW v \in Port, Lapse(v)
    PROVE  Ports!PortsNext
<1>1. charger[v] \in Row /\ RowSound(charger[v])
  BY DEF SerialInv, TypeOK, RowsSound
<1>2. charger[v].status = "reserved" /\ charger[v].until = "live"
  BY <1>1 DEF Lapse, RowSound
<1>3. /\ charger'[v].status = "reserved" /\ charger'[v].until = "lapsed"
      /\ charger'[v].by = charger[v].by
      /\ \A p \in Port \ {v} : charger'[p] = charger[p]
  BY <1>1, <1>2 DEF Lapse, SerialInv, TypeOK, Row
<1>4. \A p \in Port : Charging(p)' = Charging(p)
  BY DEF Lapse, Charging
<1>5. \A p \in Port \ {v} : /\ PortUse(charger[p])' = PortUse(charger[p])
                            /\ PortDriver(p)' = PortDriver(p)
  BY <1>3, <1>4, PortUnchanged DEF SerialInv, Lapse
<1>6. PICK u : u = charger[v].by
  OBVIOUS
<1>7. PortUse(charger[v]) = "held" /\ PortDriver(v) = u
  BY <1>2, <1>6, DriverNow DEF PortUse
<1>8. PortUse(charger[v])' = "stale" /\ PortDriver(v)' = u
  BY <1>3, <1>6, DriverThen DEF PortUse
<1>9. Ports!Become({v}, "stale", u)
  BY <1>5, <1>8, BecomeSets
<1>10. Ports!GoStale(v)
  BY <1>7, <1>9 DEF Ports!GoStale
<1>11. QED
  BY <1>10 DEF Ports!PortsNext

LEMMA OpenedImplements ==
    ASSUME SerialInv, Opened
    PROVE  Ports!PortsNext
<1>1. PICK v \in Port, u \in User, s \in SessionId :
        /\ session[s].state = "unused"
        /\ \/ charger[v].status = "available"
           \/ charger[v].status = "reserved" /\ charger[v].by = u
        /\ SetRows({v}, InUseRow)
        /\ session' = [session EXCEPT ![s] = OpenSession(u, v)]
  BY DEF Opened
<1>2. /\ charger'[v] = InUseRow
      /\ \A p \in Port \ {v} : charger'[p] = charger[p]
  BY <1>1 DEF SetRows
<1>3. /\ session'[s].state = "open" /\ session'[s].port = v /\ session'[s].user = u
      /\ \A t \in SessionId \ {s} : session'[t] = session[t]
  BY <1>1 DEF SerialInv, TypeOK, OpenSession, UnusedSession
<1>4. Charging(v) = {}
  BY <1>1 DEF SerialInv, StatusIsTrue
<1>5. Charging(v)' = {s}
  BY <1>3, <1>4 DEF Charging
<1>6. (CHOOSE x \in Charging(v)' : TRUE) = s
  BY <1>5, OnlyMember
<1>7. PortUse(charger[v])' = "charging" /\ PortDriver(v)' = u
  <2>1. charger'[v].status = "occupied"
    BY <1>2 DEF InUseRow
  <2>2. PortDriver(v)' = session'[s].user
    BY <1>6, <2>1 DEF PortDriver
  <2>3. QED
    BY <1>3, <2>1, <2>2 DEF PortUse
<1>8. ASSUME NEW p \in Port \ {v}
      PROVE  PortUse(charger[p])' = PortUse(charger[p]) /\ PortDriver(p)' = PortDriver(p)
  <2>1. Charging(p)' = Charging(p) /\ s \notin Charging(p)
    BY <1>1, <1>3 DEF Charging
  <2>2. \A t \in Charging(p) : session'[t].user = session[t].user
    BY <1>3, <2>1 DEF Charging
  <2>3. QED
    BY <1>2, <2>1, <2>2, PortUnchanged DEF SerialInv
<1>9. Ports!Become({v}, "charging", u)
  BY <1>7, <1>8, BecomeSets
<1>10. \/ PortUse(charger[v]) = "free"
       \/ PortUse(charger[v]) \in {"held", "stale"} /\ PortDriver(v) = u
  BY <1>1, DriverNow DEF PortUse
<1>11. Ports!Charge(v, u)
  BY <1>9, <1>10 DEF Ports!Charge
<1>12. QED
  BY <1>11 DEF Ports!PortsNext

LEMMA ClosedImplements ==
    ASSUME SerialInv, Closed
    PROVE  Ports!PortsNext
<1>1. PICK s \in SessionId, energy \in BOOLEAN :
        /\ session[s].state = "open"
        /\ SetRows({session[s].port}, BlankRow)
        /\ session' = [session EXCEPT ![s] = Ended(@, energy)]
  BY DEF Closed
<1>2. PICK v \in Port : v = session[s].port
  BY <1>1 DEF SerialInv, SessionsSound
<1>3. /\ charger'[v] = BlankRow
      /\ \A p \in Port \ {v} : charger'[p] = charger[p]
  BY <1>1, <1>2 DEF SetRows
<1>4. /\ session'[s].state = "ended"
      /\ \A t \in SessionId \ {s} : session'[t] = session[t]
  BY <1>1 DEF SerialInv, TypeOK, Session, Ended
<1>5. charger[v].status = "occupied"
  BY <1>1, <1>2 DEF SerialInv, StatusIsTrue, Charging
<1>6. PortUse(charger[v])' = "free" /\ PortDriver(v)' = NoUser
  BY <1>3, PortSet
<1>7. ASSUME NEW p \in Port \ {v}
      PROVE  PortUse(charger[p])' = PortUse(charger[p]) /\ PortDriver(p)' = PortDriver(p)
  <2>1. Charging(p)' = Charging(p) /\ s \notin Charging(p)
    BY <1>1, <1>2, <1>4 DEF Charging
  <2>2. \A t \in Charging(p) : session'[t].user = session[t].user
    BY <1>4, <2>1 DEF Charging
  <2>3. QED
    BY <1>3, <2>1, <2>2, PortUnchanged DEF SerialInv
<1>8. Ports!Become({v}, "free", NoUser)
  BY <1>6, <1>7, BecomeSets
<1>9. Ports!Finish(v)
  BY <1>5, <1>8 DEF Ports!Finish, PortUse
<1>10. QED
  BY <1>9 DEF Ports!PortsNext

LEMMA StutterImplements ==
    ASSUME SerialInv, Metered \/ UNCHANGED <<charger, session>>
    PROVE  UNCHANGED <<[p \in Port |-> PortUse(charger[p])], [p \in Port |-> PortDriver(p)]>>
<1>1. /\ UNCHANGED charger /\ \A p \in Port : Charging(p)' = Charging(p)
      /\ \A s \in SessionId : session'[s].user = session[s].user
  BY MeteredEffect DEF SerialInv, Charging
<1>2. \A p \in Port : /\ PortUse(charger[p])' = PortUse(charger[p])
                      /\ PortDriver(p)' = PortDriver(p)
  BY <1>1, PortUnchanged DEF SerialInv, Charging
<1>3. QED
  BY <1>2

\* While one handler runs at a time, PortBooking implements StationPorts: every
\* reservation, start, completion, expiry and fault is one step of a port's life,
\* free, held, charging or out, for one driver; everything else is a stutter.
THEOREM Refinement ==
    ASSUME OneAtATime
    PROVE  Spec => ImplementsStationPorts
<1>1. Init => Ports!PortsInit
  <2> SUFFICES ASSUME Init PROVE Ports!PortsInit
    OBVIOUS
  <2>1. \A p \in Port : charger[p].status = "available"
    BY DEF Init, BlankRows, BlankRow
  <2>2. QED
    BY <2>1, DriverNow DEF Ports!PortsInit, PortUse
<1>2. SerialInv /\ [Next]_vars
        => [Ports!PortsNext]_<<[p \in Port |-> PortUse(charger[p])],
                               [p \in Port |-> PortDriver(p)]>>
  <2> SUFFICES ASSUME SerialInv, [Next]_vars
               PROVE  [Ports!PortsNext]_<<[p \in Port |-> PortUse(charger[p])],
                                          [p \in Port |-> PortDriver(p)]>>
    OBVIOUS
  <2>1. Transaction
    BY StepIsTransaction
  <2>2. QED
    BY <2>1, QuietImplements, LapseImplements, OpenedImplements, ClosedImplements,
       StutterImplements DEF Transaction, Waited
<1>3. QED
  BY <1>1, <1>2, SerialInvariant, PTL DEF Spec, ImplementsStationPorts, Ports!PortsSpec

=============================================================================
