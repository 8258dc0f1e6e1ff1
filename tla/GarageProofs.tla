----------------------------- MODULE GarageProofs ------------------------------
(***************************************************************************)
(* What holds of the garage for any number of users, threads and rows,     *)
(* whatever the bounds: requests and decisions agree, a claimed unit has   *)
(* its vehicle, pairings are confirmed, home chargers serve one session,   *)
(* payments stay and erasures are exact.                                   *)
(***************************************************************************)
EXTENDS Garage, SequenceTheorems, FiniteSetTheorems, TLAPS

Statuses == {"pending", "approved", "rejected"}
Verdicts == {"approved", "rejected"}

AccountRow == [persona : {"driver", "city_admin"}, expired : BOOLEAN]
AdminRow == [user : User, status : Statuses, reviewer : User \cup {Nobody}]
Asked == [type : {"add", "delete"}, user : User, unit : Unit \cup {Nobody}, vehicle : Nat]
RequestRow == [type : {"add", "delete"}, user : User, unit : Unit \cup {Nobody}, vehicle : Nat,
               status : Statuses, reviewer : User \cup {Nobody}]
VehicleRow == [owner : User, paired : BOOLEAN, code : Nat, proven : Nat]
HomeRow == [owner : User \cup {Nobody}]
SessionRow == [user : User, vehicle : Nat, home : Nat, open : BOOLEAN, paid : Method \cup {Unpaid},
               logged : BOOLEAN, reopened : BOOLEAN]

\* The vehicles a garage may start with.
Parked == {Vehicle(u) : u \in User}

TablesOK ==
    /\ DOMAIN accounts \subseteq User /\ accounts \in [DOMAIN accounts -> AccountRow]
    /\ adminReqs \in Seq(AdminRow)
    /\ vehicleReqs \in Seq(RequestRow)
    /\ \A r \in DOMAIN vehicleReqs : vehicleReqs[r].type = "add" => vehicleReqs[r].unit \in Unit
    /\ claimed \subseteq Unit
    /\ vehicles \in Seq(VehicleRow \cup {Gone})
    /\ homes \in Seq(HomeRow)
    /\ sessions \in Seq(SessionRow \cup {Gone})
    /\ shown \in Nat

HistoriesOK ==
    /\ made \in Seq(Nat) /\ Len(made) = Len(vehicles)
    /\ \A v \in DOMAIN made : made[v] # NoRow =>
          made[v] \in DOMAIN vehicleReqs /\ vehicleReqs[made[v]].type = "add"
    /\ \A gone \in removed : gone \in Nat \X DOMAIN vehicleReqs
    /\ granted \subseteq DOMAIN adminReqs

\* What a request names, and that its keys cover the rows it will write.
Sound(q) ==
    /\ q.kind \in {"request admin", "register home", "review admin", "review vehicle", "start home"}
          => q.by \in User
    /\ q.kind = "review admin" =>
          q.row \in DOMAIN adminReqs /\ q.verdict \in Verdicts /\ <<"admin", q.row>> \in q.keys
    /\ q.kind = "request vehicle" =>
          q.asked \in Asked /\ (q.asked.type = "add" => q.asked.unit \in Unit /\ q.asked.vehicle = NoRow)
    /\ q.kind = "review vehicle" =>
          /\ q.row \in DOMAIN vehicleReqs /\ q.verdict \in Verdicts /\ q.vehicle \in Nat
          /\ <<"vehicle request", q.row>> \in q.keys
          /\ <<"unit", vehicleReqs[q.row].unit>> \in q.keys
    /\ q.kind \in {"pair", "confirm"} =>
          q.row \in DOMAIN vehicles /\ q.wasPaired \in BOOLEAN /\ <<"pairing", q.row>> \in q.keys
    /\ q.kind = "confirm" => q.code \in Nat
    /\ q.kind = "delete home" => q.row \in DOMAIN homes
    /\ q.kind = "start home" =>
          q.row \in DOMAIN homes /\ q.vehicle \in DOMAIN vehicles /\ <<"home", q.row>> \in q.keys
    /\ q.kind = "pay" =>
          q.row \in DOMAIN sessions /\ q.method \in Method /\ <<"payment", q.row>> \in q.keys
    /\ q.kind = "sweep" => q.vehicles \subseteq DOMAIN vehicles /\ q.sessions \subseteq DOMAIN sessions

DeskOK ==
    /\ DOMAIN desk = DeskThread
    /\ \A t \in DeskThread : Sound(desk[t])
    /\ \A t, o \in DeskThread : t # o => desk[t].keys \cap desk[o].keys \subseteq raced

GarageOK == TablesOK /\ HistoriesOK /\ DeskOK

\* No row names a row that is not there.
ForeignKeys ==
    /\ \A r \in DOMAIN adminReqs : adminReqs[r].user \in DOMAIN accounts
    /\ \A r \in DOMAIN vehicleReqs :
          /\ vehicleReqs[r].user \in DOMAIN accounts
          /\ vehicleReqs[r].vehicle # NoRow => vehicleReqs[r].vehicle \in Rows(vehicles)
    /\ \A v \in Rows(vehicles) : vehicles[v].owner \in DOMAIN accounts
    /\ \A s \in Rows(sessions) :
          /\ sessions[s].user \in DOMAIN accounts /\ sessions[s].vehicle \in Rows(vehicles)
          /\ sessions[s].home # NoRow => sessions[s].home \in Rows(homes)

-----------------------------------------------------------------------------
\* The requests under way, for each property: what they read still holds.
AdminReviewsStand ==
    \A t \in DeskThread :
        LET r == desk[t].row
        IN  desk[t].kind = "review admin" /\ <<"admin", r>> \notin raced /\ ~Edited("admin", r)
            => adminReqs[r].status = "pending"

VehicleReviewsStand ==
    \A t \in DeskThread :
        LET r == desk[t].row
        IN  /\ desk[t].kind = "review vehicle" /\ <<"vehicle request", r>> \notin raced
            /\ ~Edited("vehicle request", r)
            => vehicleReqs[r].status = "pending" /\ desk[t].vehicle = vehicleReqs[r].vehicle

DeletionsAreToDo ==
    \A r \in DOMAIN vehicleReqs :
        /\ vehicleReqs[r].type = "delete" /\ vehicleReqs[r].status # "approved"
        /\ <<"vehicle request", r>> \notin raced /\ ~Edited("vehicle request", r)
        => vehicleReqs[r].vehicle # NoRow

\* What was done for a vehicle request: the vehicles made, or removed.
DoneFor(r) == IF vehicleReqs[r].type = "add" THEN MadeFor(r) ELSE {gone \in removed : gone[2] = r}

VehiclesDone ==
    \A r \in DOMAIN vehicleReqs :
        <<"vehicle request", r>> \notin raced /\ ~Edited("vehicle request", r) =>
            IF vehicleReqs[r].status = "approved" THEN \E d : DoneFor(r) = {d} ELSE DoneFor(r) = {}

ClaimsStand ==
    \A t \in DeskThread :
        LET r == desk[t].row
            n == vehicleReqs[r].unit
        IN  /\ desk[t].kind = "review vehicle" /\ desk[t].verdict = "approved"
            /\ vehicleReqs[r].type = "add" /\ <<"unit", n>> \notin raced
            => n \notin claimed

OneMade ==
    \A n \in Unit : /\ n \in claimed <=> MadeFrom(n) # {}
                    /\ <<"unit", n>> \notin raced => \A v, w \in MadeFrom(n) : v = w

PairingsStand ==
    \A t \in DeskThread :
        LET v == desk[t].row
        IN  desk[t].kind \in {"pair", "confirm"} /\ v \in Rows(vehicles) /\ <<"pairing", v>> \notin raced
            => /\ desk[t].wasPaired = vehicles[v].paired
               /\ desk[t].kind = "confirm" => desk[t].code = vehicles[v].code

HomesStand ==
    \A t \in DeskThread :
        LET h == desk[t].row
            v == desk[t].vehicle
        IN  desk[t].kind = "start home" =>
              /\ h \in Rows(homes) => /\ homes[h].owner = desk[t].by
                                      /\ <<"home", h>> \notin raced => StillOpen(h) = {}
              /\ v \in Rows(vehicles) => vehicles[v].owner = desk[t].by

OneOpen ==
    \A h \in Rows(homes) : <<"home", h>> \notin raced => \A s, o \in StillOpen(h) : s = o

OwnersCharge ==
    \A s \in Rows(sessions) :
          /\ Owns(sessions[s].user, sessions[s].vehicle)
          /\ sessions[s].home # NoRow =>
                sessions[s].home \in Rows(homes) /\ homes[sessions[s].home].owner = sessions[s].user

PaymentsStand ==
    \A t \in DeskThread :
        LET s == desk[t].row
        IN  desk[t].kind = "pay" /\ s \in Rows(sessions) /\ <<"payment", s>> \notin raced
            => sessions[s].paid = Unpaid

SweepsStand ==
    \A t \in DeskThread : desk[t].kind = "sweep" =>
        /\ \A u \in desk[t].expired \cap DOMAIN accounts : accounts[u].expired
        /\ \A v \in desk[t].vehicles \cap Rows(vehicles) : vehicles[v].owner \in desk[t].expired
        /\ \A s \in desk[t].sessions \cap Rows(sessions) : sessions[s].user \in desk[t].expired

-----------------------------------------------------------------------------
(***************************************************************************)
(* Tables and threads                                                      *)
(***************************************************************************)

\* A row added to a table, and a row replaced.
LEMMA Appended ==
    ASSUME NEW S, NEW table \in Seq(S), NEW row \in S
    PROVE  LET longer == Append(table, row)
           IN  /\ longer \in Seq(S) /\ Len(table) \in Nat /\ Len(longer) = Len(table) + 1
               /\ DOMAIN table = 1..Len(table) /\ DOMAIN longer = 1..(Len(table) + 1)
               /\ longer[Len(table) + 1] = row /\ Len(table) + 1 \notin DOMAIN table
               /\ DOMAIN longer = DOMAIN table \cup {Len(table) + 1}
               /\ \A i \in DOMAIN table : i \in DOMAIN longer /\ longer[i] = table[i]
OBVIOUS

LEMMA Replaced ==
    ASSUME NEW S, NEW table \in Seq(S), NEW i, NEW row, i \in DOMAIN table => row \in S
    PROVE  LET new == [table EXCEPT ![i] = row]
           IN  /\ new \in Seq(S) /\ DOMAIN new = DOMAIN table /\ Len(new) = Len(table)
               /\ \A j \in DOMAIN table : new[j] = IF j = i THEN row ELSE table[j]
<1> DEFINE new == [table EXCEPT ![i] = row]
<1>1. DOMAIN new = 1..Len(table) /\ DOMAIN table = 1..Len(table) /\ Len(table) \in Nat
  OBVIOUS
<1>2. \A j \in 1..Len(table) : new[j] = (IF j = i THEN row ELSE table[j]) /\ new[j] \in S
  BY <1>1
<1>3. CASE i \in DOMAIN table
  <2>1. new \in Seq(S)
    BY <1>1, <1>3, ExceptSeq
  <2> QED BY <2>1, <1>1, <1>2
<1>4. CASE i \notin DOMAIN table
  <2>1. new = table
    BY <1>1, <1>4
  <2> QED BY <2>1, <1>1, <1>2
<1> QED BY <1>3, <1>4

LEMMA Erasing ==
    ASSUME NEW S, NEW table \in Seq(S), NEW rows, Gone \in S
    PROVE  /\ Erased(table, rows) \in Seq(S) /\ DOMAIN Erased(table, rows) = DOMAIN table
           /\ Len(Erased(table, rows)) = Len(table)
           /\ \A i \in DOMAIN table : Erased(table, rows)[i] = IF i \in rows THEN Gone ELSE table[i]
           /\ Rows(Erased(table, rows)) = Rows(table) \ rows
BY DEF Erased, Rows

\* A thread's request begins.
Opens(t) == desk[t] = Idle /\ (Sweep(t) \/ \E u \in User : Requests(t, u))

TablesAsTheyWere == UNCHANGED <<accounts, requestRows, ownedRows, shown, histories>>

LEMMA LookAt ==
    ASSUME DeskOK, NEW t \in DeskThread, NEW q, Look(t, q)
    PROVE  /\ TablesAsTheyWere
           /\ DOMAIN desk' = DeskThread /\ desk'[t] = q
           /\ \A o \in DeskThread \ {t} : desk'[o] = desk[o] /\ q.keys \cap desk[o].keys \subseteq raced'
           /\ raced \subseteq raced'
BY DEF DeskOK, Look, TablesAsTheyWere

\* What a request knows when it has looked.
Knows(q) ==
    /\ q.kind = "review admin" => adminReqs[q.row].status = "pending"
    /\ q.kind = "review vehicle" =>
          /\ vehicleReqs[q.row].status = "pending" /\ q.vehicle = vehicleReqs[q.row].vehicle
          /\ q.verdict = "approved" => Claimable(q.row)
    /\ q.kind \in {"pair", "confirm"} => q.wasPaired = vehicles[q.row].paired
    /\ q.kind = "confirm" => q.code = vehicles[q.row].code
    /\ q.kind = "start home" =>
          IsFreeHome(q.row) /\ homes[q.row].owner = q.by /\ Owns(q.by, q.vehicle)
    /\ q.kind = "pay" => IsUnpaid(q.row)
    /\ q.kind = "sweep" =>
          /\ q.expired = ExpiredUsers
          /\ q.vehicles = {v \in Rows(vehicles) : vehicles[v].owner \in ExpiredUsers}
          /\ q.sessions = {s \in Rows(sessions) : sessions[s].user \in ExpiredUsers}

\* How a request begins, whichever it is.
Begun(t, q) ==
    /\ TablesAsTheyWere
    /\ DOMAIN desk' = DeskThread /\ desk'[t] = q
    /\ \A o \in DeskThread \ {t} : desk'[o] = desk[o] /\ q.keys \cap desk[o].keys \subseteq raced'
    /\ raced \subseteq raced'
    /\ Sound(q) /\ Knows(q)

LEMMA Opening ==
    ASSUME TablesOK, DeskOK, NEW t \in DeskThread, Opens(t)
    PROVE  \E q : Begun(t, q)
<1> DEFINE Goal == \E q : Begun(t, q)
<1> SUFFICES Goal
  OBVIOUS
<1>look. ASSUME NEW q, Look(t, q), Sound(q), Knows(q) PROVE Goal
  BY <1>look, LookAt DEF Begun
<1> HIDE DEF Goal
<1>1. CASE Sweep(t)
  <2> DEFINE q == [kind |-> "sweep", by |-> Nobody, keys |-> {}, expired |-> ExpiredUsers,
                   vehicles |-> {v \in Rows(vehicles) : vehicles[v].owner \in ExpiredUsers},
                   sessions |-> {s \in Rows(sessions) : sessions[s].user \in ExpiredUsers}]
  <2>1. Look(t, q) /\ Sound(q) /\ Knows(q)
    BY <1>1 DEF Sweep, Sound, Knows, Rows
  <2> QED BY <2>1, <1>look
<1>2. ASSUME NEW u \in User, RequestAdmin(t, u) \/ RegisterHome(t, u) PROVE Goal
  <2>1. PICK kind \in {"request admin", "register home"} :
            Look(t, [kind |-> kind, by |-> u, keys |-> {}])
    BY <1>2 DEF RequestAdmin, RegisterHome
  <2>2. /\ Sound([kind |-> kind, by |-> u, keys |-> {}])
        /\ Knows([kind |-> kind, by |-> u, keys |-> {}])
    BY DEF Sound, Knows
  <2> QED BY <2>1, <2>2, <1>look
<1>3. ASSUME NEW u \in User, NEW n \in Unit, RequestAdd(t, u, n) PROVE Goal
  <2> DEFINE q == [kind |-> "request vehicle", by |-> u, keys |-> {},
                   asked |-> [type |-> "add", user |-> u, unit |-> n, vehicle |-> NoRow]]
  <2>1. Look(t, q) /\ Sound(q) /\ Knows(q)
    BY <1>3 DEF RequestAdd, Sound, Knows, Asked, NoRow
  <2> QED BY <2>1, <1>look
<1>4. ASSUME NEW u \in User, NEW v \in DOMAIN vehicles, RequestDelete(t, u, v) PROVE Goal
  <2> DEFINE q == [kind |-> "request vehicle", by |-> u, keys |-> {},
                   asked |-> [type |-> "delete", user |-> u, unit |-> Nobody, vehicle |-> v]]
  <2>0. v \in Nat
    BY DEF TablesOK
  <2>1. Look(t, q) /\ Sound(q) /\ Knows(q)
    BY <1>4, <2>0 DEF RequestDelete, Sound, Knows, Asked, NoRow
  <2> QED BY <2>1, <1>look
<1>5. ASSUME NEW u \in User, NEW v \in DOMAIN vehicles, Pair(t, u, v) PROVE Goal
  <2> DEFINE q == [kind |-> "pair", by |-> u, keys |-> {<<"pairing", v>>}, row |-> v,
                   wasPaired |-> vehicles[v].paired]
  <2>0. vehicles[v].paired \in BOOLEAN
    BY <1>5 DEF Pair, Owns, Rows, TablesOK, VehicleRow
  <2>1. Look(t, q) /\ Sound(q) /\ Knows(q)
    BY <1>5, <2>0 DEF Pair, Sound, Knows
  <2> QED BY <2>1, <1>look
<1>6. ASSUME NEW u \in User, NEW v \in DOMAIN vehicles, NEW code \in 1..shown, Confirm(t, u, v, code)
      PROVE  Goal
  <2> DEFINE q == [kind |-> "confirm", by |-> u, keys |-> {<<"pairing", v>>}, row |-> v,
                   code |-> code, wasPaired |-> vehicles[v].paired]
  <2>0. vehicles[v].paired \in BOOLEAN /\ code \in Nat
    BY <1>6 DEF Confirm, Owns, Rows, TablesOK, VehicleRow
  <2>1. Look(t, q) /\ Sound(q) /\ Knows(q)
    BY <1>6, <2>0 DEF Confirm, Sound, Knows
  <2> QED BY <2>1, <1>look
<1>7. ASSUME NEW u \in User, NEW v \in DOMAIN vehicles, NEW h \in DOMAIN homes, StartHome(t, u, h, v)
      PROVE  Goal
  <2> DEFINE q == [kind |-> "start home", by |-> u, keys |-> {<<"home", h>>}, row |-> h, vehicle |-> v]
  <2>1. Look(t, q) /\ Sound(q) /\ Knows(q)
    BY <1>7 DEF StartHome, Sound, Knows
  <2> QED BY <2>1, <1>look
<1>8. ASSUME NEW u \in User, NEW h \in DOMAIN homes, DeleteHome(t, u, h) PROVE Goal
  <2> DEFINE q == [kind |-> "delete home", by |-> u, keys |-> {}, row |-> h]
  <2>1. Look(t, q) /\ Sound(q) /\ Knows(q)
    BY <1>8 DEF DeleteHome, Sound, Knows
  <2> QED BY <2>1, <1>look
<1>9. ASSUME NEW u \in User, NEW s \in DOMAIN sessions, NEW method \in Method, Pay(t, u, s, method)
      PROVE  Goal
  <2> DEFINE q == [kind |-> "pay", by |-> u, keys |-> {<<"payment", s>>}, row |-> s, method |-> method]
  <2>1. Look(t, q) /\ Sound(q) /\ Knows(q)
    BY <1>9 DEF Pay, Sound, Knows
  <2> QED BY <2>1, <1>look
<1>10. ASSUME NEW u \in User, NEW verdict \in Verdicts, NEW r \in DOMAIN adminReqs,
              ReviewAdmin(t, u, r, verdict)
       PROVE  Goal
  <2> DEFINE q == [kind |-> "review admin", by |-> u, keys |-> {<<"admin", r>>},
                   row |-> r, verdict |-> verdict]
  <2>1. Look(t, q) /\ Sound(q) /\ Knows(q)
    BY <1>10 DEF ReviewAdmin, IsPending, Sound, Knows
  <2> QED BY <2>1, <1>look
<1>11. ASSUME NEW u \in User, NEW verdict \in Verdicts, NEW r \in DOMAIN vehicleReqs,
              ReviewVehicle(t, u, r, verdict)
       PROVE  Goal
  <2> DEFINE q == [kind |-> "review vehicle", by |-> u, row |-> r, verdict |-> verdict,
                   keys |-> {<<"vehicle request", r>>, <<"unit", vehicleReqs[r].unit>>},
                   vehicle |-> vehicleReqs[r].vehicle]
  <2>0. vehicleReqs[r] \in RequestRow
    BY DEF TablesOK
  <2>00. vehicleReqs[r].vehicle \in Nat
    BY <2>0 DEF RequestRow
  <2>1. Look(t, q) /\ Sound(q) /\ Knows(q)
    BY <1>11, <2>00 DEF ReviewVehicle, IsPending, Sound, Knows
  <2> QED BY <2>1, <1>look
<1> QED
  BY <1>1, <1>2, <1>3, <1>4, <1>5, <1>6, <1>7, <1>8, <1>9, <1>10, <1>11
     DEF Opens, Requests, Verdicts

-----------------------------------------------------------------------------
(***************************************************************************)
(* What a step leaves of the rows                                          *)
(***************************************************************************)

\* A request decided: its row keeps what was asked.
LEMMA Deciding ==
    ASSUME TablesOK, NEW t, desk[t].row \in DOMAIN vehicleReqs, desk[t].verdict \in Verdicts,
           desk[t].by \in User
    PROVE  LET r == desk[t].row
               rows == Reviewed(t)
           IN  /\ rows \in Seq(RequestRow) /\ DOMAIN rows = DOMAIN vehicleReqs
               /\ \A i \in DOMAIN vehicleReqs \ {r} : rows[i] = vehicleReqs[i]
               /\ rows[r].type = vehicleReqs[r].type /\ rows[r].user = vehicleReqs[r].user
               /\ rows[r].unit = vehicleReqs[r].unit /\ rows[r].vehicle = vehicleReqs[r].vehicle
               /\ rows[r].status = desk[t].verdict /\ rows[r].reviewer = desk[t].by
<1> DEFINE r == desk[t].row
           row == [vehicleReqs[r] EXCEPT !.status = desk[t].verdict, !.reviewer = desk[t].by]
<1>1. vehicleReqs[r] \in RequestRow
  BY DEF TablesOK
<1>2. row \in RequestRow
  BY <1>1 DEF RequestRow, Statuses, Verdicts
<1>3. /\ row.type = vehicleReqs[r].type /\ row.user = vehicleReqs[r].user
      /\ row.unit = vehicleReqs[r].unit /\ row.vehicle = vehicleReqs[r].vehicle
      /\ row.status = desk[t].verdict /\ row.reviewer = desk[t].by
  BY <1>1 DEF RequestRow
<1>4. Reviewed(t) = [vehicleReqs EXCEPT ![r] = row]
  BY DEF Reviewed, TablesOK
<1> HIDE DEF row
<1> QED BY <1>2, <1>3, <1>4, Replaced DEF TablesOK

\* An edit of the console leaves all but the status.
LEMMA EditingAdmin ==
    ASSUME TablesOK, NEW i \in DOMAIN adminReqs, NEW status \in Statuses
    PROVE  LET rows == [adminReqs EXCEPT ![i].status = status]
           IN  /\ rows \in Seq(AdminRow) /\ DOMAIN rows = DOMAIN adminReqs
               /\ \A r \in DOMAIN adminReqs \ {i} : rows[r] = adminReqs[r]
               /\ rows[i].user = adminReqs[i].user
<1> DEFINE row == [adminReqs[i] EXCEPT !.status = status]
<1>1. adminReqs[i] \in AdminRow
  BY DEF TablesOK
<1>2. row \in AdminRow /\ row.user = adminReqs[i].user
  BY <1>1 DEF AdminRow
<1>3. [adminReqs EXCEPT ![i].status = status] = [adminReqs EXCEPT ![i] = row]
  OBVIOUS
<1> HIDE DEF row
<1> QED BY <1>2, <1>3, Replaced DEF TablesOK

LEMMA EditingVehicle ==
    ASSUME TablesOK, NEW i \in DOMAIN vehicleReqs, NEW status \in Statuses
    PROVE  LET rows == [vehicleReqs EXCEPT ![i].status = status]
           IN  /\ rows \in Seq(RequestRow) /\ DOMAIN rows = DOMAIN vehicleReqs
               /\ \A r \in DOMAIN vehicleReqs \ {i} : rows[r] = vehicleReqs[r]
               /\ rows[i].type = vehicleReqs[i].type /\ rows[i].user = vehicleReqs[i].user
               /\ rows[i].unit = vehicleReqs[i].unit /\ rows[i].vehicle = vehicleReqs[i].vehicle
<1> DEFINE row == [vehicleReqs[i] EXCEPT !.status = status]
<1>1. vehicleReqs[i] \in RequestRow
  BY DEF TablesOK
<1>2. /\ row \in RequestRow /\ row.user = vehicleReqs[i].user /\ row.type = vehicleReqs[i].type
      /\ row.unit = vehicleReqs[i].unit /\ row.vehicle = vehicleReqs[i].vehicle
  BY <1>1 DEF RequestRow
<1>3. [vehicleReqs EXCEPT ![i].status = status] = [vehicleReqs EXCEPT ![i] = row]
  OBVIOUS
<1> HIDE DEF row
<1> QED BY <1>2, <1>3, Replaced DEF TablesOK

\* No step takes a row out of the middle of a table; a row that stays keeps whose it is
\* and what it was for.
RowsStay ==
    /\ DOMAIN adminReqs \subseteq DOMAIN adminReqs'
    /\ \A r \in DOMAIN adminReqs : adminReqs'[r].user = adminReqs[r].user
    /\ DOMAIN vehicleReqs \subseteq DOMAIN vehicleReqs'
    /\ \A r \in DOMAIN vehicleReqs :
          /\ vehicleReqs'[r].type = vehicleReqs[r].type /\ vehicleReqs'[r].user = vehicleReqs[r].user
          /\ vehicleReqs'[r].unit = vehicleReqs[r].unit
          /\ vehicleReqs'[r].vehicle \in {vehicleReqs[r].vehicle, NoRow}
    /\ DOMAIN vehicles \subseteq DOMAIN vehicles'
    /\ \A v \in DOMAIN vehicles :
          v \in Rows(vehicles') => v \in Rows(vehicles) /\ vehicles'[v].owner = vehicles[v].owner
    /\ DOMAIN homes \subseteq DOMAIN homes'
    /\ \A h \in DOMAIN homes : h \in Rows(homes') => h \in Rows(homes) /\ homes'[h] = homes[h]
    /\ DOMAIN sessions \subseteq DOMAIN sessions'
    /\ \A s \in DOMAIN sessions : s \in Rows(sessions') =>
          /\ s \in Rows(sessions) /\ sessions'[s].user = sessions[s].user
          /\ sessions'[s].vehicle = sessions[s].vehicle /\ sessions'[s].home = sessions[s].home
    /\ DOMAIN made \subseteq DOMAIN made' /\ \A v \in DOMAIN made : made'[v] = made[v]

\* The rows of every kind, after a step that changes none of their tables.
LEMMA NothingTouched ==
    ASSUME TablesOK, HistoriesOK,
           UNCHANGED <<accounts, adminReqs, vehicleReqs, claimed, vehicles, homes, sessions, shown,
                       made, removed, granted>>
    PROVE  TablesOK' /\ HistoriesOK' /\ RowsStay
BY DEF TablesOK, HistoriesOK, RowsStay, Rows

LEMMA CommitAdminRows ==
    ASSUME GarageOK, NEW t \in DeskThread, CommitRequestAdmin(t) \/ CommitReviewAdmin(t)
    PROVE  TablesOK' /\ HistoriesOK' /\ RowsStay
<1> USE DEF GarageOK
<1> SUFFICES /\ DOMAIN accounts' \subseteq User /\ accounts' \in [DOMAIN accounts' -> AccountRow]
             /\ adminReqs' \in Seq(AdminRow) /\ granted' \subseteq DOMAIN adminReqs'
             /\ DOMAIN adminReqs \subseteq DOMAIN adminReqs'
             /\ \A r \in DOMAIN adminReqs : adminReqs'[r].user = adminReqs[r].user
  BY DEF CommitRequestAdmin, CommitReviewAdmin, requestRows, ownedRows, histories, TablesOK, HistoriesOK,
         RowsStay, Rows
<1>1. CASE CommitRequestAdmin(t)
  <2> DEFINE row == [user |-> desk[t].by, status |-> "pending", reviewer |-> Nobody]
  <2>1. /\ row \in AdminRow /\ adminReqs' = Append(adminReqs, row)
        /\ UNCHANGED <<accounts, granted>>
    BY <1>1 DEF CommitRequestAdmin, Working, DeskOK, Sound, AdminRow, Statuses, histories
  <2> HIDE DEF row
  <2> QED BY <2>1, Appended DEF TablesOK, HistoriesOK
<1>2. CASE CommitReviewAdmin(t)
  <2> DEFINE r == desk[t].row
             row == [adminReqs[r] EXCEPT !.status = desk[t].verdict, !.reviewer = desk[t].by]
  <2>1. r \in DOMAIN adminReqs /\ desk[t].verdict \in Verdicts /\ desk[t].by \in User
    BY <1>2 DEF CommitReviewAdmin, Working, DeskOK, Sound
  <2>2. adminReqs[r] \in AdminRow
    BY <2>1 DEF TablesOK
  <2>3. row \in AdminRow /\ row.user = adminReqs[r].user
    BY <2>1, <2>2 DEF AdminRow, Statuses, Verdicts
  <2>4. adminReqs' = [adminReqs EXCEPT ![r] = row] /\ granted' \subseteq granted \cup {r}
    BY <1>2, <2>1 DEF CommitReviewAdmin
  <2>5. DOMAIN accounts' = DOMAIN accounts /\ accounts' \in [DOMAIN accounts -> AccountRow]
    BY <1>2 DEF CommitReviewAdmin, TablesOK, AccountRow
  <2> HIDE DEF row
  <2> QED BY <2>1, <2>3, <2>4, <2>5, Replaced DEF TablesOK, HistoriesOK
<1> QED BY <1>1, <1>2

\* The parts of RowsStay and of TablesOK that are about one table.
KeptRequests ==
    /\ DOMAIN vehicleReqs \subseteq DOMAIN vehicleReqs'
    /\ \A r \in DOMAIN vehicleReqs :
          /\ vehicleReqs'[r].type = vehicleReqs[r].type /\ vehicleReqs'[r].user = vehicleReqs[r].user
          /\ vehicleReqs'[r].unit = vehicleReqs[r].unit
          /\ vehicleReqs'[r].vehicle \in {vehicleReqs[r].vehicle, NoRow}
RequestsOK ==
    /\ vehicleReqs \in Seq(RequestRow)
    /\ \A r \in DOMAIN vehicleReqs : vehicleReqs[r].type = "add" => vehicleReqs[r].unit \in Unit

LEMMA ReviewedKeeps ==
    ASSUME TablesOK, DeskOK, NEW t \in DeskThread, Working(t, "review vehicle"),
           vehicleReqs' = Reviewed(t)
    PROVE  RequestsOK' /\ KeptRequests
<1>1. desk[t].row \in DOMAIN vehicleReqs /\ desk[t].verdict \in Verdicts /\ desk[t].by \in User
  BY DEF Working, DeskOK, Sound
<1>2. /\ vehicleReqs' \in Seq(RequestRow) /\ DOMAIN vehicleReqs' = DOMAIN vehicleReqs
      /\ \A i \in DOMAIN vehicleReqs :
            /\ vehicleReqs'[i].type = vehicleReqs[i].type /\ vehicleReqs'[i].user = vehicleReqs[i].user
            /\ vehicleReqs'[i].unit = vehicleReqs[i].unit
            /\ vehicleReqs'[i].vehicle = vehicleReqs[i].vehicle
  BY <1>1, Deciding, ZenonT(30)
<1> QED BY <1>2 DEF TablesOK, RequestsOK, KeptRequests

LEMMA CommitRequestRows ==
    ASSUME GarageOK, NEW t \in DeskThread, CommitRequestVehicle(t) \/ CommitReject(t)
    PROVE  TablesOK' /\ HistoriesOK' /\ RowsStay
<1> USE DEF GarageOK
<1> SUFFICES RequestsOK' /\ KeptRequests
  BY DEF CommitRequestVehicle, CommitReject, ownedRows, histories, TablesOK, HistoriesOK,
         RowsStay, Rows, RequestsOK, KeptRequests
<1>1. CASE CommitRequestVehicle(t)
  <2> DEFINE asked == desk[t].asked
             row == [type |-> asked.type, user |-> asked.user, unit |-> asked.unit,
                     vehicle |-> asked.vehicle, status |-> "pending", reviewer |-> Nobody]
  <2>1. asked \in Asked /\ (asked.type = "add" => asked.unit \in Unit)
    BY <1>1 DEF CommitRequestVehicle, Working, DeskOK, Sound
  <2>2. row \in RequestRow /\ (row.type = "add" => row.unit \in Unit)
    BY <2>1 DEF Asked, RequestRow, Statuses
  <2>3. vehicleReqs' = Append(vehicleReqs, row)
    BY <1>1 DEF CommitRequestVehicle
  <2> HIDE DEF row
  <2>4. /\ vehicleReqs' \in Seq(RequestRow)
        /\ DOMAIN vehicleReqs' = DOMAIN vehicleReqs \cup {Len(vehicleReqs) + 1}
        /\ vehicleReqs'[Len(vehicleReqs) + 1] = row
        /\ \A r \in DOMAIN vehicleReqs : vehicleReqs'[r] = vehicleReqs[r]
    BY <2>2, <2>3, Appended DEF TablesOK
  <2> QED BY <2>2, <2>4 DEF TablesOK, RequestsOK, KeptRequests
<1>2. CASE CommitReject(t)
  BY <1>2, ReviewedKeeps DEF CommitReject
<1> QED BY <1>1, <1>2

KeptVehicles ==
    /\ DOMAIN vehicles \subseteq DOMAIN vehicles'
    /\ \A v \in DOMAIN vehicles :
          v \in Rows(vehicles') => v \in Rows(vehicles) /\ vehicles'[v].owner = vehicles[v].owner
KeptMade == DOMAIN made \subseteq DOMAIN made' /\ \A v \in DOMAIN made : made'[v] = made[v]

LEMMA CommitAddRows ==
    ASSUME GarageOK, NEW t \in DeskThread, CommitAdd(t)
    PROVE  TablesOK' /\ HistoriesOK' /\ RowsStay
<1> USE DEF GarageOK
<1> DEFINE r == desk[t].row
           n == Len(vehicles) + 1
<1>1. /\ r \in DOMAIN vehicleReqs /\ vehicleReqs[r].type = "add" /\ vehicleReqs[r] \in RequestRow
      /\ vehicleReqs[r].unit \in Unit
  <2>1. r \in DOMAIN vehicleReqs /\ vehicleReqs[r].type = "add"
    BY DEF CommitAdd, Working, DeskOK, Sound
  <2> QED BY <2>1 DEF TablesOK
<1>2. RequestsOK' /\ KeptRequests
  BY ReviewedKeeps DEF CommitAdd
<1>3. claimed' \subseteq Unit
  BY <1>1 DEF CommitAdd, TablesOK
<1>4. Vehicle(vehicleReqs[r].user) \in VehicleRow \cup {Gone}
  BY <1>1 DEF Vehicle, VehicleRow, RequestRow
<1>5. /\ vehicles' \in Seq(VehicleRow \cup {Gone}) /\ KeptVehicles /\ Len(vehicles') = n
  <2>1. vehicles' = Append(vehicles, Vehicle(vehicleReqs[r].user))
    BY DEF CommitAdd
  <2> QED BY <2>1, <1>4, Appended DEF TablesOK, KeptVehicles, Rows
<1>6. r \in Nat
  BY <1>1 DEF TablesOK
<1>7. /\ made' \in Seq(Nat) /\ Len(made') = n /\ KeptMade
      /\ DOMAIN made' = DOMAIN made \cup {n} /\ made'[n] = r
  <2>1. made' = Append(made, r)
    BY DEF CommitAdd
  <2> QED BY <2>1, <1>6, Appended DEF HistoriesOK, KeptMade
<1>8. HistoriesOK'
  BY <1>1, <1>2, <1>5, <1>7, ZenonT(30) DEF CommitAdd, HistoriesOK, KeptRequests, KeptMade
<1>9. TablesOK'
  BY <1>2, <1>3, <1>5 DEF CommitAdd, TablesOK, RequestsOK
<1> QED BY <1>2, <1>5, <1>7, <1>8, <1>9
        DEF CommitAdd, RowsStay, KeptRequests, KeptVehicles, KeptMade, Rows

LEMMA CommitDeleteRows ==
    ASSUME GarageOK, NEW t \in DeskThread, CommitDelete(t)
    PROVE  TablesOK' /\ HistoriesOK' /\ RowsStay
<1> USE DEF GarageOK
<1> DEFINE r == desk[t].row
           v == desk[t].vehicle
           row == [Reviewed(t)[r] EXCEPT !.vehicle = NoRow]
<1>1. /\ r \in DOMAIN vehicleReqs /\ desk[t].verdict \in Verdicts /\ desk[t].by \in User /\ v \in Nat
  BY DEF CommitDelete, Working, DeskOK, Sound
<1>2. /\ Reviewed(t) \in Seq(RequestRow) /\ DOMAIN Reviewed(t) = DOMAIN vehicleReqs
      /\ \A i \in DOMAIN vehicleReqs :
            /\ Reviewed(t)[i].type = vehicleReqs[i].type /\ Reviewed(t)[i].user = vehicleReqs[i].user
            /\ Reviewed(t)[i].unit = vehicleReqs[i].unit
            /\ Reviewed(t)[i].vehicle = vehicleReqs[i].vehicle
  BY <1>1, Deciding
<1>3. /\ row \in RequestRow /\ row.vehicle = NoRow
      /\ row.type = vehicleReqs[r].type /\ row.user = vehicleReqs[r].user
      /\ row.unit = vehicleReqs[r].unit
  <2>1. Reviewed(t)[r] \in RequestRow
    BY <1>1, <1>2
  <2> QED BY <2>1, <1>1, <1>2 DEF RequestRow, NoRow
<1>4. vehicleReqs' = [Reviewed(t) EXCEPT ![r] = row]
  BY DEF CommitDelete, Detached
<1>5. RequestsOK' /\ KeptRequests
  <2> HIDE DEF row
  <2>1. /\ vehicleReqs' \in Seq(RequestRow) /\ DOMAIN vehicleReqs' = DOMAIN vehicleReqs
        /\ \A i \in DOMAIN vehicleReqs : vehicleReqs'[i] = IF i = r THEN row ELSE Reviewed(t)[i]
    BY <1>1, <1>2, <1>3, <1>4, Replaced
  <2>2. \A i \in DOMAIN vehicleReqs :
           /\ vehicleReqs'[i].type = vehicleReqs[i].type /\ vehicleReqs'[i].user = vehicleReqs[i].user
           /\ vehicleReqs'[i].unit = vehicleReqs[i].unit
           /\ vehicleReqs'[i].vehicle \in {vehicleReqs[i].vehicle, NoRow}
    BY <2>1, <1>1, <1>2, <1>3
  <2> QED BY <2>1, <2>2 DEF TablesOK, RequestsOK, KeptRequests
<1>6. /\ vehicles' \in Seq(VehicleRow \cup {Gone}) /\ Len(vehicles') = Len(vehicles) /\ KeptVehicles
      /\ removed' \subseteq removed \cup {<<v, r>>}
  <2>1. CASE v \in Rows(vehicles)
    <3>1. vehicles' = [vehicles EXCEPT ![v] = Gone] /\ removed' = removed \cup {<<v, r>>}
      BY <2>1 DEF CommitDelete, Detached
    <3>2. /\ vehicles' \in Seq(VehicleRow \cup {Gone}) /\ Len(vehicles') = Len(vehicles)
          /\ DOMAIN vehicles' = DOMAIN vehicles
          /\ \A i \in DOMAIN vehicles : vehicles'[i] = IF i = v THEN Gone ELSE vehicles[i]
      <4> DEFINE S == VehicleRow \cup {Gone}
      <4>1. Gone \in S /\ vehicles \in Seq(S)
        BY DEF TablesOK
      <4> HIDE DEF S
      <4>2. LET new == [vehicles EXCEPT ![v] = Gone]
            IN  /\ new \in Seq(S) /\ DOMAIN new = DOMAIN vehicles /\ Len(new) = Len(vehicles)
                /\ \A j \in DOMAIN vehicles : new[j] = IF j = v THEN Gone ELSE vehicles[j]
        BY <4>1, Replaced
      <4> QED BY <4>2, <3>1 DEF S
    <3>3. KeptVehicles
      BY <3>2 DEF KeptVehicles, Rows
    <3> QED BY <3>1, <3>2, <3>3
  <2>2. CASE v \notin Rows(vehicles)
    <3>1. UNCHANGED <<vehicles, removed>>
      BY <2>2 DEF CommitDelete, Detached
    <3> QED BY <3>1 DEF TablesOK, KeptVehicles, Rows
  <2> QED BY <2>1, <2>2
<1>7. HistoriesOK'
  <2>1. <<v, r>> \in Nat \X DOMAIN vehicleReqs'
    BY <1>1, <1>5 DEF KeptRequests
  <2>2. \A gone \in removed : gone \in Nat \X DOMAIN vehicleReqs'
    BY <1>5 DEF HistoriesOK, KeptRequests
  <2>3. \A gone \in removed' : gone \in Nat \X DOMAIN vehicleReqs'
    BY <2>1, <2>2, <1>6
  <2> QED BY <2>3, <1>5, <1>6 DEF CommitDelete, HistoriesOK, KeptRequests
<1>8. TablesOK'
  BY <1>5, <1>6 DEF CommitDelete, TablesOK, RequestsOK
<1> QED BY <1>5, <1>6, <1>7, <1>8 DEF CommitDelete, RowsStay, KeptRequests, KeptVehicles, Rows

\* A vehicle's pairing changes.
LEMMA Pairing ==
    ASSUME TablesOK, NEW v \in Rows(vehicles), NEW row \in VehicleRow, row.owner = vehicles[v].owner,
           vehicles' = [vehicles EXCEPT ![v] = row]
    PROVE  /\ vehicles' \in Seq(VehicleRow \cup {Gone}) /\ Len(vehicles') = Len(vehicles)
           /\ DOMAIN vehicles' = DOMAIN vehicles /\ KeptVehicles
           /\ \A i \in DOMAIN vehicles : vehicles'[i] = IF i = v THEN row ELSE vehicles[i]
<1> DEFINE S == VehicleRow \cup {Gone}
<1>1. row \in S /\ vehicles \in Seq(S)
  BY DEF TablesOK
<1> HIDE DEF S
<1>2. LET new == [vehicles EXCEPT ![v] = row]
      IN  /\ new \in Seq(S) /\ DOMAIN new = DOMAIN vehicles /\ Len(new) = Len(vehicles)
          /\ \A j \in DOMAIN vehicles : new[j] = IF j = v THEN row ELSE vehicles[j]
  BY <1>1, Replaced
<1>3. KeptVehicles
  BY <1>2 DEF KeptVehicles, Rows
<1> QED BY <1>2, <1>3 DEF S

\* The row of a vehicle after a code is displayed, and after one is confirmed.
Displaying(v, was) ==
    [vehicles[v] EXCEPT !.code = shown + 1, !.paired = IF was THEN FALSE ELSE @]
Confirming(v, code) == [vehicles[v] EXCEPT !.paired = TRUE, !.proven = code]

LEMMA Displays ==
    ASSUME TablesOK, NEW t \in DeskThread, CommitPair(t)
    PROVE  LET v == desk[t].row
               row == Displaying(v, desk[t].wasPaired)
           IN  /\ v \in Rows(vehicles) /\ row \in VehicleRow /\ row.owner = vehicles[v].owner
               /\ vehicles' = [vehicles EXCEPT ![v] = row]
               /\ row.paired = (IF desk[t].wasPaired THEN FALSE ELSE vehicles[v].paired)
<1>1. desk[t].row \in Rows(vehicles)
  BY DEF CommitPair
<1>2. vehicles[desk[t].row] \in VehicleRow /\ shown' = shown + 1 /\ shown' \in Nat
  BY <1>1 DEF Rows, TablesOK, CommitPair
<1> QED BY <1>1, <1>2 DEF CommitPair, Displayed, Displaying, VehicleRow

LEMMA Confirms ==
    ASSUME TablesOK, DeskOK, NEW t \in DeskThread, CommitConfirm(t), ~desk[t].wasPaired
    PROVE  LET v == desk[t].row
               row == Confirming(v, desk[t].code)
           IN  /\ v \in Rows(vehicles) /\ row \in VehicleRow /\ row.owner = vehicles[v].owner
               /\ row.proven = desk[t].code /\ row.code = vehicles[v].code
               /\ vehicles' = [vehicles EXCEPT ![v] = row]
<1>1. desk[t].row \in Rows(vehicles)
  BY DEF CommitConfirm
<1>2. vehicles[desk[t].row] \in VehicleRow
  BY <1>1 DEF Rows, TablesOK
<1>3. desk[t].code \in Nat
  BY DEF CommitConfirm, Working, DeskOK, Sound
<1> QED BY <1>1, <1>2, <1>3 DEF CommitConfirm, Confirming, VehicleRow

LEMMA CommitPairingRows ==
    ASSUME GarageOK, NEW t \in DeskThread, CommitPair(t) \/ CommitConfirm(t)
    PROVE  TablesOK' /\ HistoriesOK' /\ RowsStay
<1> USE DEF GarageOK
<1> SUFFICES /\ vehicles' \in Seq(VehicleRow \cup {Gone}) /\ Len(vehicles') = Len(vehicles)
             /\ KeptVehicles /\ shown' \in Nat
  BY DEF CommitPair, CommitConfirm, requestRows, histories, TablesOK, HistoriesOK, RowsStay,
         KeptVehicles, Rows
<1>1. CASE CommitPair(t)
  <2>1. shown' \in Nat
    BY <1>1 DEF CommitPair, TablesOK
  <2> QED BY <1>1, <2>1, Displays, Pairing
<1>2. CASE CommitConfirm(t) /\ ~desk[t].wasPaired
  <2>1. shown' \in Nat
    BY <1>2 DEF CommitConfirm, TablesOK
  <2> QED BY <1>2, <2>1, Confirms, Pairing
<1>3. CASE CommitConfirm(t) /\ desk[t].wasPaired
  BY <1>3 DEF CommitConfirm, TablesOK, KeptVehicles, Rows
<1> QED BY <1>1, <1>2, <1>3

KeptHomes ==
    /\ DOMAIN homes \subseteq DOMAIN homes'
    /\ \A h \in DOMAIN homes : h \in Rows(homes') => h \in Rows(homes) /\ homes'[h] = homes[h]

LEMMA CommitHomeRows ==
    ASSUME GarageOK, NEW t \in DeskThread, CommitRegisterHome(t) \/ CommitDeleteHome(t)
    PROVE  TablesOK' /\ HistoriesOK' /\ RowsStay
<1> USE DEF GarageOK
<1> SUFFICES homes' \in Seq(HomeRow) /\ KeptHomes
  BY DEF CommitRegisterHome, CommitDeleteHome, requestRows, histories, TablesOK, HistoriesOK, RowsStay,
         KeptHomes, Rows
<1>1. CASE CommitRegisterHome(t)
  <2> DEFINE row == [owner |-> desk[t].by]
  <2>1. row \in HomeRow /\ homes' = Append(homes, row) /\ homes \in Seq(HomeRow)
    BY <1>1 DEF CommitRegisterHome, Working, DeskOK, Sound, HomeRow, TablesOK
  <2> HIDE DEF row
  <2>2. /\ homes' \in Seq(HomeRow) /\ DOMAIN homes' = DOMAIN homes \cup {Len(homes) + 1}
        /\ \A i \in DOMAIN homes : homes'[i] = homes[i]
    BY <2>1, Appended
  <2> QED BY <2>2 DEF KeptHomes, Rows
<1>2. CASE CommitDeleteHome(t)
  <2>1. Gone \in HomeRow /\ homes' = [homes EXCEPT ![desk[t].row] = Gone] /\ homes \in Seq(HomeRow)
    BY <1>2 DEF CommitDeleteHome, HomeRow, Gone, TablesOK
  <2>2. /\ homes' \in Seq(HomeRow) /\ DOMAIN homes' = DOMAIN homes
        /\ \A i \in DOMAIN homes : homes'[i] = IF i = desk[t].row THEN Gone ELSE homes[i]
    BY <2>1, Replaced
  <2> QED BY <2>2 DEF KeptHomes, Rows
<1> QED BY <1>1, <1>2

KeptSessions ==
    /\ DOMAIN sessions \subseteq DOMAIN sessions'
    /\ \A s \in DOMAIN sessions : s \in Rows(sessions') =>
          /\ s \in Rows(sessions) /\ sessions'[s].user = sessions[s].user
          /\ sessions'[s].vehicle = sessions[s].vehicle /\ sessions'[s].home = sessions[s].home

LEMMA Starting ==
    ASSUME TablesOK, NEW u \in User, NEW v \in Nat, NEW h \in Nat,
           sessions' = Append(sessions, Session(u, v, h))
    PROVE  /\ sessions' \in Seq(SessionRow \cup {Gone}) /\ KeptSessions
           /\ Len(sessions) + 1 \notin DOMAIN sessions
           /\ DOMAIN sessions' = DOMAIN sessions \cup {Len(sessions) + 1}
           /\ sessions'[Len(sessions) + 1] = Session(u, v, h)
           /\ Rows(sessions') = Rows(sessions) \cup {Len(sessions) + 1}
           /\ \A s \in DOMAIN sessions : sessions'[s] = sessions[s]
<1>1. Session(u, v, h) \in SessionRow
  BY DEF Session, SessionRow, Unpaid
<1>2. Session(u, v, h) # Gone
  BY DEF Session, Gone
<1> DEFINE row == Session(u, v, h)
<1> HIDE DEF row
<1>3. /\ sessions' \in Seq(SessionRow \cup {Gone}) /\ Len(sessions) + 1 \notin DOMAIN sessions
      /\ DOMAIN sessions' = DOMAIN sessions \cup {Len(sessions) + 1}
      /\ sessions'[Len(sessions) + 1] = Session(u, v, h)
      /\ \A s \in DOMAIN sessions : sessions'[s] = sessions[s]
  BY <1>1, Appended DEF TablesOK
<1> QED BY <1>2, <1>3 DEF KeptSessions, Rows

\* A session is ended, or paid.
LEMMA SessionRows ==
    ASSUME TablesOK, NEW s \in Rows(sessions), NEW row \in SessionRow, row.user = sessions[s].user,
           row.vehicle = sessions[s].vehicle, row.home = sessions[s].home,
           sessions' = [sessions EXCEPT ![s] = row]
    PROVE  /\ sessions' \in Seq(SessionRow \cup {Gone}) /\ KeptSessions
           /\ DOMAIN sessions' = DOMAIN sessions /\ Rows(sessions') = Rows(sessions)
           /\ \A i \in DOMAIN sessions : sessions'[i] = IF i = s THEN row ELSE sessions[i]
<1> DEFINE S == SessionRow \cup {Gone}
<1>1. row \in S /\ sessions \in Seq(S) /\ row # Gone
  <2>1. row # Gone
    BY DEF Gone, SessionRow
  <2> QED BY <2>1 DEF TablesOK
<1> HIDE DEF S
<1>2. LET new == [sessions EXCEPT ![s] = row]
      IN  /\ new \in Seq(S) /\ DOMAIN new = DOMAIN sessions /\ Len(new) = Len(sessions)
          /\ \A j \in DOMAIN sessions : new[j] = IF j = s THEN row ELSE sessions[j]
  BY <1>1, Replaced
<1>3. KeptSessions /\ Rows(sessions') = Rows(sessions)
  BY <1>1, <1>2 DEF KeptSessions, Rows
<1> QED BY <1>2, <1>3 DEF S

Paying(s, method) == [sessions[s] EXCEPT !.paid = method]

\* A completion, or a PATCH of the end_time.
SetsEnd(s) == \E yes \in BOOLEAN : Complete(s, yes) \/ UpdateEndTime(s, yes)
\* A row that is open and was never reopened.
StandsOpen(row) == row.open /\ ~row.reopened

LEMMA Ends ==
    ASSUME TablesOK, NEW s, SetsEnd(s)
    PROVE  \E row \in SessionRow :
               /\ s \in Rows(sessions) /\ row.user = sessions[s].user
               /\ row.vehicle = sessions[s].vehicle /\ row.home = sessions[s].home
               /\ row.paid = sessions[s].paid
               /\ StandsOpen(row) => StandsOpen(sessions[s])
               /\ sessions' = [sessions EXCEPT ![s] = row]
<1>1. s \in Rows(sessions)
  BY DEF SetsEnd, Complete, UpdateEndTime
<1>2. sessions[s] \in SessionRow /\ s \in DOMAIN sessions
  BY <1>1 DEF Rows, TablesOK
<1>3. ASSUME NEW zoned \in BOOLEAN, Complete(s, zoned)
      PROVE  \E row \in SessionRow :
               /\ row.user = sessions[s].user /\ row.vehicle = sessions[s].vehicle
               /\ row.home = sessions[s].home /\ row.paid = sessions[s].paid /\ ~row.open
               /\ sessions' = [sessions EXCEPT ![s] = row]
  <2> DEFINE row == [sessions[s] EXCEPT !.open = FALSE, !.logged = @ \/ zoned]
  <2>1. sessions' = [sessions EXCEPT ![s] = row]
    BY <1>2, <1>3 DEF Complete
  <2>2. /\ row \in SessionRow /\ row.user = sessions[s].user /\ row.vehicle = sessions[s].vehicle
        /\ row.home = sessions[s].home /\ row.paid = sessions[s].paid /\ ~row.open
    BY <1>2 DEF SessionRow
  <2> QED BY <2>1, <2>2
<1>4. ASSUME NEW open \in BOOLEAN, UpdateEndTime(s, open)
      PROVE  \E row \in SessionRow :
               /\ row.user = sessions[s].user /\ row.vehicle = sessions[s].vehicle
               /\ row.home = sessions[s].home /\ row.paid = sessions[s].paid
               /\ StandsOpen(row) => StandsOpen(sessions[s])
               /\ sessions' = [sessions EXCEPT ![s] = row]
  <2> DEFINE row == [sessions[s] EXCEPT !.open = open, !.reopened = @ \/ (open /\ ~sessions[s].open)]
  <2>1. sessions' = [sessions EXCEPT ![s] = row]
    BY <1>2, <1>4 DEF UpdateEndTime
  <2>2. /\ row \in SessionRow /\ row.user = sessions[s].user /\ row.vehicle = sessions[s].vehicle
        /\ row.home = sessions[s].home /\ row.paid = sessions[s].paid
        /\ row.open = open /\ row.reopened = (sessions[s].reopened \/ (open /\ ~sessions[s].open))
    BY <1>2 DEF SessionRow
  <2> QED BY <2>1, <2>2 DEF StandsOpen
<1> QED BY <1>1, <1>3, <1>4 DEF SetsEnd, StandsOpen

LEMMA Pays ==
    ASSUME TablesOK, DeskOK, NEW t \in DeskThread, CommitPay(t)
    PROVE  LET s == desk[t].row
               row == Paying(s, desk[t].method)
           IN  /\ s \in Rows(sessions) /\ row \in SessionRow /\ row.user = sessions[s].user
               /\ row.vehicle = sessions[s].vehicle /\ row.home = sessions[s].home
               /\ StandsOpen(row) => StandsOpen(sessions[s])
               /\ sessions' = [sessions EXCEPT ![s] = row]
<1>1. desk[t].row \in Rows(sessions) /\ desk[t].method \in Method
  BY DEF CommitPay, Working, DeskOK, Sound
<1>2. sessions[desk[t].row] \in SessionRow
  BY <1>1 DEF Rows, TablesOK
<1> QED BY <1>1, <1>2 DEF CommitPay, Paying, SessionRow, StandsOpen

LEMMA SessionTableRows ==
    ASSUME GarageOK,
           \/ \E t \in DeskThread : CommitStartHome(t) \/ CommitPay(t)
           \/ \E u \in User, v \in DOMAIN vehicles : StartAtStation(u, v)
           \/ \E s \in DOMAIN sessions : SetsEnd(s)
    PROVE  TablesOK' /\ HistoriesOK' /\ RowsStay
<1> USE DEF GarageOK
<1> SUFFICES sessions' \in Seq(SessionRow \cup {Gone}) /\ KeptSessions
  BY ZenonT(30) DEF CommitStartHome, CommitPay, StartAtStation, SetsEnd, Complete, UpdateEndTime, requestRows, histories,
         TablesOK, HistoriesOK, RowsStay, KeptSessions, Rows
<1>1. ASSUME NEW t \in DeskThread, CommitStartHome(t)
      PROVE  sessions' \in Seq(SessionRow \cup {Gone}) /\ KeptSessions
  <2>1. desk[t].by \in User /\ desk[t].row \in DOMAIN homes /\ desk[t].vehicle \in DOMAIN vehicles
    BY <1>1 DEF CommitStartHome, Working, DeskOK, Sound
  <2>2. desk[t].row \in Nat /\ desk[t].vehicle \in Nat
    BY <2>1 DEF TablesOK
  <2> QED BY <1>1, <2>1, <2>2, Starting DEF CommitStartHome
<1>2. ASSUME NEW u \in User, NEW v \in DOMAIN vehicles, StartAtStation(u, v)
      PROVE  sessions' \in Seq(SessionRow \cup {Gone}) /\ KeptSessions
  <2>1. v \in Nat /\ NoRow \in Nat
    BY DEF TablesOK, NoRow
  <2> QED BY <1>2, <2>1, Starting DEF StartAtStation
<1>3. ASSUME NEW t \in DeskThread, CommitPay(t)
      PROVE  sessions' \in Seq(SessionRow \cup {Gone}) /\ KeptSessions
  BY <1>3, Pays, SessionRows
<1>4. ASSUME NEW s \in DOMAIN sessions, SetsEnd(s)
      PROVE  sessions' \in Seq(SessionRow \cup {Gone}) /\ KeptSessions
  BY <1>4, Ends, SessionRows
<1> QED BY <1>1, <1>2, <1>3, <1>4

\* The rows a sweep leaves.
LEMMA Sweeping ==
    ASSUME TablesOK, NEW t \in DeskThread, CommitSweep(t)
    PROVE  /\ vehicles' \in Seq(VehicleRow \cup {Gone}) /\ Len(vehicles') = Len(vehicles)
           /\ DOMAIN vehicles' = DOMAIN vehicles
           /\ Rows(vehicles') = Rows(vehicles) \ desk[t].vehicles
           /\ \A v \in Rows(vehicles') : vehicles'[v] = vehicles[v]
           /\ sessions' \in Seq(SessionRow \cup {Gone}) /\ DOMAIN sessions' = DOMAIN sessions
           /\ Rows(sessions') = Rows(sessions) \ desk[t].sessions
           /\ \A s \in Rows(sessions') : sessions'[s] = sessions[s]
           /\ DOMAIN accounts' = DOMAIN accounts \ desk[t].expired
           /\ \A u \in DOMAIN accounts' : accounts'[u] = accounts[u]
<1> DEFINE Cars == VehicleRow \cup {Gone}
           Charges == SessionRow \cup {Gone}
<1>1. Gone \in Cars /\ Gone \in Charges /\ vehicles \in Seq(Cars) /\ sessions \in Seq(Charges)
  BY DEF TablesOK
<1> HIDE DEF Cars, Charges
<1>2. /\ vehicles' \in Seq(Cars) /\ Len(vehicles') = Len(vehicles)
      /\ DOMAIN vehicles' = DOMAIN vehicles
      /\ \A v \in DOMAIN vehicles : vehicles'[v] = IF v \in desk[t].vehicles THEN Gone ELSE vehicles[v]
      /\ Rows(vehicles') = Rows(vehicles) \ desk[t].vehicles
  BY <1>1, Erasing DEF CommitSweep
<1>3. /\ sessions' \in Seq(Charges) /\ DOMAIN sessions' = DOMAIN sessions
      /\ \A s \in DOMAIN sessions : sessions'[s] = IF s \in desk[t].sessions THEN Gone ELSE sessions[s]
      /\ Rows(sessions') = Rows(sessions) \ desk[t].sessions
  BY <1>1, Erasing DEF CommitSweep
<1>4. /\ DOMAIN accounts' = DOMAIN accounts \ desk[t].expired
      /\ \A u \in DOMAIN accounts' : accounts'[u] = accounts[u]
  BY DEF CommitSweep
<1>5. /\ \A v \in Rows(vehicles') : vehicles'[v] = vehicles[v]
      /\ \A s \in Rows(sessions') : sessions'[s] = sessions[s]
  BY <1>2, <1>3 DEF Rows
<1> QED BY <1>2, <1>3, <1>4, <1>5 DEF Cars, Charges

LEMMA CommitSweepRows ==
    ASSUME GarageOK, NEW t \in DeskThread, CommitSweep(t)
    PROVE  TablesOK' /\ HistoriesOK' /\ RowsStay
<1> USE DEF GarageOK
<1>1. KeptVehicles /\ KeptSessions
  BY Sweeping DEF KeptVehicles, KeptSessions, Rows
<1>2. DOMAIN accounts' \subseteq User /\ accounts' \in [DOMAIN accounts' -> AccountRow]
  BY DEF CommitSweep, TablesOK
<1> QED BY <1>1, <1>2, Sweeping
        DEF CommitSweep, requestRows, TablesOK, HistoriesOK, RowsStay, KeptVehicles, KeptSessions, Rows

LEMMA ConsoleRows ==
    ASSUME GarageOK, NEW a, NEW table, NEW r, NEW status \in Statuses,
           ConsoleEdits(a, table, r, status)
    PROVE  TablesOK' /\ HistoriesOK' /\ RowsStay
<1> USE DEF GarageOK
<1>1. CASE r \in DOMAIN adminReqs /\ adminReqs' = [adminReqs EXCEPT ![r].status = status]
           /\ UNCHANGED vehicleReqs
  <2>1. /\ adminReqs' \in Seq(AdminRow) /\ DOMAIN adminReqs' = DOMAIN adminReqs
        /\ \A i \in DOMAIN adminReqs : adminReqs'[i].user = adminReqs[i].user
    BY <1>1, EditingAdmin
  <2> QED BY <1>1, <2>1 DEF ConsoleEdits, ownedRows, TablesOK, HistoriesOK, RowsStay, Rows
<1>2. CASE r \in DOMAIN vehicleReqs /\ vehicleReqs' = [vehicleReqs EXCEPT ![r].status = status]
           /\ UNCHANGED adminReqs
  <2>1. /\ vehicleReqs' \in Seq(RequestRow) /\ DOMAIN vehicleReqs' = DOMAIN vehicleReqs
        /\ \A i \in DOMAIN vehicleReqs :
              /\ vehicleReqs'[i].type = vehicleReqs[i].type /\ vehicleReqs'[i].user = vehicleReqs[i].user
              /\ vehicleReqs'[i].unit = vehicleReqs[i].unit
              /\ vehicleReqs'[i].vehicle = vehicleReqs[i].vehicle
    BY <1>2, EditingVehicle
  <2> QED BY <1>2, <2>1, ZenonT(30) DEF ConsoleEdits, ownedRows, TablesOK, HistoriesOK, RowsStay, Rows
<1> QED BY <1>1, <1>2 DEF ConsoleEdits

LEMMA ExpireRows ==
    ASSUME GarageOK, NEW u, Expire(u)
    PROVE  TablesOK' /\ HistoriesOK' /\ RowsStay
<1> USE DEF GarageOK
<1>1. DOMAIN accounts' = DOMAIN accounts /\ accounts' \in [DOMAIN accounts -> AccountRow]
  BY DEF Expire, TablesOK, AccountRow
<1> QED BY <1>1 DEF Expire, requestRows, ownedRows, histories, TablesOK, HistoriesOK, RowsStay, Rows

\* The steps that touch no table: a request begins, one is dropped, someone only reads.
LEMMA QuietRows ==
    ASSUME GarageOK,
           \/ \E t \in DeskThread : Opens(t) \/ Abandon(t) \/ FailSweep(t)
           \/ \E u \in User : Read(u)
           \/ UNCHANGED garageVars
    PROVE  TablesOK' /\ HistoriesOK' /\ RowsStay
<1> USE DEF GarageOK
<1>1. ASSUME NEW t \in DeskThread, Opens(t)
      PROVE  UNCHANGED <<accounts, adminReqs, vehicleReqs, claimed, vehicles, homes, sessions, shown,
                         made, removed, granted>>
  <2>1. PICK q : Begun(t, q)
    BY <1>1, Opening
  <2> QED BY <2>1 DEF Begun, TablesAsTheyWere, requestRows, ownedRows, histories
<1>2. UNCHANGED <<accounts, adminReqs, vehicleReqs, claimed, vehicles, homes, sessions, shown,
                  made, removed, granted>>
  BY <1>1 DEF Abandon, FailSweep, Read, garageVars, requestRows, ownedRows, histories
<1> QED BY <1>2, NothingTouched

LEMMA StepRows ==
    ASSUME GarageOK, [GarageNext]_garageVars
    PROVE  TablesOK' /\ HistoriesOK' /\ RowsStay
<1>1. ASSUME NEW t \in DeskThread, Commits(t) PROVE TablesOK' /\ HistoriesOK' /\ RowsStay
  BY <1>1, CommitAdminRows, CommitRequestRows, CommitAddRows, CommitDeleteRows, CommitPairingRows,
     CommitHomeRows, SessionTableRows, CommitSweepRows, QuietRows DEF Commits
<1>2. ASSUME Outside PROVE TablesOK' /\ HistoriesOK' /\ RowsStay
  <2>1. ASSUME NEW s \in DOMAIN sessions, SetsEnd(s) PROVE TablesOK' /\ HistoriesOK' /\ RowsStay
    BY <2>1, SessionTableRows
  <2>2. ASSUME NEW s \in DOMAIN sessions, NEW yes \in BOOLEAN,
               Complete(s, yes) \/ UpdateEndTime(s, yes)
        PROVE  SetsEnd(s)
    BY <2>2 DEF SetsEnd
  <2> QED BY <1>2, <2>1, <2>2, ConsoleRows, ExpireRows, SessionTableRows DEF Outside, Statuses
<1> QED BY <1>1, <1>2, QuietRows DEF GarageNext, Opens

-----------------------------------------------------------------------------
(***************************************************************************)
(* The type invariant and the foreign keys                                 *)
(***************************************************************************)

\* How the threads stand after a step: one began, one ended, or all stay as they were.
Stays == UNCHANGED <<desk, raced>>

LEMMA StepDesk ==
    ASSUME GarageOK, [GarageNext]_garageVars
    PROVE  \/ \E t \in DeskThread : \E q : Begun(t, q)
           \/ \E t \in DeskThread : Close(t) /\ Commits(t)
           \/ Stays /\ (Outside \/ UNCHANGED garageVars)
<1> USE DEF GarageOK
<1>1. ASSUME NEW t \in DeskThread, Opens(t) PROVE \E q : Begun(t, q)
  BY <1>1, Opening
<1>2. ASSUME NEW t \in DeskThread, Commits(t) PROVE Close(t)
  BY <1>2 DEF Commits, CommitRequestAdmin, CommitReviewAdmin, CommitRequestVehicle, CommitReject,
              CommitAdd, CommitDelete, CommitPair, CommitConfirm, CommitRegisterHome,
              CommitDeleteHome, CommitStartHome, CommitPay, CommitSweep, FailSweep, Abandon
<1>3. ASSUME Outside PROVE Stays
  BY <1>3 DEF Outside, ConsoleEdits, Expire, StartAtStation, Complete, UpdateEndTime, Stays
<1>4. ASSUME NEW u \in User, Read(u) PROVE UNCHANGED garageVars
  BY <1>4 DEF Read
<1>5. ASSUME UNCHANGED garageVars PROVE Stays
  BY <1>5 DEF garageVars, Stays
<1> QED BY <1>1, <1>2, <1>3, <1>4, <1>5 DEF GarageNext, Opens

\* What a request names stays there while it is under way.
LEMMA SoundStays ==
    ASSUME TablesOK, RowsStay, NEW q, Sound(q)
    PROVE  Sound(q)'
BY DEF RowsStay, Sound

LEMMA IdleIsSound == Sound(Idle) /\ Sound(Idle)'
BY DEF Sound, Idle

LEMMA DeskStep ==
    ASSUME GarageOK, [GarageNext]_garageVars
    PROVE  DeskOK'
<1> USE DEF GarageOK
<1>1. RowsStay
  BY StepRows
<1>2. ASSUME NEW t \in DeskThread, NEW q, Begun(t, q) PROVE DeskOK'
  <2>1. ASSUME NEW o \in DeskThread PROVE Sound(desk[o])'
    <3>1. PICK p : p = desk'[o] /\ Sound(p)
      BY <1>2 DEF Begun, DeskOK
    <3>2. Sound(p)'
      BY <3>1, <1>1, SoundStays
    <3> QED BY <3>1, <3>2
  <2> QED BY <1>2, <2>1 DEF Begun, DeskOK
<1>3. ASSUME NEW t \in DeskThread, Close(t) PROVE DeskOK'
  <2>1. /\ DOMAIN desk' = DeskThread /\ desk'[t] = Idle /\ raced' = raced
        /\ \A o \in DeskThread \ {t} : desk'[o] = desk[o]
    BY <1>3 DEF Close, DeskOK
  <2>2. ASSUME NEW o \in DeskThread PROVE Sound(desk[o])'
    <3>1. CASE o = t
      BY <3>1, <2>1, IdleIsSound
    <3>2. CASE o # t
      <4>1. PICK p : p = desk[o] /\ p = desk'[o] /\ Sound(p)
        BY <3>2, <2>1 DEF DeskOK
      <4>2. Sound(p)'
        BY <4>1, <1>1, SoundStays
      <4> QED BY <4>1, <4>2
    <3> QED BY <3>1, <3>2
  <2>3. Idle.keys = {}
    BY DEF Idle
  <2> QED BY <2>1, <2>2, <2>3 DEF DeskOK
<1>4. ASSUME Stays PROVE DeskOK'
  <2>1. ASSUME NEW o \in DeskThread PROVE Sound(desk[o])'
    <3>1. PICK p : p = desk[o] /\ p = desk'[o] /\ Sound(p)
      BY <1>4 DEF Stays, DeskOK
    <3>2. Sound(p)'
      BY <3>1, <1>1, SoundStays
    <3> QED BY <3>1, <3>2
  <2> QED BY <2>1, <1>4 DEF Stays, DeskOK
<1> QED BY <1>2, <1>3, <1>4, StepDesk

LEMMA GarageStarts ==
    ASSUME NEW garage \in Seq(Parked), GarageInit(garage)
    PROVE  GarageOK
<1>1. garage \in Seq(VehicleRow \cup {Gone})
  <2>1. Parked \subseteq VehicleRow \cup {Gone}
    <3>1. ASSUME NEW u \in User PROVE Vehicle(u) \in VehicleRow
      BY DEF Vehicle, VehicleRow
    <3> QED BY <3>1 DEF Parked
  <2> QED BY <2>1
<1>2. made \in Seq(Nat) /\ Len(made) = Len(garage) /\ \A v \in DOMAIN made : made[v] = NoRow
  <2> DEFINE zeros == [v \in 1..Len(garage) |-> 0]
  <2>1. made = zeros /\ Len(garage) \in Nat
    BY DEF GarageInit, NoRow
  <2>2. zeros \in Seq(Nat) /\ Len(zeros) = Len(garage)
    BY <2>1
  <2> QED BY <2>1, <2>2 DEF NoRow
<1>3. TablesOK
  BY <1>1, GarageAssumption DEF GarageInit, TablesOK, AccountRow
<1>4. HistoriesOK
  BY <1>2 DEF GarageInit, HistoriesOK
<1>5. DeskOK
  BY IdleIsSound DEF GarageInit, DeskOK, Idle
<1> QED BY <1>3, <1>4, <1>5 DEF GarageOK

\* Types: the rows of every table have their columns, a history names rows that exist, and
\* a request under way names the rows it will write, which no other request has in hand
\* unless the pair is recorded as raced.
THEOREM GarageTypes ==
    ASSUME NEW garage \in Seq(Parked)
    PROVE  GarageSpec(garage) => []GarageOK
<1>1. GarageInit(garage) => GarageOK
  BY GarageStarts
<1>2. GarageOK /\ [GarageNext]_garageVars => GarageOK'
  BY StepRows, DeskStep DEF GarageOK
<1> QED BY <1>1, <1>2, PTL DEF GarageSpec

\* Who writes each table; any other step leaves it as it was.
WritesAccounts ==
    \/ \E t \in DeskThread : CommitReviewAdmin(t) \/ CommitSweep(t)
    \/ \E u \in User : Expire(u)
WritesAdminReqs ==
    \/ \E t \in DeskThread : CommitRequestAdmin(t) \/ CommitReviewAdmin(t)
    \/ \E a \in User, r \in Nat, status \in Statuses : ConsoleEdits(a, "admin", r, status)
WritesVehicleReqs ==
    \/ \E t \in DeskThread :
          CommitRequestVehicle(t) \/ CommitReject(t) \/ CommitAdd(t) \/ CommitDelete(t)
    \/ \E a \in User, r \in Nat, status \in Statuses : ConsoleEdits(a, "vehicle request", r, status)
WritesVehicles ==
    \E t \in DeskThread :
        CommitAdd(t) \/ CommitDelete(t) \/ CommitPair(t) \/ CommitConfirm(t) \/ CommitSweep(t)
WritesHomes == \E t \in DeskThread : CommitRegisterHome(t) \/ CommitDeleteHome(t)
WritesSessions ==
    \/ \E t \in DeskThread : CommitStartHome(t) \/ CommitPay(t) \/ CommitSweep(t)
    \/ \E u \in User, v \in DOMAIN vehicles : StartAtStation(u, v)
    \/ \E s \in DOMAIN sessions : SetsEnd(s)

LEMMA Writers ==
    ASSUME GarageOK, [GarageNext]_garageVars
    PROVE  /\ UNCHANGED accounts \/ WritesAccounts
           /\ UNCHANGED adminReqs \/ WritesAdminReqs
           /\ UNCHANGED vehicleReqs \/ WritesVehicleReqs
           /\ UNCHANGED <<claimed, made>> \/ \E t \in DeskThread : CommitAdd(t)
           /\ UNCHANGED vehicles \/ WritesVehicles
           /\ UNCHANGED homes \/ WritesHomes
           /\ UNCHANGED sessions \/ WritesSessions
           /\ UNCHANGED removed \/ \E t \in DeskThread : CommitDelete(t)
           /\ UNCHANGED granted \/ \E t \in DeskThread : CommitReviewAdmin(t)
           /\ UNCHANGED edited \/ \E a \in User, r \in Nat : \E table, status : ConsoleEdits(a, table, r, status)
<1> DEFINE Goal ==
           /\ UNCHANGED accounts \/ WritesAccounts
           /\ UNCHANGED adminReqs \/ WritesAdminReqs
           /\ UNCHANGED vehicleReqs \/ WritesVehicleReqs
           /\ UNCHANGED <<claimed, made>> \/ \E t \in DeskThread : CommitAdd(t)
           /\ UNCHANGED vehicles \/ WritesVehicles
           /\ UNCHANGED homes \/ WritesHomes
           /\ UNCHANGED sessions \/ WritesSessions
           /\ UNCHANGED removed \/ \E t \in DeskThread : CommitDelete(t)
           /\ UNCHANGED granted \/ \E t \in DeskThread : CommitReviewAdmin(t)
           /\ UNCHANGED edited \/ \E a \in User, r \in Nat : \E table, status : ConsoleEdits(a, table, r, status)
<1> SUFFICES Goal
  OBVIOUS
<1>1. ASSUME \/ \E t \in DeskThread : Opens(t) \/ Abandon(t) \/ FailSweep(t)
             \/ \E u \in User : Read(u)
             \/ UNCHANGED garageVars
      PROVE  Goal
  <2>1. ASSUME NEW t \in DeskThread, Opens(t)
        PROVE  UNCHANGED <<accounts, adminReqs, vehicleReqs, claimed, vehicles, homes, sessions,
                           made, removed, granted, edited>>
    <3>1. PICK q : Begun(t, q)
      BY <2>1, Opening DEF GarageOK
    <3> QED BY <3>1 DEF Begun, TablesAsTheyWere, requestRows, ownedRows, histories
  <2> QED BY <1>1, <2>1 DEF Abandon, FailSweep, Read, garageVars, requestRows, ownedRows, histories
<1>2. ASSUME NEW t \in DeskThread, CommitRequestAdmin(t) \/ CommitReviewAdmin(t) PROVE Goal
  BY <1>2 DEF CommitRequestAdmin, CommitReviewAdmin, WritesAccounts, WritesAdminReqs, ownedRows, histories
<1>3. ASSUME NEW t \in DeskThread, CommitRequestVehicle(t) \/ CommitReject(t) PROVE Goal
  BY <1>3 DEF CommitRequestVehicle, CommitReject, WritesVehicleReqs, ownedRows, histories
<1>4. ASSUME NEW t \in DeskThread, CommitAdd(t) \/ CommitDelete(t) PROVE Goal
  BY <1>4 DEF CommitAdd, CommitDelete, WritesVehicleReqs, WritesVehicles
<1>5. ASSUME NEW t \in DeskThread, CommitPair(t) \/ CommitConfirm(t) PROVE Goal
  BY <1>5 DEF CommitPair, CommitConfirm, WritesVehicles, requestRows, histories
<1>6. ASSUME NEW t \in DeskThread, CommitRegisterHome(t) \/ CommitDeleteHome(t) PROVE Goal
  BY <1>6 DEF CommitRegisterHome, CommitDeleteHome, WritesHomes, requestRows, histories
<1>7. ASSUME NEW t \in DeskThread, CommitStartHome(t) \/ CommitPay(t) PROVE Goal
  BY <1>7 DEF CommitStartHome, CommitPay, WritesSessions, requestRows, histories
<1>8. ASSUME NEW t \in DeskThread, CommitSweep(t) PROVE Goal
  BY <1>8 DEF CommitSweep, WritesAccounts, WritesVehicles, WritesSessions, requestRows
<1>9. ASSUME Outside PROVE Goal
  <2>1. ASSUME NEW a \in User, NEW r \in Nat, NEW table \in {"admin", "vehicle request"},
               NEW status \in Statuses, ConsoleEdits(a, table, r, status)
        PROVE  Goal
    BY <2>1 DEF ConsoleEdits, WritesAdminReqs, WritesVehicleReqs, ownedRows
  <2>2. ASSUME NEW u \in User, Expire(u) PROVE Goal
    BY <2>2 DEF Expire, WritesAccounts, requestRows, ownedRows, histories
  <2>3. ASSUME \/ \E u \in User, v \in DOMAIN vehicles : StartAtStation(u, v)
               \/ \E s \in DOMAIN sessions : SetsEnd(s)
        PROVE  Goal
    BY <2>3 DEF StartAtStation, SetsEnd, Complete, UpdateEndTime, WritesSessions, requestRows,
              histories
  <2> HIDE DEF Goal
  <2>4. 1..MaxRequests \subseteq Nat
    BY GarageAssumption
  <2>5. ASSUME NEW s \in DOMAIN sessions, NEW yes \in BOOLEAN,
               Complete(s, yes) \/ UpdateEndTime(s, yes)
        PROVE  SetsEnd(s)
    BY <2>5 DEF SetsEnd
  <2> QED BY <1>9, <2>1, <2>2, <2>3, <2>4, <2>5 DEF Outside, Statuses
<1> HIDE DEF Goal
<1> QED BY <1>1, <1>2, <1>3, <1>4, <1>5, <1>6, <1>7, <1>8, <1>9 DEF GarageNext, Opens, Commits

\* Whom and what rows may refer to is there after any step but an approved deletion, a
\* charger's deletion and a sweep.
ReferentsStay ==
    /\ DOMAIN accounts \subseteq DOMAIN accounts'
    /\ Rows(vehicles) \subseteq Rows(vehicles') /\ Rows(homes) \subseteq Rows(homes')

LEMMA NotGone == Gone \notin VehicleRow /\ Gone \notin SessionRow
BY DEF Gone, VehicleRow, SessionRow

\* The vehicle a request makes.
LEMMA Making ==
    ASSUME GarageOK, NEW t \in DeskThread, CommitAdd(t)
    PROVE  LET n == Len(vehicles) + 1
               r == desk[t].row
           IN  /\ n \notin DOMAIN vehicles /\ n \in Nat
               /\ DOMAIN vehicles' = DOMAIN vehicles \cup {n}
               /\ vehicles'[n] = Vehicle(vehicleReqs[r].user)
               /\ Rows(vehicles') = Rows(vehicles) \cup {n}
               /\ \A v \in DOMAIN vehicles : vehicles'[v] = vehicles[v]
               /\ DOMAIN made = DOMAIN vehicles /\ DOMAIN made' = DOMAIN made \cup {n} /\ made'[n] = r
               /\ \A v \in DOMAIN made : made'[v] = made[v]
               /\ r \in DOMAIN vehicleReqs /\ r \in Nat /\ r # NoRow
               /\ vehicleReqs[r] \in RequestRow /\ vehicleReqs[r].unit \in Unit
               /\ vehicleReqs[r].type = "add"
<1> DEFINE n == Len(vehicles) + 1
           r == desk[t].row
           car == Vehicle(vehicleReqs[r].user)
<1>1. r \in DOMAIN vehicleReqs /\ vehicleReqs[r].type = "add"
  BY DEF CommitAdd, Working, GarageOK, DeskOK, Sound
<1>2. /\ vehicleReqs[r] \in RequestRow /\ vehicleReqs[r].unit \in Unit /\ r \in Nat /\ r # NoRow
  BY <1>1 DEF GarageOK, TablesOK, NoRow
<1>3. car \in VehicleRow
  BY <1>2 DEF Vehicle, VehicleRow, RequestRow
<1>4. vehicles' = Append(vehicles, car) /\ made' = Append(made, r)
  BY DEF CommitAdd
<1> HIDE DEF car
<1>5. /\ n \notin DOMAIN vehicles /\ n \in Nat
      /\ DOMAIN vehicles' = DOMAIN vehicles \cup {n} /\ vehicles'[n] = car
      /\ \A v \in DOMAIN vehicles : vehicles'[v] = vehicles[v]
  BY <1>3, <1>4, Appended DEF GarageOK, TablesOK
<1>6. Rows(vehicles') = Rows(vehicles) \cup {n}
  BY <1>3, <1>5, NotGone DEF Rows
<1>7. DOMAIN made = DOMAIN vehicles
  BY DEF GarageOK, TablesOK, HistoriesOK
<1>8. Len(made) + 1 = n
  BY DEF GarageOK, TablesOK, HistoriesOK
<1>9. /\ DOMAIN made' = DOMAIN made \cup {n} /\ made'[n] = r
      /\ \A v \in DOMAIN made : made'[v] = made[v]
  BY <1>2, <1>4, <1>8, Appended DEF GarageOK, HistoriesOK
<1> QED BY <1>1, <1>2, <1>5, <1>6, <1>7, <1>9 DEF car

\* The session a start at home makes.
LEMMA HomeStarts ==
    ASSUME GarageOK, NEW t \in DeskThread, CommitStartHome(t)
    PROVE  LET n == Len(sessions) + 1
           IN  /\ n \notin DOMAIN sessions
               /\ sessions'[n] = Session(desk[t].by, desk[t].vehicle, desk[t].row)
               /\ DOMAIN sessions' = DOMAIN sessions \cup {n}
               /\ Rows(sessions') = Rows(sessions) \cup {n}
               /\ \A s \in DOMAIN sessions : sessions'[s] = sessions[s]
<1>1. desk[t].by \in User /\ desk[t].row \in DOMAIN homes /\ desk[t].vehicle \in DOMAIN vehicles
  BY DEF CommitStartHome, Working, GarageOK, DeskOK, Sound
<1>2. desk[t].row \in Nat /\ desk[t].vehicle \in Nat
  BY <1>1 DEF GarageOK, TablesOK
<1> QED BY <1>1, <1>2, Starting DEF CommitStartHome, GarageOK

LEMMA StationStarts ==
    ASSUME GarageOK, NEW u \in User, NEW v \in DOMAIN vehicles, StartAtStation(u, v)
    PROVE  LET n == Len(sessions) + 1
           IN  /\ n \notin DOMAIN sessions /\ sessions'[n] = Session(u, v, NoRow)
               /\ DOMAIN sessions' = DOMAIN sessions \cup {n}
               /\ Rows(sessions') = Rows(sessions) \cup {n}
               /\ \A s \in DOMAIN sessions : sessions'[s] = sessions[s]
<1>1. v \in Nat /\ NoRow \in Nat
  BY DEF GarageOK, TablesOK, NoRow
<1> QED BY <1>1, Starting DEF StartAtStation, GarageOK

LEMMA ReferentsKept ==
    ASSUME GarageOK, [GarageNext]_garageVars,
           ~\E t \in DeskThread : CommitDelete(t) \/ CommitDeleteHome(t) \/ CommitSweep(t)
    PROVE  ReferentsStay
<1>1. DOMAIN accounts' = DOMAIN accounts
  <2>1. CASE UNCHANGED accounts
    BY <2>1
  <2>2. ASSUME NEW t \in DeskThread, CommitReviewAdmin(t) PROVE DOMAIN accounts' = DOMAIN accounts
    BY <2>2 DEF CommitReviewAdmin
  <2>3. ASSUME NEW u \in User, Expire(u) PROVE DOMAIN accounts' = DOMAIN accounts
    BY <2>3 DEF Expire
  <2> QED BY <2>1, <2>2, <2>3, Writers DEF WritesAccounts
<1>2. Rows(vehicles) \subseteq Rows(vehicles')
  <2>1. CASE UNCHANGED vehicles
    BY <2>1
  <2>2. ASSUME NEW t \in DeskThread, CommitAdd(t) PROVE Rows(vehicles) \subseteq Rows(vehicles')
    BY <2>2, Making
  <2>3. ASSUME NEW t \in DeskThread, CommitPair(t) PROVE Rows(vehicles) \subseteq Rows(vehicles')
    <3> DEFINE row == Displaying(desk[t].row, desk[t].wasPaired)
    <3>1. /\ desk[t].row \in Rows(vehicles) /\ row \in VehicleRow
          /\ row.owner = vehicles[desk[t].row].owner
          /\ vehicles' = [vehicles EXCEPT ![desk[t].row] = row]
      BY <2>3, Displays DEF GarageOK
    <3> HIDE DEF row
    <3>2. /\ DOMAIN vehicles' = DOMAIN vehicles
          /\ \A i \in DOMAIN vehicles : vehicles'[i] = IF i = desk[t].row THEN row ELSE vehicles[i]
      BY <3>1, Pairing DEF GarageOK
    <3> QED BY <3>1, <3>2, NotGone DEF Rows
  <2>4. ASSUME NEW t \in DeskThread, CommitConfirm(t) PROVE Rows(vehicles) \subseteq Rows(vehicles')
    <3>1. CASE desk[t].wasPaired
      BY <2>4, <3>1 DEF CommitConfirm
    <3>2. CASE ~desk[t].wasPaired
      <4> DEFINE row == Confirming(desk[t].row, desk[t].code)
      <4>1. /\ desk[t].row \in Rows(vehicles) /\ row \in VehicleRow
            /\ row.owner = vehicles[desk[t].row].owner
            /\ vehicles' = [vehicles EXCEPT ![desk[t].row] = row]
        BY <2>4, <3>2, Confirms DEF GarageOK
      <4> HIDE DEF row
      <4>2. /\ DOMAIN vehicles' = DOMAIN vehicles
            /\ \A i \in DOMAIN vehicles : vehicles'[i] = IF i = desk[t].row THEN row ELSE vehicles[i]
        BY <4>1, Pairing DEF GarageOK
      <4> QED BY <4>1, <4>2, NotGone DEF Rows
    <3> QED BY <3>1, <3>2
  <2> QED BY <2>1, <2>2, <2>3, <2>4, Writers DEF WritesVehicles
<1>3. Rows(homes) \subseteq Rows(homes')
  <2>1. CASE UNCHANGED homes
    BY <2>1
  <2>2. ASSUME NEW t \in DeskThread, CommitRegisterHome(t) PROVE Rows(homes) \subseteq Rows(homes')
    <3> DEFINE row == [owner |-> desk[t].by]
    <3>1. row \in HomeRow /\ homes' = Append(homes, row) /\ homes \in Seq(HomeRow)
      BY <2>2 DEF CommitRegisterHome, Working, GarageOK, DeskOK, Sound, HomeRow, TablesOK
    <3> HIDE DEF row
    <3> QED BY <3>1, Appended DEF Rows
  <2> QED BY <2>1, <2>2, Writers DEF WritesHomes
<1> QED BY <1>1, <1>2, <1>3 DEF ReferentsStay

\* New rows refer to rows that are there.
NewRowsRefer ==
    /\ \A r \in DOMAIN adminReqs' \ DOMAIN adminReqs : adminReqs'[r].user \in DOMAIN accounts
    /\ \A r \in DOMAIN vehicleReqs' \ DOMAIN vehicleReqs :
          /\ vehicleReqs'[r].user \in DOMAIN accounts
          /\ vehicleReqs'[r].vehicle # NoRow => vehicleReqs'[r].vehicle \in Rows(vehicles)
    /\ \A v \in Rows(vehicles') \ Rows(vehicles) : vehicles'[v].owner \in DOMAIN accounts
    /\ \A s \in Rows(sessions') \ Rows(sessions) :
          /\ sessions'[s].user \in DOMAIN accounts /\ sessions'[s].vehicle \in Rows(vehicles)
          /\ sessions'[s].home # NoRow => sessions'[s].home \in Rows(homes)

LEMMA RowsRefer ==
    ASSUME GarageOK, ForeignKeys, [GarageNext]_garageVars
    PROVE  NewRowsRefer
<1>0. RowsStay
  BY StepRows
<1>1. \A r \in DOMAIN adminReqs' \ DOMAIN adminReqs : adminReqs'[r].user \in DOMAIN accounts
  <2> DEFINE Goal == \A r \in DOMAIN adminReqs' \ DOMAIN adminReqs : adminReqs'[r].user \in DOMAIN accounts
  <2>1. ASSUME NEW t \in DeskThread, CommitRequestAdmin(t) PROVE Goal
    <3> DEFINE row == [user |-> desk[t].by, status |-> "pending", reviewer |-> Nobody]
    <3>1. /\ row \in AdminRow /\ row.user \in DOMAIN accounts /\ adminReqs' = Append(adminReqs, row)
          /\ adminReqs \in Seq(AdminRow)
      BY <2>1 DEF CommitRequestAdmin, Working, GarageOK, TablesOK, DeskOK, Sound, AdminRow, Statuses
    <3> HIDE DEF row
    <3> QED BY <3>1, Appended
  <2>2. ASSUME NEW t \in DeskThread, CommitReviewAdmin(t) PROVE Goal
    BY <2>2 DEF CommitReviewAdmin
  <2>3. ASSUME NEW a, NEW table, NEW r, NEW status, ConsoleEdits(a, table, r, status) PROVE Goal
    BY <2>3 DEF ConsoleEdits
  <2> QED BY <2>1, <2>2, <2>3, Writers DEF WritesAdminReqs
<1>2. \A r \in DOMAIN vehicleReqs' \ DOMAIN vehicleReqs :
          /\ vehicleReqs'[r].user \in DOMAIN accounts
          /\ vehicleReqs'[r].vehicle # NoRow => vehicleReqs'[r].vehicle \in Rows(vehicles)
  <2> DEFINE Goal == \A r \in DOMAIN vehicleReqs' \ DOMAIN vehicleReqs :
                         /\ vehicleReqs'[r].user \in DOMAIN accounts
                         /\ vehicleReqs'[r].vehicle # NoRow => vehicleReqs'[r].vehicle \in Rows(vehicles)
  <2>1. ASSUME NEW t \in DeskThread, CommitRequestVehicle(t) PROVE Goal
    <3> DEFINE asked == desk[t].asked
               row == [type |-> asked.type, user |-> asked.user, unit |-> asked.unit,
                       vehicle |-> asked.vehicle, status |-> "pending", reviewer |-> Nobody]
    <3>1. asked \in Asked /\ (asked.type = "add" => asked.vehicle = NoRow)
      BY <2>1 DEF CommitRequestVehicle, Working, GarageOK, DeskOK, Sound
    <3>2. /\ row.user \in DOMAIN accounts
          /\ row.vehicle # NoRow => row.vehicle \in Rows(vehicles)
      BY <2>1, <3>1 DEF CommitRequestVehicle, Asked
    <3>3. row \in RequestRow
      BY <3>1 DEF Asked, RequestRow, Statuses
    <3>4. vehicleReqs' = Append(vehicleReqs, row) /\ vehicleReqs \in Seq(RequestRow)
      BY <2>1 DEF CommitRequestVehicle, GarageOK, TablesOK
    <3> HIDE DEF row
    <3> QED BY <3>2, <3>3, <3>4, Appended
  <2>2. ASSUME NEW t \in DeskThread, CommitReject(t) \/ CommitAdd(t) \/ CommitDelete(t) PROVE Goal
    BY <2>2 DEF CommitReject, CommitAdd, CommitDelete, Reviewed, Detached
  <2>3. ASSUME NEW a, NEW table, NEW r, NEW status, ConsoleEdits(a, table, r, status) PROVE Goal
    BY <2>3 DEF ConsoleEdits
  <2> QED BY <2>1, <2>2, <2>3, Writers DEF WritesVehicleReqs
<1>3. \A v \in Rows(vehicles') \ Rows(vehicles) : vehicles'[v].owner \in DOMAIN accounts
  <2> DEFINE Goal == \A v \in Rows(vehicles') \ Rows(vehicles) : vehicles'[v].owner \in DOMAIN accounts
  <2>1. ASSUME NEW t \in DeskThread, CommitAdd(t) PROVE Goal
    <3> DEFINE n == Len(vehicles) + 1
               r == desk[t].row
    <3>1. /\ Rows(vehicles') = Rows(vehicles) \cup {n} /\ r \in DOMAIN vehicleReqs
          /\ vehicles'[n] = Vehicle(vehicleReqs[r].user)
      BY <2>1, Making
    <3>2. vehicles'[n].owner = vehicleReqs[r].user
      BY <3>1 DEF Vehicle
    <3> QED BY <3>1, <3>2 DEF ForeignKeys
  <2>2. ASSUME NEW t \in DeskThread,
               CommitDelete(t) \/ CommitPair(t) \/ CommitConfirm(t) \/ CommitSweep(t)
        PROVE  Goal
    <3>1. DOMAIN vehicles' = DOMAIN vehicles
      BY <2>2 DEF CommitDelete, Detached, CommitPair, Displayed, CommitConfirm, CommitSweep, Erased
    <3> QED BY <3>1, <1>0 DEF RowsStay, Rows
  <2> QED BY <2>1, <2>2, Writers DEF WritesVehicles
<1>4. \A s \in Rows(sessions') \ Rows(sessions) :
          /\ sessions'[s].user \in DOMAIN accounts /\ sessions'[s].vehicle \in Rows(vehicles)
          /\ sessions'[s].home # NoRow => sessions'[s].home \in Rows(homes)
  <2> DEFINE Goal == \A s \in Rows(sessions') \ Rows(sessions) :
                         /\ sessions'[s].user \in DOMAIN accounts /\ sessions'[s].vehicle \in Rows(vehicles)
                         /\ sessions'[s].home # NoRow => sessions'[s].home \in Rows(homes)
  <2>1. ASSUME NEW t \in DeskThread, CommitStartHome(t) PROVE Goal
    <3> DEFINE n == Len(sessions) + 1
    <3>1. /\ Rows(sessions') = Rows(sessions) \cup {n}
          /\ sessions'[n] = Session(desk[t].by, desk[t].vehicle, desk[t].row)
      BY <2>1, HomeStarts
    <3>2. /\ sessions'[n].user = desk[t].by /\ sessions'[n].vehicle = desk[t].vehicle
          /\ sessions'[n].home = desk[t].row
      BY <3>1 DEF Session
    <3> QED BY <2>1, <3>1, <3>2 DEF CommitStartHome
  <2>2. ASSUME NEW u \in User, NEW v \in DOMAIN vehicles, StartAtStation(u, v) PROVE Goal
    <3> DEFINE n == Len(sessions) + 1
    <3>1. /\ Rows(sessions') = Rows(sessions) \cup {n} /\ sessions'[n] = Session(u, v, NoRow)
      BY <2>2, StationStarts
    <3>2. sessions'[n].user = u /\ sessions'[n].vehicle = v /\ sessions'[n].home = NoRow
      BY <3>1 DEF Session
    <3>3. v \in Rows(vehicles) /\ u \in DOMAIN accounts
      BY <2>2 DEF StartAtStation, Owns, ForeignKeys
    <3> QED BY <3>1, <3>2, <3>3
  <2>3. ASSUME \/ \E t \in DeskThread : CommitPay(t) \/ CommitSweep(t)
               \/ \E s \in DOMAIN sessions : SetsEnd(s)
        PROVE  Goal
    <3>1. DOMAIN sessions' = DOMAIN sessions
      BY <2>3 DEF CommitPay, CommitSweep, SetsEnd, Complete, UpdateEndTime, Erased
    <3> QED BY <3>1, <1>0 DEF RowsStay, Rows
  <2> QED BY <2>1, <2>2, <2>3, Writers DEF WritesSessions
<1> QED BY <1>1, <1>2, <1>3, <1>4 DEF NewRowsRefer

LEMMA ForeignKeysStep ==
    ASSUME GarageOK, ForeignKeys, [GarageNext]_garageVars
    PROVE  ForeignKeys'
<1>1. RowsStay /\ NewRowsRefer /\ TablesOK'
  BY StepRows, RowsRefer
<1>2. CASE ReferentsStay
  <2>1. \A r \in DOMAIN adminReqs' : adminReqs'[r].user \in DOMAIN accounts'
    BY <1>1, <1>2 DEF RowsStay, NewRowsRefer, ReferentsStay, ForeignKeys
  <2>2. \A r \in DOMAIN vehicleReqs' :
          /\ vehicleReqs'[r].user \in DOMAIN accounts'
          /\ vehicleReqs'[r].vehicle # NoRow => vehicleReqs'[r].vehicle \in Rows(vehicles')
    BY <1>1, <1>2 DEF RowsStay, NewRowsRefer, ReferentsStay, ForeignKeys
  <2>3. \A v \in Rows(vehicles') : vehicles'[v].owner \in DOMAIN accounts'
    <3>1. \A v \in Rows(vehicles) \cap Rows(vehicles') : vehicles'[v].owner = vehicles[v].owner
      BY <1>1 DEF RowsStay, Rows
    <3> QED BY <1>1, <1>2, <3>1 DEF NewRowsRefer, ReferentsStay, ForeignKeys
  <2>4. \A s \in Rows(sessions') :
          /\ sessions'[s].user \in DOMAIN accounts' /\ sessions'[s].vehicle \in Rows(vehicles')
          /\ sessions'[s].home # NoRow => sessions'[s].home \in Rows(homes')
    <3>1. \A s \in Rows(sessions) \cap Rows(sessions') :
             /\ sessions'[s].user = sessions[s].user /\ sessions'[s].vehicle = sessions[s].vehicle
             /\ sessions'[s].home = sessions[s].home
      BY <1>1 DEF RowsStay, Rows
    <3> QED BY <1>1, <1>2, <3>1 DEF NewRowsRefer, ReferentsStay, ForeignKeys
  <2> QED BY <2>1, <2>2, <2>3, <2>4 DEF ForeignKeys
<1>3. ASSUME NEW t \in DeskThread, CommitDelete(t) PROVE ForeignKeys'
  <2> DEFINE v == desk[t].vehicle
             r == desk[t].row
  <2>1. UNCHANGED <<accounts, adminReqs, homes, sessions>> /\ DOMAIN vehicleReqs' = DOMAIN vehicleReqs
    BY <1>3 DEF CommitDelete, Detached, Reviewed
  <2>2. Rows(vehicles') = Rows(vehicles) \ {v}
    BY <1>3 DEF CommitDelete, Detached, Rows
  <2>3. v \in Rows(vehicles) =>
           /\ \A s \in Rows(sessions) : sessions[s].vehicle # v
           /\ \A i \in DOMAIN vehicleReqs : i # r => vehicleReqs[i].vehicle # v
    BY <1>3 DEF CommitDelete, Deletable
  <2>4. vehicleReqs'[r].vehicle = NoRow
    <3>1. r \in DOMAIN Reviewed(t) /\ Reviewed(t)[r] \in RequestRow
      <4>1. r \in DOMAIN vehicleReqs /\ desk[t].verdict \in Verdicts /\ desk[t].by \in User
        BY <1>3 DEF CommitDelete, Working, GarageOK, DeskOK, Sound
      <4> QED BY <4>1, Deciding DEF GarageOK
    <3> QED BY <1>3, <3>1 DEF CommitDelete, Detached, RequestRow
  <2>5. \A v2 \in Rows(vehicles') : v2 \in Rows(vehicles) /\ vehicles'[v2].owner = vehicles[v2].owner
    BY <1>1, <2>2 DEF RowsStay, Rows
  <2>6. \A i \in DOMAIN vehicleReqs :
           vehicleReqs'[i].vehicle # NoRow => vehicleReqs'[i].vehicle \in Rows(vehicles')
    BY <1>1, <2>2, <2>3, <2>4 DEF RowsStay, ForeignKeys
  <2>7. \A s \in Rows(sessions) : sessions[s].vehicle \in Rows(vehicles')
    BY <2>2, <2>3 DEF ForeignKeys
  <2> QED BY <1>1, <2>1, <2>5, <2>6, <2>7 DEF ForeignKeys, RowsStay
<1>4. ASSUME NEW t \in DeskThread, CommitDeleteHome(t) PROVE ForeignKeys'
  <2>1. UNCHANGED <<accounts, adminReqs, vehicleReqs, vehicles, sessions>>
    BY <1>4 DEF CommitDeleteHome, requestRows
  <2>2. Rows(homes') = Rows(homes) \ {desk[t].row}
    BY <1>4 DEF CommitDeleteHome, Rows
  <2>3. \A s \in Rows(sessions) : sessions[s].home # desk[t].row
    BY <1>4 DEF CommitDeleteHome
  <2> QED BY <2>1, <2>2, <2>3 DEF ForeignKeys
<1>5. ASSUME NEW t \in DeskThread, CommitSweep(t) PROVE ForeignKeys'
  <2> DEFINE gone == desk[t].expired
             cars == desk[t].vehicles
             charges == desk[t].sessions
  <2>1. /\ Rows(vehicles') = Rows(vehicles) \ cars
        /\ \A v \in Rows(vehicles') : vehicles'[v] = vehicles[v]
        /\ Rows(sessions') = Rows(sessions) \ charges
        /\ \A s \in Rows(sessions') : sessions'[s] = sessions[s]
        /\ DOMAIN accounts' = DOMAIN accounts \ gone
    BY <1>5, Sweeping DEF GarageOK
  <2>2. UNCHANGED <<adminReqs, vehicleReqs, homes>>
    BY <1>5 DEF CommitSweep, requestRows
  <2>3. Erasable(gone, cars, charges)
    BY <1>5 DEF CommitSweep
  <2>4. \A r \in DOMAIN adminReqs : adminReqs[r].user \in DOMAIN accounts'
    BY <2>1, <2>3 DEF Erasable, ForeignKeys
  <2>5. \A r \in DOMAIN vehicleReqs :
          /\ vehicleReqs[r].user \in DOMAIN accounts'
          /\ vehicleReqs[r].vehicle # NoRow => vehicleReqs[r].vehicle \in Rows(vehicles')
    BY <2>1, <2>3 DEF Erasable, ForeignKeys
  <2>6. \A v \in Rows(vehicles') : vehicles'[v].owner \in DOMAIN accounts'
    BY <2>1, <2>3 DEF Erasable, ForeignKeys
  <2>7. \A s \in Rows(sessions') :
          /\ sessions'[s].user \in DOMAIN accounts' /\ sessions'[s].vehicle \in Rows(vehicles')
          /\ sessions'[s].home # NoRow => sessions'[s].home \in Rows(homes)
    BY <2>1, <2>3 DEF Erasable, ForeignKeys
  <2> QED BY <2>2, <2>4, <2>5, <2>6, <2>7 DEF ForeignKeys
<1> QED BY <1>2, <1>3, <1>4, <1>5, ReferentsKept

\* Every row refers to rows that are there: what the database's foreign keys demand holds
\* between the steps, because each commit checks it again.
THEOREM GarageReferences ==
    ASSUME NEW garage \in Seq(Parked)
    PROVE  GarageSpec(garage) => []ForeignKeys
<1>1. GarageInit(garage) => ForeignKeys
  <2> SUFFICES ASSUME GarageInit(garage) PROVE ForeignKeys
    OBVIOUS
  <2>1. \A v \in DOMAIN garage : garage[v].owner \in User
    BY DEF Parked, Vehicle
  <2> QED BY <2>1 DEF GarageInit, ForeignKeys, Rows
<1>2. GarageOK /\ ForeignKeys /\ [GarageNext]_garageVars => ForeignKeys'
  BY ForeignKeysStep
<1> QED BY <1>1, <1>2, GarageTypes, PTL DEF GarageSpec

-----------------------------------------------------------------------------
(***************************************************************************)
(* Threads and the rows they have in hand                                  *)
(***************************************************************************)

\* In a step a thread is done, begins a request, or waits, committing nothing.
Waits(t) == desk'[t] = desk[t] /\ ~Close(t)

LEMMA ThreadStep ==
    ASSUME GarageOK, [GarageNext]_garageVars, NEW t \in DeskThread
    PROVE  desk'[t] = Idle \/ (\E q : Begun(t, q)) \/ Waits(t)
<1>1. ASSUME NEW o \in DeskThread, NEW q, Begun(o, q), o # t, desk'[t] # Idle PROVE Waits(t)
  <2>1. desk'[t] = desk[t]
    BY <1>1 DEF Begun
  <2>2. ~Close(t)
    BY <1>1 DEF Close, GarageOK, DeskOK
  <2> QED BY <2>1, <2>2 DEF Waits
<1>2. ASSUME NEW o \in DeskThread, Close(o), desk'[t] # Idle PROVE Waits(t)
  BY <1>2 DEF Close, GarageOK, DeskOK, Waits
<1>3. ASSUME Stays, desk'[t] # Idle PROVE Waits(t)
  BY <1>3 DEF Stays, Close, GarageOK, DeskOK, Waits
<1> QED BY <1>1, <1>2, <1>3, StepDesk

LEMMA Raced ==
    ASSUME GarageOK, NEW t \in DeskThread, NEW o \in DeskThread, t # o, NEW key,
           key \in desk[t].keys, key \in desk[o].keys
    PROVE  key \in raced
BY DEF GarageOK, DeskOK

\* What was raced or edited stays so.
LEMMA HistoryGrows ==
    ASSUME GarageOK, [GarageNext]_garageVars
    PROVE  raced \subseteq raced' /\ edited \subseteq edited'
<1>1. raced \subseteq raced'
  BY StepDesk DEF Begun, Close, Stays
<1>2. edited \subseteq edited'
  BY Writers DEF ConsoleEdits
<1> QED BY <1>1, <1>2

LEMMA EditedGrows ==
    ASSUME GarageOK, [GarageNext]_garageVars, NEW table, NEW r, ~Edited(table, r)'
    PROVE  ~Edited(table, r)
BY HistoryGrows DEF Edited

\* A commit closes its thread's request, which was of the commit's kind.
LEMMA CommitsClose ==
    ASSUME NEW t
    PROVE  /\ CommitReviewAdmin(t) => Close(t) /\ desk[t].kind = "review admin"
           /\ CommitReject(t) \/ CommitAdd(t) \/ CommitDelete(t)
                 => Close(t) /\ desk[t].kind = "review vehicle"
           /\ CommitPair(t) => Close(t) /\ desk[t].kind = "pair"
           /\ CommitConfirm(t) => Close(t) /\ desk[t].kind = "confirm"
           /\ CommitStartHome(t) => Close(t) /\ desk[t].kind = "start home"
           /\ CommitPay(t) => Close(t) /\ desk[t].kind = "pay"
           /\ CommitSweep(t) => Close(t) /\ desk[t].kind = "sweep"
BY DEF CommitReviewAdmin, CommitReject, CommitAdd, CommitDelete, CommitPair, CommitConfirm,
       CommitStartHome, CommitPay, CommitSweep, Working

-----------------------------------------------------------------------------
(***************************************************************************)
(* Decisions                                                               *)
(***************************************************************************)

\* A request for admin rights changes when it is reviewed, or edited at the console.
LEMMA AdminRequestKept ==
    ASSUME GarageOK, [GarageNext]_garageVars, NEW r \in DOMAIN adminReqs
    PROVE  \/ adminReqs'[r] = adminReqs[r]
           \/ \E o \in DeskThread : CommitReviewAdmin(o) /\ desk[o].row = r
           \/ Edited("admin", r)'
<1>1. ASSUME NEW o \in DeskThread, CommitRequestAdmin(o) PROVE adminReqs'[r] = adminReqs[r]
  <2> DEFINE row == [user |-> desk[o].by, status |-> "pending", reviewer |-> Nobody]
  <2>1. /\ row \in AdminRow /\ adminReqs' = Append(adminReqs, row) /\ adminReqs \in Seq(AdminRow)
    BY <1>1 DEF CommitRequestAdmin, Working, GarageOK, TablesOK, DeskOK, Sound, AdminRow, Statuses
  <2> HIDE DEF row
  <2> QED BY <2>1, Appended
<1>2. ASSUME NEW o \in DeskThread, CommitReviewAdmin(o), desk[o].row # r
      PROVE  adminReqs'[r] = adminReqs[r]
  BY <1>2 DEF CommitReviewAdmin
<1>3. ASSUME NEW a \in User, NEW i \in Nat, NEW status, ConsoleEdits(a, "admin", i, status),
             ~Edited("admin", r)'
      PROVE  adminReqs'[r] = adminReqs[r]
  <2>1. i # r
    BY <1>3 DEF ConsoleEdits, Edited
  <2> QED BY <1>3, <2>1 DEF ConsoleEdits
<1> QED BY <1>1, <1>2, <1>3, Writers DEF WritesAdminReqs

\* The user of a request who is an admin stays one.
LEMMA AdminStays ==
    ASSUME GarageOK, ForeignKeys, [GarageNext]_garageVars, NEW r \in DOMAIN adminReqs,
           IsAdmin(adminReqs[r].user)
    PROVE  IsAdmin(adminReqs[r].user)'
<1> DEFINE u == adminReqs[r].user
<1>1. adminReqs'[r].user = u /\ u \in DOMAIN accounts /\ accounts[u].persona = "city_admin"
  BY StepRows DEF RowsStay, IsAdmin
<1> SUFFICES u \in DOMAIN accounts' /\ accounts'[u].persona = "city_admin"
  BY <1>1 DEF IsAdmin
<1> HIDE DEF u
<1>2. accounts \in [DOMAIN accounts -> AccountRow]
  BY DEF GarageOK, TablesOK
<1>3. ASSUME NEW t \in DeskThread, CommitReviewAdmin(t)
      PROVE  u \in DOMAIN accounts' /\ accounts'[u].persona = "city_admin"
  BY <1>1, <1>2, <1>3 DEF CommitReviewAdmin, AccountRow
<1>4. ASSUME NEW t \in DeskThread, CommitSweep(t)
      PROVE  u \in DOMAIN accounts' /\ accounts'[u].persona = "city_admin"
  <2>1. u \notin desk[t].expired
    BY <1>4 DEF CommitSweep, Erasable, u
  <2> QED BY <1>1, <1>4, <2>1, Sweeping DEF GarageOK
<1>5. ASSUME NEW x \in User, Expire(x)
      PROVE  u \in DOMAIN accounts' /\ accounts'[u].persona = "city_admin"
  BY <1>1, <1>2, <1>5 DEF Expire, AccountRow
<1> QED BY <1>1, <1>3, <1>4, <1>5, Writers DEF WritesAccounts

AdminDecided ==
    \A r \in DOMAIN adminReqs : <<"admin", r>> \notin raced /\ ~Edited("admin", r) =>
        /\ (adminReqs[r].status = "approved") <=> (r \in granted)
        /\ adminReqs[r].status = "approved" => IsAdmin(adminReqs[r].user)

LEMMA AdminReviewsStep ==
    ASSUME GarageOK, AdminReviewsStand, [GarageNext]_garageVars
    PROVE  AdminReviewsStand'
<1> SUFFICES ASSUME NEW t \in DeskThread, desk'[t].kind = "review admin",
                    <<"admin", desk'[t].row>> \notin raced', ~Edited("admin", desk[t].row)'
             PROVE  adminReqs'[desk'[t].row].status = "pending"
  BY DEF AdminReviewsStand
<1>1. CASE desk'[t] = Idle
  BY <1>1 DEF Idle
<1>2. ASSUME NEW q, Begun(t, q) PROVE adminReqs'[desk'[t].row].status = "pending"
  BY <1>2 DEF Begun, Knows, TablesAsTheyWere, requestRows
<1>3. CASE Waits(t)
  <2> DEFINE r == desk[t].row
  <2>1. /\ desk'[t] = desk[t] /\ desk[t].kind = "review admin"
        /\ r \in DOMAIN adminReqs /\ <<"admin", r>> \in desk[t].keys
    BY <1>3 DEF Waits, GarageOK, DeskOK, Sound
  <2>2. <<"admin", r>> \notin raced /\ ~Edited("admin", r)' /\ ~Edited("admin", r)
    BY <2>1, HistoryGrows, EditedGrows
  <2>3. adminReqs[r].status = "pending"
    BY <2>1, <2>2 DEF AdminReviewsStand
  <2>4. ASSUME NEW o \in DeskThread, CommitReviewAdmin(o), desk[o].row = r PROVE FALSE
    <3>1. o # t /\ <<"admin", r>> \in desk[o].keys
      BY <1>3, <2>4, CommitsClose DEF Waits, GarageOK, DeskOK, Sound
    <3> QED BY <3>1, <2>1, <2>2, Raced
  <2> QED BY <2>1, <2>2, <2>3, <2>4, AdminRequestKept
<1> QED BY <1>1, <1>2, <1>3, ThreadStep

LEMMA AdminDecidedStep ==
    ASSUME GarageOK, ForeignKeys, AdminReviewsStand, AdminDecided, [GarageNext]_garageVars
    PROVE  AdminDecided'
<1> SUFFICES ASSUME NEW r \in DOMAIN adminReqs', <<"admin", r>> \notin raced', ~Edited("admin", r)'
             PROVE  /\ (adminReqs'[r].status = "approved") <=> (r \in granted')
                    /\ adminReqs'[r].status = "approved" => IsAdmin(adminReqs[r].user)'
  BY DEF AdminDecided
<1>1. CASE r \notin DOMAIN adminReqs
  <2>1. PICK t \in DeskThread : CommitRequestAdmin(t)
    BY <1>1, Writers DEF WritesAdminReqs, CommitReviewAdmin, ConsoleEdits
  <2> DEFINE row == [user |-> desk[t].by, status |-> "pending", reviewer |-> Nobody]
  <2>2. /\ row \in AdminRow /\ row.status = "pending"
        /\ adminReqs' = Append(adminReqs, row) /\ adminReqs \in Seq(AdminRow)
    BY <2>1 DEF CommitRequestAdmin, Working, GarageOK, TablesOK, DeskOK, Sound, AdminRow, Statuses
  <2> HIDE DEF row
  <2>3. adminReqs'[r] = row
    BY <1>1, <2>2, Appended
  <2>4. r \notin granted'
    BY <1>1, <2>1 DEF CommitRequestAdmin, histories, GarageOK, HistoriesOK
  <2> QED BY <2>2, <2>3, <2>4
<1>2. CASE r \in DOMAIN adminReqs
  <2>1. <<"admin", r>> \notin raced /\ ~Edited("admin", r)
    BY HistoryGrows, EditedGrows
  <2>2. /\ (adminReqs[r].status = "approved") <=> (r \in granted)
        /\ adminReqs[r].status = "approved" => IsAdmin(adminReqs[r].user)
    BY <1>2, <2>1 DEF AdminDecided
  <2>3. ASSUME NEW t \in DeskThread, CommitReviewAdmin(t), desk[t].row = r
        PROVE  /\ (adminReqs'[r].status = "approved") <=> (r \in granted')
               /\ adminReqs'[r].status = "approved" => IsAdmin(adminReqs[r].user)'
    <3>1. adminReqs[r].status = "pending" /\ r \notin granted
      BY <2>1, <2>2, <2>3, CommitsClose DEF AdminReviewsStand
    <3>2. adminReqs[r] \in AdminRow /\ adminReqs[r].user \in DOMAIN accounts
      BY <1>2 DEF GarageOK, TablesOK, ForeignKeys
    <3>3. adminReqs'[r].status = desk[t].verdict /\ adminReqs'[r].user = adminReqs[r].user
      BY <1>2, <2>3, <3>2 DEF CommitReviewAdmin, AdminRow
    <3>4. CASE desk[t].verdict = "approved"
      <4>1. r \in granted'
        BY <2>3, <3>4 DEF CommitReviewAdmin
      <4>2. accounts[adminReqs[r].user] \in AccountRow
        BY <3>2 DEF GarageOK, TablesOK
      <4>3. /\ adminReqs[r].user \in DOMAIN accounts'
            /\ accounts'[adminReqs[r].user].persona = "city_admin"
        BY <2>3, <3>2, <3>4, <4>2 DEF CommitReviewAdmin, AccountRow
      <4> QED BY <3>3, <3>4, <4>1, <4>3 DEF IsAdmin
    <3>5. CASE desk[t].verdict # "approved"
      BY <2>3, <3>1, <3>3, <3>5 DEF CommitReviewAdmin
    <3> QED BY <3>4, <3>5
  <2>4. ASSUME adminReqs'[r] = adminReqs[r],
               ~\E t \in DeskThread : CommitReviewAdmin(t) /\ desk[t].row = r
        PROVE  /\ (adminReqs'[r].status = "approved") <=> (r \in granted')
               /\ adminReqs'[r].status = "approved" => IsAdmin(adminReqs[r].user)'
    <3>1. r \in granted' <=> r \in granted
      BY <2>4, Writers DEF CommitReviewAdmin
    <3> QED BY <1>2, <2>2, <2>4, <3>1, AdminStays
  <2> QED BY <1>2, <2>3, <2>4, AdminRequestKept
<1> QED BY <1>1, <1>2

\* The rows after a vehicle request's review.
LEMMA Reviewing ==
    ASSUME GarageOK, NEW t \in DeskThread, CommitReject(t) \/ CommitAdd(t) \/ CommitDelete(t)
    PROVE  LET r == desk[t].row
           IN  /\ r \in DOMAIN vehicleReqs /\ DOMAIN vehicleReqs' = DOMAIN vehicleReqs
               /\ \A i \in DOMAIN vehicleReqs \ {r} : vehicleReqs'[i] = vehicleReqs[i]
               /\ vehicleReqs'[r].status = desk[t].verdict
               /\ vehicleReqs'[r].type = vehicleReqs[r].type
               /\ ~CommitDelete(t) => vehicleReqs'[r].vehicle = vehicleReqs[r].vehicle
<1> DEFINE r == desk[t].row
<1>1. r \in DOMAIN vehicleReqs /\ desk[t].verdict \in Verdicts /\ desk[t].by \in User
  BY CommitsClose DEF GarageOK, DeskOK, Sound
<1>2. /\ Reviewed(t) \in Seq(RequestRow) /\ DOMAIN Reviewed(t) = DOMAIN vehicleReqs
      /\ \A i \in DOMAIN vehicleReqs \ {r} : Reviewed(t)[i] = vehicleReqs[i]
      /\ Reviewed(t)[r].type = vehicleReqs[r].type
      /\ Reviewed(t)[r].vehicle = vehicleReqs[r].vehicle
      /\ Reviewed(t)[r].status = desk[t].verdict
  BY <1>1, Deciding DEF GarageOK
<1>3. CASE CommitReject(t) \/ CommitAdd(t)
  <2>1. vehicleReqs' = Reviewed(t)
    BY <1>3 DEF CommitReject, CommitAdd
  <2> QED BY <2>1, <1>1, <1>2
<1>4. CASE CommitDelete(t)
  <2>1. Reviewed(t)[r] \in RequestRow
    BY <1>1, <1>2
  <2>2. vehicleReqs' = [Reviewed(t) EXCEPT ![r].vehicle = NoRow]
    BY <1>4 DEF CommitDelete, Detached
  <2> QED BY <1>1, <1>2, <1>4, <2>1, <2>2 DEF RequestRow
<1> QED BY <1>3, <1>4

\* A vehicle request that is added.
LEMMA Requesting ==
    ASSUME GarageOK, NEW t \in DeskThread, CommitRequestVehicle(t)
    PROVE  LET n == Len(vehicleReqs) + 1
           IN  /\ DOMAIN vehicleReqs' = DOMAIN vehicleReqs \cup {n} /\ n \notin DOMAIN vehicleReqs
               /\ n # NoRow
               /\ \A r \in DOMAIN vehicleReqs : vehicleReqs'[r] = vehicleReqs[r]
               /\ vehicleReqs'[n].status = "pending"
               /\ vehicleReqs'[n].type = "delete" => vehicleReqs'[n].vehicle # NoRow
<1> DEFINE asked == desk[t].asked
           row == [type |-> asked.type, user |-> asked.user, unit |-> asked.unit,
                   vehicle |-> asked.vehicle, status |-> "pending", reviewer |-> Nobody]
<1>1. asked \in Asked
  BY DEF CommitRequestVehicle, Working, GarageOK, DeskOK, Sound
<1>2. row \in RequestRow /\ row.status = "pending"
  BY <1>1 DEF Asked, RequestRow, Statuses
<1>3. row.type = "delete" => row.vehicle # NoRow
  <2>1. \A v \in Rows(vehicles) : v # NoRow
    BY DEF GarageOK, TablesOK, Rows, NoRow
  <2> QED BY <2>1 DEF CommitRequestVehicle
<1>4. vehicleReqs' = Append(vehicleReqs, row) /\ vehicleReqs \in Seq(RequestRow)
  BY DEF CommitRequestVehicle, GarageOK, TablesOK
<1> HIDE DEF row
<1> QED BY <1>2, <1>3, <1>4, Appended DEF NoRow

LEMMA VehicleRequestKept ==
    ASSUME GarageOK, [GarageNext]_garageVars, NEW r \in DOMAIN vehicleReqs
    PROVE  \/ vehicleReqs'[r] = vehicleReqs[r]
           \/ \E o \in DeskThread : /\ CommitReject(o) \/ CommitAdd(o) \/ CommitDelete(o)
                                    /\ desk[o].row = r
           \/ Edited("vehicle request", r)'
<1>1. ASSUME NEW o \in DeskThread, CommitRequestVehicle(o) PROVE vehicleReqs'[r] = vehicleReqs[r]
  BY <1>1, Requesting
<1>2. ASSUME NEW o \in DeskThread, CommitReject(o) \/ CommitAdd(o) \/ CommitDelete(o), desk[o].row # r
      PROVE  vehicleReqs'[r] = vehicleReqs[r]
  BY <1>2, Reviewing
<1>3. ASSUME NEW a \in User, NEW i \in Nat, NEW status, ConsoleEdits(a, "vehicle request", i, status),
             ~Edited("vehicle request", r)'
      PROVE  vehicleReqs'[r] = vehicleReqs[r]
  <2>1. i # r
    BY <1>3 DEF ConsoleEdits, Edited
  <2> QED BY <1>3, <2>1 DEF ConsoleEdits
<1> QED BY <1>1, <1>2, <1>3, Writers DEF WritesVehicleReqs

LEMMA VehicleReviewsStep ==
    ASSUME GarageOK, VehicleReviewsStand, [GarageNext]_garageVars
    PROVE  VehicleReviewsStand'
<1> DEFINE Holds(t) == /\ vehicleReqs'[desk'[t].row].status = "pending"
                       /\ desk'[t].vehicle = vehicleReqs'[desk'[t].row].vehicle
<1> SUFFICES ASSUME NEW t \in DeskThread, desk'[t].kind = "review vehicle",
                    <<"vehicle request", desk'[t].row>> \notin raced',
                    ~Edited("vehicle request", desk[t].row)'
             PROVE  Holds(t)
  BY DEF VehicleReviewsStand
<1>1. CASE desk'[t] = Idle
  <2>1. Idle.kind = "idle"
    BY DEF Idle
  <2> QED BY <1>1, <2>1
<1>2. ASSUME NEW q, Begun(t, q) PROVE Holds(t)
  BY <1>2 DEF Begun, Knows, TablesAsTheyWere, requestRows
<1>3. CASE Waits(t)
  <2> DEFINE r == desk[t].row
  <2>1. /\ desk'[t] = desk[t] /\ desk[t].kind = "review vehicle"
        /\ r \in DOMAIN vehicleReqs /\ <<"vehicle request", r>> \in desk[t].keys
    BY <1>3 DEF Waits, GarageOK, DeskOK, Sound
  <2>2. <<"vehicle request", r>> \notin raced /\ ~Edited("vehicle request", r)'
        /\ ~Edited("vehicle request", r)
    BY <2>1, HistoryGrows, EditedGrows
  <2>3. vehicleReqs[r].status = "pending" /\ desk[t].vehicle = vehicleReqs[r].vehicle
    BY <2>1, <2>2 DEF VehicleReviewsStand
  <2>4. ASSUME NEW o \in DeskThread, CommitReject(o) \/ CommitAdd(o) \/ CommitDelete(o), desk[o].row = r
        PROVE  FALSE
    <3>1. o # t /\ <<"vehicle request", r>> \in desk[o].keys
      BY <1>3, <2>4, CommitsClose DEF Waits, GarageOK, DeskOK, Sound
    <3> QED BY <3>1, <2>1, <2>2, Raced
  <2> QED BY <2>1, <2>2, <2>3, <2>4, VehicleRequestKept
<1> QED BY <1>1, <1>2, <1>3, ThreadStep

LEMMA DeletionsStep ==
    ASSUME GarageOK, VehicleReviewsStand, DeletionsAreToDo, [GarageNext]_garageVars
    PROVE  DeletionsAreToDo'
<1> SUFFICES ASSUME NEW r \in DOMAIN vehicleReqs', vehicleReqs'[r].type = "delete",
                    vehicleReqs'[r].status # "approved",
                    <<"vehicle request", r>> \notin raced', ~Edited("vehicle request", r)'
             PROVE  vehicleReqs'[r].vehicle # NoRow
  BY DEF DeletionsAreToDo
<1>1. CASE r \notin DOMAIN vehicleReqs
  <2>1. PICK t \in DeskThread : CommitRequestVehicle(t)
    <3>1. ASSUME NEW a, NEW table, NEW i, NEW status, ConsoleEdits(a, table, i, status)
          PROVE  DOMAIN vehicleReqs' = DOMAIN vehicleReqs
      BY <3>1 DEF ConsoleEdits
    <3> QED BY <1>1, <3>1, Reviewing, Writers DEF WritesVehicleReqs
  <2> QED BY <1>1, <2>1, Requesting
<1>2. CASE r \in DOMAIN vehicleReqs
  <2>1. <<"vehicle request", r>> \notin raced /\ ~Edited("vehicle request", r)
    BY HistoryGrows, EditedGrows
  <2>2. vehicleReqs[r].type = "delete"
    BY <1>2, StepRows DEF RowsStay
  <2>3. vehicleReqs[r].status # "approved" => vehicleReqs[r].vehicle # NoRow
    BY <1>2, <2>1, <2>2 DEF DeletionsAreToDo
  <2>4. ASSUME NEW o \in DeskThread, CommitReject(o) \/ CommitAdd(o) \/ CommitDelete(o), desk[o].row = r
        PROVE  vehicleReqs'[r].vehicle # NoRow
    <3>1. vehicleReqs'[r].status = desk[o].verdict
      BY <2>4, Reviewing
    <3>2. CommitReject(o)
      BY <2>4, <3>1 DEF CommitAdd, CommitDelete
    <3>3. ~CommitDelete(o)
      BY <3>1 DEF CommitDelete
    <3>4. vehicleReqs'[r].vehicle = vehicleReqs[r].vehicle
      BY <2>4, <3>3, Reviewing
    <3>5. vehicleReqs[r].status = "pending"
      BY <2>1, <2>4, CommitsClose DEF VehicleReviewsStand
    <3> QED BY <2>3, <3>4, <3>5
  <2> QED BY <1>2, <2>3, <2>4, VehicleRequestKept
<1> QED BY <1>1, <1>2

\* What was done for a request changes in the commit of its approval only.
LEMMA DoneKept ==
    ASSUME GarageOK, [GarageNext]_garageVars, NEW r \in DOMAIN vehicleReqs,
           ~\E o \in DeskThread : (CommitAdd(o) \/ CommitDelete(o)) /\ desk[o].row = r
    PROVE  DoneFor(r)' = DoneFor(r)
<1>1. vehicleReqs'[r].type = vehicleReqs[r].type
  BY StepRows DEF RowsStay
<1>2. MadeFor(r)' = MadeFor(r)
  <2>1. CASE UNCHANGED made
    BY <2>1 DEF MadeFor
  <2>2. ASSUME NEW o \in DeskThread, CommitAdd(o) PROVE MadeFor(r)' = MadeFor(r)
    BY <2>2, Making DEF MadeFor
  <2> QED BY <2>1, <2>2, Writers
<1>3. {gone \in removed' : gone[2] = r} = {gone \in removed : gone[2] = r}
  <2>1. CASE UNCHANGED removed
    BY <2>1
  <2>2. ASSUME NEW o \in DeskThread, CommitDelete(o)
        PROVE  {gone \in removed' : gone[2] = r} = {gone \in removed : gone[2] = r}
    <3> DEFINE new == <<desk[o].vehicle, desk[o].row>>
    <3>1. removed' = removed \/ removed' = removed \cup {new}
      BY <2>2 DEF CommitDelete, Detached
    <3>2. new[2] # r
      BY <2>2
    <3> HIDE DEF new
    <3> QED BY <3>1, <3>2
  <2> QED BY <2>1, <2>2, Writers
<1> QED BY <1>1, <1>2, <1>3 DEF DoneFor

LEMMA VehiclesDoneStep ==
    ASSUME GarageOK, ForeignKeys, VehicleReviewsStand, DeletionsAreToDo, VehiclesDone,
           [GarageNext]_garageVars
    PROVE  VehiclesDone'
<1> DEFINE Holds(r) == IF vehicleReqs'[r].status = "approved" THEN \E d : DoneFor(r)' = {d}
                       ELSE DoneFor(r)' = {}
<1> SUFFICES ASSUME NEW r \in DOMAIN vehicleReqs', <<"vehicle request", r>> \notin raced',
                    ~Edited("vehicle request", r)'
             PROVE  Holds(r)
  BY DEF VehiclesDone
<1>1. CASE r \notin DOMAIN vehicleReqs
  <2>1. PICK t \in DeskThread : CommitRequestVehicle(t)
    <3>1. ASSUME NEW a, NEW table, NEW i, NEW status, ConsoleEdits(a, table, i, status)
          PROVE  DOMAIN vehicleReqs' = DOMAIN vehicleReqs
      BY <3>1 DEF ConsoleEdits
    <3> QED BY <1>1, <3>1, Reviewing, Writers DEF WritesVehicleReqs
  <2>2. vehicleReqs'[r].status = "pending" /\ r # NoRow
    BY <1>1, <2>1, Requesting
  <2>3. UNCHANGED <<made, removed>>
    BY <2>1 DEF CommitRequestVehicle, histories
  <2>4. MadeFor(r)' = {}
    BY <1>1, <2>2, <2>3 DEF MadeFor, GarageOK, HistoriesOK
  <2>5. {gone \in removed' : gone[2] = r} = {}
    BY <1>1, <2>3 DEF GarageOK, HistoriesOK
  <2> QED BY <2>2, <2>4, <2>5 DEF DoneFor
<1>2. CASE r \in DOMAIN vehicleReqs
  <2>1. <<"vehicle request", r>> \notin raced /\ ~Edited("vehicle request", r)
    BY HistoryGrows, EditedGrows
  <2>2. IF vehicleReqs[r].status = "approved" THEN \E d : DoneFor(r) = {d} ELSE DoneFor(r) = {}
    BY <1>2, <2>1 DEF VehiclesDone
  <2>3. ASSUME NEW o \in DeskThread, CommitReject(o) \/ CommitAdd(o) \/ CommitDelete(o), desk[o].row = r
        PROVE  DoneFor(r) = {} /\ vehicleReqs[r].status = "pending" /\ desk[o].vehicle = vehicleReqs[r].vehicle
    BY <2>1, <2>2, <2>3, CommitsClose DEF VehicleReviewsStand
  <2>4. ASSUME NEW o \in DeskThread, CommitReject(o), desk[o].row = r PROVE Holds(r)
    <3>1. vehicleReqs'[r].status = "rejected"
      BY <2>4, Reviewing DEF CommitReject
    <3>2. UNCHANGED <<made, removed>> /\ vehicleReqs'[r].type = vehicleReqs[r].type
      BY <2>4, Reviewing DEF CommitReject, histories
    <3> QED BY <2>3, <2>4, <3>1, <3>2 DEF DoneFor, MadeFor
  <2>5. ASSUME NEW o \in DeskThread, CommitAdd(o), desk[o].row = r PROVE Holds(r)
    <3>1. vehicleReqs'[r].status = "approved"
      BY <2>5, Reviewing DEF CommitAdd
    <3>2. vehicleReqs[r].type = "add" /\ vehicleReqs'[r].type = "add"
      BY <2>5, Reviewing DEF CommitAdd
    <3>3. MadeFor(r) = {}
      BY <2>3, <2>5, <3>2 DEF DoneFor
    <3>4. MadeFor(r)' = {Len(vehicles) + 1}
      <4> DEFINE n == Len(vehicles) + 1
      <4>1. DOMAIN made' = DOMAIN made \cup {n} /\ made'[n] = r /\ \A v \in DOMAIN made : made'[v] = made[v]
        BY <2>5, Making
      <4> HIDE DEF n
      <4>2. MadeFor(r)' = {n}
        BY <3>3, <4>1 DEF MadeFor
      <4> QED BY <4>2 DEF n
    <3> QED BY <3>1, <3>2, <3>4 DEF DoneFor
  <2>6. ASSUME NEW o \in DeskThread, CommitDelete(o), desk[o].row = r PROVE Holds(r)
    <3>1. vehicleReqs'[r].status = "approved"
      BY <2>6, Reviewing DEF CommitDelete
    <3>2. vehicleReqs[r].type = "delete" /\ vehicleReqs'[r].type = "delete"
      BY <2>6, Reviewing DEF CommitDelete
    <3>3. vehicleReqs[r].vehicle \in Rows(vehicles)
      BY <1>2, <2>1, <2>3, <2>6, <3>2 DEF DeletionsAreToDo, ForeignKeys
    <3>4. removed' = removed \cup {<<desk[o].vehicle, r>>}
      BY <2>3, <2>6, <3>3 DEF CommitDelete, Detached
    <3>5. {gone \in removed : gone[2] = r} = {}
      BY <2>3, <2>6, <3>2 DEF DoneFor
    <3>6. {gone \in removed' : gone[2] = r} = {<<desk[o].vehicle, r>>}
      <4> DEFINE new == <<desk[o].vehicle, r>>
      <4>1. new[2] = r
        OBVIOUS
      <4> HIDE DEF new
      <4>2. {gone \in removed' : gone[2] = r} = {new}
        BY <3>4, <3>5, <4>1 DEF new
      <4> QED BY <4>2 DEF new
    <3> QED BY <3>1, <3>2, <3>6 DEF DoneFor
  <2>7. ASSUME vehicleReqs'[r] = vehicleReqs[r],
               ~\E o \in DeskThread : (CommitAdd(o) \/ CommitDelete(o)) /\ desk[o].row = r
        PROVE  Holds(r)
    BY <1>2, <2>2, <2>7, DoneKept
  <2> HIDE DEF Holds
  <2> QED BY <1>2, <2>4, <2>5, <2>6, <2>7, VehicleRequestKept
<1> QED BY <1>1, <1>2

\* What decisions stand on: a review under way still finds its request pending, and what
\* was done for a request is what its status says.
DecisionsInv == /\ AdminReviewsStand /\ AdminDecided /\ VehicleReviewsStand /\ DeletionsAreToDo
                /\ VehiclesDone

\* Approved, a request's user is an admin, its one vehicle was made or its vehicle was
\* deleted, and otherwise nothing was done, for any number of requests, reviews and failed
\* commits (admin.py:53-79, 101-170).
THEOREM DecisionsStandTheorem ==
    ASSUME NEW garage \in Seq(Parked)
    PROVE  GarageSpec(garage) => []DecisionsStand
<1>1. GarageInit(garage) => DecisionsInv
  <2> SUFFICES ASSUME GarageInit(garage) PROVE DecisionsInv
    OBVIOUS
  <2>1. \A t \in DeskThread : desk[t].kind = "idle"
    BY DEF GarageInit, Idle
  <2>2. DOMAIN adminReqs = {} /\ DOMAIN vehicleReqs = {}
    BY DEF GarageInit
  <2> QED BY <2>1, <2>2 DEF DecisionsInv, AdminReviewsStand, AdminDecided, VehicleReviewsStand,
                            DeletionsAreToDo, VehiclesDone
<1>2. GarageOK /\ ForeignKeys /\ DecisionsInv /\ [GarageNext]_garageVars => DecisionsInv'
  BY AdminReviewsStep, AdminDecidedStep, VehicleReviewsStep, DeletionsStep, VehiclesDoneStep
     DEF DecisionsInv
<1>3. DecisionsInv => DecisionsStand
  <2> SUFFICES ASSUME DecisionsInv, NEW r \in DOMAIN vehicleReqs,
                      <<"vehicle request", r>> \notin raced, ~Edited("vehicle request", r)
               PROVE  Cardinality(DoneFor(r)) = IF vehicleReqs[r].status = "approved" THEN 1 ELSE 0
    BY DEF DecisionsInv, DecisionsStand, AdminDecided, DoneFor
  <2>1. IF vehicleReqs[r].status = "approved" THEN \E d : DoneFor(r) = {d} ELSE DoneFor(r) = {}
    BY DEF DecisionsInv, VehiclesDone
  <2> QED BY <2>1, FS_Singleton, FS_EmptySet
<1> QED BY <1>1, <1>2, <1>3, GarageTypes, GarageReferences, PTL DEF GarageSpec

-----------------------------------------------------------------------------
(***************************************************************************)
(* Claims and pairings                                                     *)
(***************************************************************************)

LEMMA IdleKind == Idle.kind = "idle"
BY DEF Idle

LEMMA ClaimsStep ==
    ASSUME GarageOK, ClaimsStand, [GarageNext]_garageVars
    PROVE  ClaimsStand'
<1> SUFFICES ASSUME NEW t \in DeskThread, desk'[t].kind = "review vehicle",
                    desk'[t].verdict = "approved",
                    vehicleReqs'[desk'[t].row].type = "add",
                    <<"unit", vehicleReqs'[desk'[t].row].unit>> \notin raced'
             PROVE  vehicleReqs'[desk'[t].row].unit \notin claimed'
  BY DEF ClaimsStand
<1>1. CASE desk'[t] = Idle
  BY <1>1, IdleKind
<1>2. ASSUME NEW q, Begun(t, q) PROVE vehicleReqs'[desk'[t].row].unit \notin claimed'
  BY <1>2 DEF Begun, Knows, Claimable, TablesAsTheyWere, requestRows
<1>3. CASE Waits(t)
  <2> DEFINE r == desk[t].row
             n == vehicleReqs[r].unit
  <2>1. /\ desk'[t] = desk[t] /\ desk[t].kind = "review vehicle" /\ desk[t].verdict = "approved"
        /\ r \in DOMAIN vehicleReqs /\ <<"unit", n>> \in desk[t].keys
    BY <1>3 DEF Waits, GarageOK, DeskOK, Sound
  <2>2. vehicleReqs'[r].type = vehicleReqs[r].type /\ vehicleReqs'[r].unit = n
    BY <2>1, StepRows DEF RowsStay
  <2>3. <<"unit", n>> \notin raced
    BY <2>1, <2>2, HistoryGrows
  <2>4. n \notin claimed
    BY <2>1, <2>2, <2>3 DEF ClaimsStand
  <2>5. ASSUME NEW o \in DeskThread, CommitAdd(o) PROVE n \notin claimed'
    <3>1. o # t /\ <<"unit", vehicleReqs[desk[o].row].unit>> \in desk[o].keys
      BY <1>3, <2>5, CommitsClose DEF Waits, GarageOK, DeskOK, Sound
    <3>2. vehicleReqs[desk[o].row].unit # n
      BY <2>1, <2>3, <3>1, Raced
    <3> QED BY <2>4, <2>5, <3>2 DEF CommitAdd
  <2>6. n \notin claimed'
    BY <2>4, <2>5, Writers
  <2> QED BY <2>1, <2>2, <2>6
<1> QED BY <1>1, <1>2, <1>3, ThreadStep

\* The vehicles made from a unit, after a step.
LEMMA MadeFromStep ==
    ASSUME GarageOK, [GarageNext]_garageVars, NEW n
    PROVE  \/ MadeFrom(n)' = MadeFrom(n) /\ claimed' = claimed
           \/ \E o \in DeskThread :
                 LET unit == vehicleReqs[desk[o].row].unit
                 IN  /\ CommitAdd(o) /\ claimed' = claimed \cup {unit}
                     /\ MadeFrom(n)' = IF unit = n THEN MadeFrom(n) \cup {Len(vehicles) + 1}
                                       ELSE MadeFrom(n)
<1>1. \A v \in DOMAIN made : made[v] # NoRow =>
         made[v] \in DOMAIN vehicleReqs /\ vehicleReqs'[made[v]].unit = vehicleReqs[made[v]].unit
  BY StepRows DEF GarageOK, HistoriesOK, RowsStay
<1>2. CASE UNCHANGED <<claimed, made>>
  BY <1>1, <1>2 DEF MadeFrom
<1>3. ASSUME NEW o \in DeskThread, CommitAdd(o)
      PROVE  LET unit == vehicleReqs[desk[o].row].unit
             IN  /\ claimed' = claimed \cup {unit}
                 /\ MadeFrom(n)' = IF unit = n THEN MadeFrom(n) \cup {Len(vehicles) + 1}
                                   ELSE MadeFrom(n)
  <2> DEFINE v == Len(vehicles) + 1
             r == desk[o].row
  <2>1. /\ DOMAIN made' = DOMAIN made \cup {v} /\ made'[v] = r /\ v \notin DOMAIN made
        /\ \A i \in DOMAIN made : made'[i] = made[i]
        /\ r \in DOMAIN vehicleReqs /\ r # NoRow
    BY <1>3, Making
  <2>2. vehicleReqs'[r].unit = vehicleReqs[r].unit
    BY <2>1, StepRows DEF RowsStay
  <2>3. claimed' = claimed \cup {vehicleReqs[r].unit}
    BY <1>3 DEF CommitAdd
  <2> HIDE DEF v, r
  <2>4. MadeFrom(n)' = IF vehicleReqs[r].unit = n THEN MadeFrom(n) \cup {v} ELSE MadeFrom(n)
    <3>1. CASE vehicleReqs[r].unit = n
      BY <1>1, <2>1, <2>2, <3>1 DEF MadeFrom
    <3>2. CASE vehicleReqs[r].unit # n
      BY <1>1, <2>1, <2>2, <3>2 DEF MadeFrom
    <3> QED BY <3>1, <3>2
  <2> QED BY <2>3, <2>4 DEF v, r
<1> QED BY <1>2, <1>3, Writers

LEMMA OneMadeStep ==
    ASSUME GarageOK, ClaimsStand, OneMade, [GarageNext]_garageVars
    PROVE  OneMade'
<1> SUFFICES ASSUME NEW n \in Unit
             PROVE  /\ n \in claimed' <=> MadeFrom(n)' # {}
                    /\ <<"unit", n>> \notin raced' => \A v, w \in MadeFrom(n)' : v = w
  BY DEF OneMade
<1>1. /\ n \in claimed <=> MadeFrom(n) # {}
      /\ <<"unit", n>> \notin raced => \A v, w \in MadeFrom(n) : v = w
  BY DEF OneMade
<1>2. <<"unit", n>> \notin raced' => <<"unit", n>> \notin raced
  BY HistoryGrows
<1>3. CASE MadeFrom(n)' = MadeFrom(n) /\ claimed' = claimed
  BY <1>1, <1>2, <1>3
<1>4. ASSUME NEW o \in DeskThread, CommitAdd(o),
             claimed' = claimed \cup {vehicleReqs[desk[o].row].unit},
             MadeFrom(n)' = IF vehicleReqs[desk[o].row].unit = n THEN MadeFrom(n) \cup {Len(vehicles) + 1}
                            ELSE MadeFrom(n)
      PROVE  /\ n \in claimed' <=> MadeFrom(n)' # {}
             /\ <<"unit", n>> \notin raced' => \A v, w \in MadeFrom(n)' : v = w
  <2> DEFINE unit == vehicleReqs[desk[o].row].unit
  <2>1. <<"unit", unit>> \notin raced => unit \notin claimed
    BY <1>4, CommitsClose DEF ClaimsStand, CommitAdd
  <2> QED BY <1>1, <1>2, <1>4, <2>1
<1> QED BY <1>3, <1>4, MadeFromStep

\* A unit is claimed exactly when a vehicle was made from it, and only one was unless two
\* reviews of it overlapped, for any number of requests and deletions (admin.py:114-138).
THEOREM ClaimsAddUpTheorem ==
    ASSUME NEW garage \in Seq(Parked)
    PROVE  GarageSpec(garage) => []ClaimsAddUp
<1>1. GarageInit(garage) => ClaimsStand /\ OneMade
  <2> SUFFICES ASSUME GarageInit(garage) PROVE ClaimsStand /\ OneMade
    OBVIOUS
  <2>1. \A t \in DeskThread : desk[t].kind = "idle"
    BY IdleKind DEF GarageInit
  <2>2. \A n : MadeFrom(n) = {}
    BY DEF GarageInit, MadeFrom
  <2>3. claimed = {}
    BY DEF GarageInit
  <2> QED BY <2>1, <2>2, <2>3 DEF ClaimsStand, OneMade
<1>2. GarageOK /\ ClaimsStand /\ OneMade /\ [GarageNext]_garageVars => ClaimsStand' /\ OneMade'
  BY ClaimsStep, OneMadeStep
<1>3. OneMade => ClaimsAddUp
  <2> SUFFICES ASSUME OneMade, NEW n \in Unit, <<"unit", n>> \notin raced
               PROVE  Cardinality(MadeFrom(n)) <= 1
    BY DEF OneMade, ClaimsAddUp
  <2>1. \A v, w \in MadeFrom(n) : v = w
    BY DEF OneMade
  <2>2. MadeFrom(n) = {} \/ \E v : MadeFrom(n) = {v}
    BY <2>1
  <2>3. Cardinality(MadeFrom(n)) \in {0, 1}
    BY <2>2, FS_Singleton, FS_EmptySet
  <2> QED BY <2>3
<1> QED BY <1>1, <1>2, <1>3, GarageTypes, PTL DEF GarageSpec

\* A vehicle's row changes when a code is displayed or confirmed, or it goes.
LEMMA VehicleKept ==
    ASSUME GarageOK, [GarageNext]_garageVars, NEW v \in DOMAIN vehicles, v \in Rows(vehicles')
    PROVE  \/ vehicles'[v] = vehicles[v]
           \/ \E o \in DeskThread : CommitPair(o) /\ desk[o].row = v
           \/ \E o \in DeskThread : CommitConfirm(o) /\ ~desk[o].wasPaired /\ desk[o].row = v
<1>1. ASSUME NEW o \in DeskThread, CommitAdd(o) PROVE vehicles'[v] = vehicles[v]
  BY <1>1, Making
<1>2. ASSUME NEW o \in DeskThread, CommitDelete(o) PROVE vehicles'[v] = vehicles[v]
  BY <1>2 DEF CommitDelete, Detached, Rows
<1>3. ASSUME NEW o \in DeskThread, CommitPair(o), desk[o].row # v PROVE vehicles'[v] = vehicles[v]
  BY <1>3 DEF CommitPair, Displayed
<1>4. ASSUME NEW o \in DeskThread, CommitConfirm(o), desk[o].wasPaired \/ desk[o].row # v
      PROVE  vehicles'[v] = vehicles[v]
  BY <1>4 DEF CommitConfirm
<1>5. ASSUME NEW o \in DeskThread, CommitSweep(o) PROVE vehicles'[v] = vehicles[v]
  BY <1>5, Sweeping DEF GarageOK
<1> QED BY <1>1, <1>2, <1>3, <1>4, <1>5, Writers DEF WritesVehicles

LEMMA PairingsStep ==
    ASSUME GarageOK, PairingsStand, [GarageNext]_garageVars
    PROVE  PairingsStand'
<1> DEFINE Holds(t) == /\ desk'[t].wasPaired = vehicles'[desk'[t].row].paired
                       /\ desk'[t].kind = "confirm" => desk'[t].code = vehicles'[desk'[t].row].code
<1> SUFFICES ASSUME NEW t \in DeskThread, desk'[t].kind \in {"pair", "confirm"},
                    desk'[t].row \in Rows(vehicles'), <<"pairing", desk'[t].row>> \notin raced'
             PROVE  Holds(t)
  BY DEF PairingsStand
<1>1. CASE desk'[t] = Idle
  BY <1>1, IdleKind
<1>2. ASSUME NEW q, Begun(t, q) PROVE Holds(t)
  BY <1>2 DEF Begun, Knows, TablesAsTheyWere, ownedRows
<1>3. CASE Waits(t)
  <2> DEFINE v == desk[t].row
  <2>1. /\ desk'[t] = desk[t] /\ desk[t].kind \in {"pair", "confirm"}
        /\ v \in DOMAIN vehicles /\ <<"pairing", v>> \in desk[t].keys
    BY <1>3 DEF Waits, GarageOK, DeskOK, Sound
  <2>2. v \in Rows(vehicles) /\ <<"pairing", v>> \notin raced
    BY <2>1, StepRows, HistoryGrows DEF RowsStay
  <2>3. /\ desk[t].wasPaired = vehicles[v].paired
        /\ desk[t].kind = "confirm" => desk[t].code = vehicles[v].code
    BY <2>1, <2>2 DEF PairingsStand
  <2>4. ASSUME NEW o \in DeskThread, CommitPair(o) \/ CommitConfirm(o), desk[o].row = v PROVE FALSE
    <3>1. o # t /\ <<"pairing", v>> \in desk[o].keys
      BY <1>3, <2>4, CommitsClose DEF Waits, GarageOK, DeskOK, Sound
    <3> QED BY <3>1, <2>1, <2>2, Raced
  <2>5. vehicles'[v] = vehicles[v]
    BY <2>1, <2>4, VehicleKept
  <2> QED BY <2>1, <2>3, <2>5
<1> HIDE DEF Holds
<1> QED BY <1>1, <1>2, <1>3, ThreadStep

LEMMA PairedStep ==
    ASSUME GarageOK, PairingsStand, PairedMeansConfirmed, [GarageNext]_garageVars
    PROVE  PairedMeansConfirmed'
<1> SUFFICES ASSUME NEW v \in Rows(vehicles'), vehicles'[v].paired, <<"pairing", v>> \notin raced'
             PROVE  vehicles'[v].proven = vehicles'[v].code
  BY DEF PairedMeansConfirmed
<1>0. v \in DOMAIN vehicles' /\ <<"pairing", v>> \notin raced
  BY HistoryGrows DEF Rows
<1>1. CASE v \notin DOMAIN vehicles
  <2>1. PICK o \in DeskThread : CommitAdd(o)
    <3>1. ASSUME NEW o \in DeskThread,
                 CommitDelete(o) \/ CommitPair(o) \/ CommitConfirm(o) \/ CommitSweep(o)
          PROVE  DOMAIN vehicles' = DOMAIN vehicles
      BY <3>1 DEF CommitDelete, Detached, CommitPair, Displayed, CommitConfirm, CommitSweep, Erased
    <3> QED BY <1>0, <1>1, <3>1, Writers DEF WritesVehicles
  <2>2. vehicles'[v] = Vehicle(vehicleReqs[desk[o].row].user)
    BY <1>0, <1>1, <2>1, Making
  <2> QED BY <2>2 DEF Vehicle
<1>2. CASE v \in DOMAIN vehicles
  <2>1. v \in Rows(vehicles) /\ vehicles[v] \in VehicleRow
    BY <1>2, StepRows DEF RowsStay, GarageOK, TablesOK, Rows
  <2>2. vehicles[v].paired => vehicles[v].proven = vehicles[v].code
    BY <1>0, <2>1 DEF PairedMeansConfirmed
  <2>3. ASSUME NEW o \in DeskThread, CommitPair(o), desk[o].row = v PROVE FALSE
    <3> DEFINE row == Displaying(v, desk[o].wasPaired)
    <3>1. /\ row \in VehicleRow /\ row.owner = vehicles[v].owner
          /\ vehicles' = [vehicles EXCEPT ![v] = row]
          /\ row.paired = (IF desk[o].wasPaired THEN FALSE ELSE vehicles[v].paired)
      BY <2>3, Displays DEF GarageOK
    <3>2. vehicles'[v] = row
      BY <1>2, <3>1
    <3>3. desk[o].wasPaired = vehicles[v].paired
      BY <1>0, <2>1, <2>3, CommitsClose DEF PairingsStand
    <3>4. desk[o].wasPaired \in BOOLEAN
      BY <2>3, CommitsClose DEF GarageOK, DeskOK, Sound
    <3> HIDE DEF row
    <3> QED BY <3>1, <3>2, <3>3, <3>4
  <2>4. ASSUME NEW o \in DeskThread, CommitConfirm(o), ~desk[o].wasPaired, desk[o].row = v
        PROVE  vehicles'[v].proven = vehicles'[v].code
    <3> DEFINE row == Confirming(v, desk[o].code)
    <3>1. /\ row.proven = desk[o].code /\ row.code = vehicles[v].code
          /\ vehicles' = [vehicles EXCEPT ![v] = row]
      BY <2>4, Confirms DEF GarageOK
    <3>2. vehicles'[v] = row
      BY <1>2, <3>1
    <3>3. desk[o].code = vehicles[v].code
      BY <1>0, <2>1, <2>4, CommitsClose DEF PairingsStand
    <3> HIDE DEF row
    <3> QED BY <3>1, <3>2, <3>3
  <2> QED BY <1>2, <2>2, <2>3, <2>4, VehicleKept
<1> QED BY <1>1, <1>2

\* A paired vehicle was confirmed with the code it shows now, unless a pairing of it was
\* raced (vehicle_link.py:38-57).
THEOREM PairedMeansConfirmedTheorem ==
    ASSUME NEW garage \in Seq(Parked)
    PROVE  GarageSpec(garage) => []PairedMeansConfirmed
<1>1. GarageInit(garage) => PairingsStand /\ PairedMeansConfirmed
  <2> SUFFICES ASSUME GarageInit(garage) PROVE PairingsStand /\ PairedMeansConfirmed
    OBVIOUS
  <2>1. \A t \in DeskThread : desk[t].kind = "idle"
    BY IdleKind DEF GarageInit
  <2>2. \A v \in DOMAIN vehicles : ~vehicles[v].paired
    BY DEF GarageInit, Parked, Vehicle
  <2> QED BY <2>1, <2>2 DEF PairingsStand, PairedMeansConfirmed, Rows
<1>2. GarageOK /\ PairingsStand /\ PairedMeansConfirmed /\ [GarageNext]_garageVars
      => PairingsStand' /\ PairedMeansConfirmed'
  BY PairingsStep, PairedStep
<1> QED BY <1>1, <1>2, GarageTypes, PTL DEF GarageSpec

-----------------------------------------------------------------------------
(***************************************************************************)
(* Home chargers and payments                                              *)
(***************************************************************************)

\* A session after a step is one there was, open since its start only if it was, or a new one.
LEMMA SessionKept ==
    ASSUME GarageOK, [GarageNext]_garageVars, NEW s \in Rows(sessions')
    PROVE  \/ /\ s \in Rows(sessions) /\ sessions'[s].user = sessions[s].user
              /\ sessions'[s].vehicle = sessions[s].vehicle /\ sessions'[s].home = sessions[s].home
              /\ StandsOpen(sessions'[s]) => StandsOpen(sessions[s])
           \/ \E t \in DeskThread :
                 /\ CommitStartHome(t) /\ s = Len(sessions) + 1
                 /\ sessions'[s] = Session(desk[t].by, desk[t].vehicle, desk[t].row)
           \/ \E u \in User, v \in DOMAIN vehicles :
                 StartAtStation(u, v) /\ sessions'[s] = Session(u, v, NoRow)
<1>1. ASSUME s \in DOMAIN sessions
      PROVE  /\ s \in Rows(sessions) /\ sessions'[s].user = sessions[s].user
             /\ sessions'[s].vehicle = sessions[s].vehicle /\ sessions'[s].home = sessions[s].home
  BY <1>1, StepRows DEF RowsStay
<1>2. ASSUME s \in DOMAIN sessions PROVE StandsOpen(sessions'[s]) => StandsOpen(sessions[s])
  <2>1. s \in Rows(sessions) /\ sessions[s] \in SessionRow
    BY <1>1, <1>2 DEF GarageOK, TablesOK, Rows
  <2>2. ASSUME NEW t \in DeskThread, CommitPay(t) PROVE StandsOpen(sessions'[s]) => StandsOpen(sessions[s])
    <3> DEFINE row == Paying(desk[t].row, desk[t].method)
    <3>1. /\ StandsOpen(row) => StandsOpen(sessions[desk[t].row])
          /\ sessions' = [sessions EXCEPT ![desk[t].row] = row]
      BY <2>2, Pays DEF GarageOK
    <3> HIDE DEF row
    <3> QED BY <1>2, <3>1
  <2>3. ASSUME NEW t \in DeskThread, CommitStartHome(t) PROVE StandsOpen(sessions'[s]) => StandsOpen(sessions[s])
    BY <1>2, <2>3, HomeStarts
  <2>4. ASSUME NEW t \in DeskThread, CommitSweep(t) PROVE StandsOpen(sessions'[s]) => StandsOpen(sessions[s])
    BY <2>4, Sweeping DEF GarageOK
  <2>5. ASSUME NEW u \in User, NEW v \in DOMAIN vehicles, StartAtStation(u, v)
        PROVE  StandsOpen(sessions'[s]) => StandsOpen(sessions[s])
    BY <1>2, <2>5, StationStarts
  <2>6. ASSUME NEW i, SetsEnd(i) PROVE StandsOpen(sessions'[s]) => StandsOpen(sessions[s])
    <3>1. PICK row : /\ StandsOpen(row) => StandsOpen(sessions[i])
                     /\ sessions' = [sessions EXCEPT ![i] = row]
      BY <2>6, Ends DEF GarageOK
    <3> QED BY <1>2, <3>1
  <2> QED BY <2>2, <2>3, <2>4, <2>5, <2>6, Writers DEF WritesSessions
<1>3. ASSUME s \notin DOMAIN sessions
      PROVE  \/ \E t \in DeskThread :
                   /\ CommitStartHome(t) /\ s = Len(sessions) + 1
                   /\ sessions'[s] = Session(desk[t].by, desk[t].vehicle, desk[t].row)
             \/ \E u \in User, v \in DOMAIN vehicles :
                   StartAtStation(u, v) /\ sessions'[s] = Session(u, v, NoRow)
  <2>0. s \in DOMAIN sessions'
    BY DEF Rows
  <2>1. ASSUME NEW t \in DeskThread, CommitStartHome(t)
        PROVE  s = Len(sessions) + 1 /\ sessions'[s] = Session(desk[t].by, desk[t].vehicle, desk[t].row)
    BY <1>3, <2>0, <2>1, HomeStarts
  <2>2. ASSUME NEW u \in User, NEW v \in DOMAIN vehicles, StartAtStation(u, v)
        PROVE  sessions'[s] = Session(u, v, NoRow)
    BY <1>3, <2>0, <2>2, StationStarts
  <2>3. ASSUME \/ \E t \in DeskThread : CommitPay(t) \/ CommitSweep(t)
               \/ \E i \in DOMAIN sessions : SetsEnd(i)
        PROVE  DOMAIN sessions' = DOMAIN sessions
    BY <2>3 DEF CommitPay, CommitSweep, SetsEnd, Complete, UpdateEndTime, Erased
  <2> QED BY <1>3, <2>0, <2>1, <2>2, <2>3, Writers DEF WritesSessions
<1> QED BY <1>1, <1>2, <1>3

\* What is still open at a charger after a step.
LEMMA StillOpenStep ==
    ASSUME GarageOK, [GarageNext]_garageVars, NEW h, h # NoRow
    PROVE  \/ StillOpen(h)' \subseteq StillOpen(h)
           \/ \E t \in DeskThread :
                 /\ CommitStartHome(t) /\ desk[t].row = h
                 /\ StillOpen(h)' \subseteq StillOpen(h) \cup {Len(sessions) + 1}
<1>1. CASE \E t \in DeskThread : CommitStartHome(t) /\ desk[t].row = h
  <2>1. PICK t \in DeskThread : CommitStartHome(t) /\ desk[t].row = h
    BY <1>1
  <2>2. StillOpen(h)' \subseteq StillOpen(h) \cup {Len(sessions) + 1}
    <3>1. \A s \in DOMAIN sessions : sessions'[s] = sessions[s]
      BY <2>1, HomeStarts
    <3>2. Rows(sessions') = Rows(sessions) \cup {Len(sessions) + 1}
      BY <2>1, HomeStarts
    <3> QED BY <3>1, <3>2 DEF StillOpen, OpenAt, Rows
  <2> QED BY <2>1, <2>2
<1>2. CASE ~\E t \in DeskThread : CommitStartHome(t) /\ desk[t].row = h
  <2> SUFFICES ASSUME NEW s \in StillOpen(h)' PROVE s \in StillOpen(h)
    OBVIOUS
  <2>1. s \in Rows(sessions') /\ sessions'[s].home = h /\ StandsOpen(sessions'[s])
    BY DEF StillOpen, OpenAt, StandsOpen
  <2>2. ASSUME NEW t \in DeskThread, CommitStartHome(t),
               sessions'[s] = Session(desk[t].by, desk[t].vehicle, desk[t].row)
        PROVE  FALSE
    BY <1>2, <2>1, <2>2 DEF Session
  <2>3. ASSUME NEW u, NEW v, sessions'[s] = Session(u, v, NoRow) PROVE FALSE
    BY <2>1, <2>3 DEF Session
  <2>4. s \in Rows(sessions) /\ sessions[s].home = h /\ StandsOpen(sessions[s])
    BY <2>1, <2>2, <2>3, SessionKept
  <2> QED BY <2>4 DEF StillOpen, OpenAt, StandsOpen
<1> QED BY <1>1, <1>2

\* Rows are numbered from 1.
LEMMA HomesFromOne ==
    ASSUME GarageOK
    PROVE  NoRow \notin DOMAIN homes
<1>1. homes \in Seq(HomeRow)
  BY DEF GarageOK, TablesOK
<1> QED BY <1>1 DEF NoRow

LEMMA HomesStep ==
    ASSUME GarageOK, HomesStand, [GarageNext]_garageVars
    PROVE  HomesStand'
<1> DEFINE Holds(t) ==
        /\ desk'[t].row \in Rows(homes') =>
              /\ homes'[desk'[t].row].owner = desk'[t].by
              /\ <<"home", desk'[t].row>> \notin raced' => StillOpen(desk[t].row)' = {}
        /\ desk'[t].vehicle \in Rows(vehicles') => vehicles'[desk'[t].vehicle].owner = desk'[t].by
<1> SUFFICES ASSUME NEW t \in DeskThread, desk'[t].kind = "start home" PROVE Holds(t)
  BY DEF HomesStand
<1>1. CASE desk'[t] = Idle
  BY <1>1, IdleKind
<1>2. ASSUME NEW q, Begun(t, q) PROVE Holds(t)
  <2>1. desk'[t] = q /\ Knows(q) /\ UNCHANGED <<vehicles, homes, sessions>>
    BY <1>2 DEF Begun, TablesAsTheyWere, ownedRows
  <2>2. StillOpen(q.row) = {} /\ homes[q.row].owner = q.by /\ vehicles[q.vehicle].owner = q.by
    BY <2>1 DEF Knows, IsFreeHome, Owns, StillOpen
  <2>3. StillOpen(desk[t].row)' = StillOpen(q.row)
    BY <2>1 DEF StillOpen, OpenAt, Rows
  <2> QED BY <2>1, <2>2, <2>3
<1>3. CASE Waits(t)
  <2>0. PICK h, v : h = desk[t].row /\ v = desk[t].vehicle
    OBVIOUS
  <2>1. /\ desk'[t] = desk[t] /\ desk[t].kind = "start home"
        /\ h \in DOMAIN homes /\ v \in DOMAIN vehicles /\ <<"home", h>> \in desk[t].keys
    BY <1>3, <2>0 DEF Waits, GarageOK, DeskOK, Sound
  <2>2. h # NoRow
    BY <2>1, HomesFromOne
  <2>3. ASSUME h \in Rows(homes') PROVE h \in Rows(homes) /\ homes'[h].owner = desk[t].by
    BY <2>0, <2>1, <2>3, StepRows DEF RowsStay, HomesStand
  <2>4. ASSUME h \in Rows(homes'), <<"home", h>> \notin raced' PROVE StillOpen(h)' = {}
    <3>1. <<"home", h>> \notin raced /\ StillOpen(h) = {}
      BY <2>0, <2>1, <2>3, <2>4, HistoryGrows DEF HomesStand
    <3>2. ASSUME NEW o \in DeskThread, CommitStartHome(o), desk[o].row = h PROVE FALSE
      <4>1. o # t /\ <<"home", h>> \in desk[o].keys
        BY <1>3, <3>2, CommitsClose DEF Waits, GarageOK, DeskOK, Sound
      <4> QED BY <4>1, <2>1, <3>1, Raced
    <3> QED BY <2>2, <3>1, <3>2, StillOpenStep
  <2>5. ASSUME v \in Rows(vehicles') PROVE vehicles'[v].owner = desk[t].by
    BY <2>0, <2>1, <2>5, StepRows DEF RowsStay, HomesStand
  <2>6. StillOpen(desk[t].row)' = StillOpen(h)'
    BY <2>0, <2>1
  <2> QED BY <2>0, <2>1, <2>3, <2>4, <2>5, <2>6
<1> HIDE DEF Holds
<1> QED BY <1>1, <1>2, <1>3, ThreadStep

LEMMA OneOpenStep ==
    ASSUME GarageOK, ForeignKeys, HomesStand, OneOpen, [GarageNext]_garageVars
    PROVE  OneOpen'
<1> SUFFICES ASSUME NEW h \in Rows(homes'), <<"home", h>> \notin raced'
             PROVE  \A s, o \in StillOpen(h)' : s = o
  BY DEF OneOpen
<1>1. <<"home", h>> \notin raced
  BY HistoryGrows
<1>2. h # NoRow
  <2>1. homes' \in Seq(HomeRow)
    BY StepRows DEF TablesOK
  <2> QED BY <2>1 DEF Rows, NoRow
<1>3. CASE h \in DOMAIN homes
  <2>1. h \in Rows(homes) /\ \A s, o \in StillOpen(h) : s = o
    BY <1>1, <1>3, StepRows DEF RowsStay, OneOpen
  <2>2. ASSUME NEW t \in DeskThread, CommitStartHome(t), desk[t].row = h PROVE StillOpen(h) = {}
    BY <1>1, <2>1, <2>2, CommitsClose DEF HomesStand
  <2> QED BY <1>2, <2>1, <2>2, StillOpenStep
<1>4. CASE h \notin DOMAIN homes
  <2>1. StillOpen(h) = {}
    BY <1>2, <1>4 DEF ForeignKeys, StillOpen, OpenAt, Rows
  <2>2. ASSUME NEW t \in DeskThread, CommitStartHome(t), desk[t].row = h PROVE FALSE
    BY <1>4, <2>2 DEF CommitStartHome, Rows
  <2> QED BY <1>2, <2>1, <2>2, StillOpenStep
<1> QED BY <1>3, <1>4

LEMMA OwnersStep ==
    ASSUME GarageOK, ForeignKeys, HomesStand, OwnersCharge, [GarageNext]_garageVars
    PROVE  OwnersCharge'
<1> SUFFICES ASSUME NEW s \in Rows(sessions')
             PROVE  /\ vehicles'[sessions'[s].vehicle].owner = sessions'[s].user
                    /\ sessions'[s].home # NoRow => homes'[sessions'[s].home].owner = sessions'[s].user
  BY ForeignKeysStep DEF OwnersCharge, ForeignKeys, Owns
<1>0. /\ sessions'[s].vehicle \in Rows(vehicles')
      /\ sessions'[s].home # NoRow => sessions'[s].home \in Rows(homes')
  BY ForeignKeysStep DEF ForeignKeys
<1>1. ASSUME s \in Rows(sessions), sessions'[s].user = sessions[s].user,
             sessions'[s].vehicle = sessions[s].vehicle, sessions'[s].home = sessions[s].home
      PROVE  /\ vehicles'[sessions'[s].vehicle].owner = sessions'[s].user
             /\ sessions'[s].home # NoRow => homes'[sessions'[s].home].owner = sessions'[s].user
  <2>1. /\ sessions[s].vehicle \in Rows(vehicles) /\ vehicles[sessions[s].vehicle].owner = sessions[s].user
        /\ sessions[s].home # NoRow =>
              sessions[s].home \in Rows(homes) /\ homes[sessions[s].home].owner = sessions[s].user
    BY <1>1 DEF OwnersCharge, Owns
  <2> QED BY <1>0, <1>1, <2>1, StepRows DEF RowsStay, Rows
<1>2. ASSUME NEW t \in DeskThread, CommitStartHome(t),
             sessions'[s] = Session(desk[t].by, desk[t].vehicle, desk[t].row)
      PROVE  /\ vehicles'[sessions'[s].vehicle].owner = sessions'[s].user
             /\ sessions'[s].home # NoRow => homes'[sessions'[s].home].owner = sessions'[s].user
  <2>1. /\ sessions'[s].user = desk[t].by /\ sessions'[s].vehicle = desk[t].vehicle
        /\ sessions'[s].home = desk[t].row
    BY <1>2 DEF Session
  <2>2. desk[t].row \in Rows(homes) /\ desk[t].vehicle \in Rows(vehicles) /\ UNCHANGED <<homes, vehicles>>
    BY <1>2 DEF CommitStartHome
  <2>3. homes[desk[t].row].owner = desk[t].by /\ vehicles[desk[t].vehicle].owner = desk[t].by
    BY <1>2, <2>2, CommitsClose DEF HomesStand
  <2> QED BY <2>1, <2>2, <2>3
<1>3. ASSUME NEW u \in User, NEW v \in DOMAIN vehicles, StartAtStation(u, v),
             sessions'[s] = Session(u, v, NoRow)
      PROVE  /\ vehicles'[sessions'[s].vehicle].owner = sessions'[s].user
             /\ sessions'[s].home # NoRow => homes'[sessions'[s].home].owner = sessions'[s].user
  <2>1. sessions'[s].user = u /\ sessions'[s].vehicle = v /\ sessions'[s].home = NoRow
    BY <1>3 DEF Session
  <2>2. vehicles[v].owner = u /\ UNCHANGED vehicles
    BY <1>3 DEF StartAtStation, Owns
  <2> QED BY <2>1, <2>2
<1> QED BY <1>1, <1>2, <1>3, SessionKept

\* A home charger serves one session at a time, those a PATCH reopened aside, unless two
\* starts overlapped, of its owner and with the owner's vehicle, whatever is deleted meanwhile
\* (home_charging.py:50-74, sessions.py:121-128).
THEOREM OneSessionPerHomeTheorem ==
    ASSUME NEW garage \in Seq(Parked)
    PROVE  GarageSpec(garage) => []OneSessionPerHome
<1> DEFINE Inv == HomesStand /\ OneOpen /\ OwnersCharge
<1>1. GarageInit(garage) => Inv
  <2> SUFFICES ASSUME GarageInit(garage) PROVE Inv
    OBVIOUS
  <2>1. \A t \in DeskThread : desk[t].kind = "idle"
    BY IdleKind DEF GarageInit
  <2>2. Rows(homes) = {} /\ Rows(sessions) = {}
    BY DEF GarageInit, Rows
  <2> QED BY <2>1, <2>2 DEF HomesStand, OneOpen, OwnersCharge
<1>2. GarageOK /\ ForeignKeys /\ Inv /\ [GarageNext]_garageVars => Inv'
  BY HomesStep, OneOpenStep, OwnersStep
<1>3. Inv => OneSessionPerHome
  <2> SUFFICES ASSUME OneOpen, NEW h \in Rows(homes), <<"home", h>> \notin raced
               PROVE  Cardinality(StillOpen(h)) <= 1
    BY DEF OneSessionPerHome, OwnersCharge
  <2>0. \A s, o \in StillOpen(h) : s = o
    BY DEF OneOpen
  <2>1. StillOpen(h) = {} \/ \E s : StillOpen(h) = {s}
    BY <2>0
  <2>2. Cardinality(StillOpen(h)) \in {0, 1}
    BY <2>1, FS_Singleton, FS_EmptySet
  <2> QED BY <2>2
<1> QED BY <1>1, <1>2, <1>3, GarageTypes, GarageReferences, PTL DEF GarageSpec

\* What a session says of its payment changes when it is paid.
LEMMA PaidKept ==
    ASSUME GarageOK, [GarageNext]_garageVars, NEW s \in DOMAIN sessions, s \in Rows(sessions')
    PROVE  \/ sessions'[s].paid = sessions[s].paid
           \/ \E o \in DeskThread : CommitPay(o) /\ desk[o].row = s
<1>1. ASSUME NEW t \in DeskThread, CommitPay(t), desk[t].row # s
      PROVE  sessions'[s].paid = sessions[s].paid
  BY <1>1 DEF CommitPay
<1>2. ASSUME NEW t \in DeskThread, CommitStartHome(t) PROVE sessions'[s].paid = sessions[s].paid
  BY <1>2, HomeStarts
<1>3. ASSUME NEW t \in DeskThread, CommitSweep(t) PROVE sessions'[s].paid = sessions[s].paid
  BY <1>3, Sweeping DEF GarageOK
<1>4. ASSUME NEW u \in User, NEW v \in DOMAIN vehicles, StartAtStation(u, v)
      PROVE  sessions'[s].paid = sessions[s].paid
  BY <1>4, StationStarts
<1>5. ASSUME NEW i, SetsEnd(i) PROVE sessions'[s].paid = sessions[s].paid
  <2>1. PICK row : /\ i \in Rows(sessions) /\ row.paid = sessions[i].paid
                   /\ sessions' = [sessions EXCEPT ![i] = row]
    BY <1>5, Ends DEF GarageOK
  <2> QED BY <2>1
<1> QED BY <1>1, <1>2, <1>3, <1>4, <1>5, Writers DEF WritesSessions

LEMMA PaymentsStep ==
    ASSUME GarageOK, PaymentsStand, [GarageNext]_garageVars
    PROVE  PaymentsStand'
<1> SUFFICES ASSUME NEW t \in DeskThread, desk'[t].kind = "pay", desk'[t].row \in Rows(sessions'),
                    <<"payment", desk'[t].row>> \notin raced'
             PROVE  sessions'[desk'[t].row].paid = Unpaid
  BY DEF PaymentsStand
<1>1. CASE desk'[t] = Idle
  BY <1>1, IdleKind
<1>2. ASSUME NEW q, Begun(t, q) PROVE sessions'[desk'[t].row].paid = Unpaid
  BY <1>2 DEF Begun, Knows, IsUnpaid, TablesAsTheyWere, ownedRows
<1>3. CASE Waits(t)
  <2> DEFINE s == desk[t].row
  <2>1. /\ desk'[t] = desk[t] /\ desk[t].kind = "pay"
        /\ s \in DOMAIN sessions /\ <<"payment", s>> \in desk[t].keys
    BY <1>3 DEF Waits, GarageOK, DeskOK, Sound
  <2>2. s \in Rows(sessions) /\ <<"payment", s>> \notin raced
    BY <2>1, StepRows, HistoryGrows DEF RowsStay
  <2>3. sessions[s].paid = Unpaid
    BY <2>1, <2>2 DEF PaymentsStand
  <2>4. ASSUME NEW o \in DeskThread, CommitPay(o), desk[o].row = s PROVE FALSE
    <3>1. o # t /\ <<"payment", s>> \in desk[o].keys
      BY <1>3, <2>4, CommitsClose DEF Waits, GarageOK, DeskOK, Sound
    <3> QED BY <3>1, <2>1, <2>2, Raced
  <2>5. sessions'[s].paid = sessions[s].paid
    BY <2>1, <2>4, PaidKept
  <2> QED BY <2>1, <2>3, <2>5
<1> QED BY <1>1, <1>2, <1>3, ThreadStep

\* A payment once recorded stays as it was until its session is erased, unless two payments
\* of the session overlapped (payments.py:50-64).
THEOREM PaymentsStickTheorem ==
    ASSUME NEW garage \in Seq(Parked)
    PROVE  GarageSpec(garage) => PaymentsStick
<1>1. GarageInit(garage) => PaymentsStand
  <2> SUFFICES ASSUME GarageInit(garage) PROVE PaymentsStand
    OBVIOUS
  <2>1. \A t \in DeskThread : desk[t].kind = "idle"
    BY IdleKind DEF GarageInit
  <2> QED BY <2>1 DEF PaymentsStand
<1>2. GarageOK /\ PaymentsStand /\ [GarageNext]_garageVars => PaymentsStand'
  BY PaymentsStep
<1>3. GarageOK /\ PaymentsStand /\ [GarageNext]_garageVars
      => [\A s \in Rows(sessions) :
             sessions[s].paid # Unpaid /\ s \in Rows(sessions') /\ <<"payment", s>> \notin raced
             => sessions'[s].paid = sessions[s].paid]_garageVars
  <2> SUFFICES ASSUME GarageOK, PaymentsStand, [GarageNext]_garageVars, NEW s \in Rows(sessions),
                      sessions[s].paid # Unpaid, s \in Rows(sessions'), <<"payment", s>> \notin raced
               PROVE  sessions'[s].paid = sessions[s].paid
    OBVIOUS
  <2>1. s \in DOMAIN sessions
    BY DEF Rows
  <2>2. ASSUME NEW o \in DeskThread, CommitPay(o), desk[o].row = s PROVE FALSE
    BY <2>2, CommitsClose DEF PaymentsStand
  <2> QED BY <2>1, <2>2, PaidKept
<1> QED BY <1>1, <1>2, <1>3, GarageTypes, PTL DEF GarageSpec, PaymentsStick

-----------------------------------------------------------------------------
(***************************************************************************)
(* Erasure                                                                 *)
(***************************************************************************)

LEMMA SweepsStep ==
    ASSUME GarageOK, SweepsStand, [GarageNext]_garageVars
    PROVE  SweepsStand'
<1> DEFINE Holds(q) ==
        /\ \A u \in q.expired \cap DOMAIN accounts' : accounts'[u].expired
        /\ \A v \in q.vehicles \cap Rows(vehicles') : vehicles'[v].owner \in q.expired
        /\ \A s \in q.sessions \cap Rows(sessions') : sessions'[s].user \in q.expired
<1> SUFFICES ASSUME NEW t \in DeskThread, desk'[t].kind = "sweep" PROVE Holds(desk'[t])
  BY DEF SweepsStand
<1>1. CASE desk'[t] = Idle
  BY <1>1, IdleKind
<1>2. ASSUME NEW q, Begun(t, q) PROVE Holds(desk'[t])
  <2>1. desk'[t] = q /\ Knows(q) /\ UNCHANGED <<accounts, vehicles, sessions>>
    BY <1>2 DEF Begun, TablesAsTheyWere, ownedRows
  <2>2. /\ q.expired = {u \in DOMAIN accounts : accounts[u].expired}
        /\ q.vehicles = {v \in Rows(vehicles) : vehicles[v].owner \in q.expired}
        /\ q.sessions = {s \in Rows(sessions) : sessions[s].user \in q.expired}
    BY <2>1 DEF Knows, ExpiredUsers
  <2> QED BY <2>1, <2>2
<1>3. CASE Waits(t)
  <2>0. PICK q : q = desk[t]
    OBVIOUS
  <2>1. desk'[t] = q /\ q.vehicles \subseteq DOMAIN vehicles /\ q.sessions \subseteq DOMAIN sessions
    BY <1>3, <2>0 DEF Waits, GarageOK, DeskOK, Sound
  <2>2. /\ \A u \in q.expired \cap DOMAIN accounts : accounts[u].expired
        /\ \A v \in q.vehicles \cap Rows(vehicles) : vehicles[v].owner \in q.expired
        /\ \A s \in q.sessions \cap Rows(sessions) : sessions[s].user \in q.expired
    BY <2>0, <2>1 DEF SweepsStand
  <2>3. \A u \in DOMAIN accounts' : u \in DOMAIN accounts /\ (accounts[u].expired => accounts'[u].expired)
    <3> DEFINE Goal == \A u \in DOMAIN accounts' :
                          u \in DOMAIN accounts /\ (accounts[u].expired => accounts'[u].expired)
    <3>0. accounts \in [DOMAIN accounts -> AccountRow]
      BY DEF GarageOK, TablesOK
    <3>1. ASSUME NEW o \in DeskThread, CommitReviewAdmin(o) PROVE Goal
      BY <3>0, <3>1 DEF CommitReviewAdmin, AccountRow
    <3>2. ASSUME NEW o \in DeskThread, CommitSweep(o) PROVE Goal
      BY <3>2, Sweeping DEF GarageOK
    <3>3. ASSUME NEW x \in User, Expire(x) PROVE Goal
      BY <3>0, <3>3 DEF Expire, AccountRow
    <3> QED BY <3>1, <3>2, <3>3, Writers DEF WritesAccounts
  <2>4. \A v \in q.vehicles \cap Rows(vehicles') : vehicles'[v].owner \in q.expired
    BY <2>1, <2>2, StepRows DEF RowsStay
  <2>5. \A s \in q.sessions \cap Rows(sessions') : sessions'[s].user \in q.expired
    BY <2>1, <2>2, StepRows DEF RowsStay
  <2> QED BY <2>1, <2>2, <2>3, <2>4, <2>5
<1> HIDE DEF Holds
<1> QED BY <1>1, <1>2, <1>3, ThreadStep

\* What ErasureIsExact says of a step.
Exact ==
    LET erased == DOMAIN accounts \ DOMAIN accounts'
    IN  /\ \A u \in erased : accounts[u].expired
        /\ \A v \in Rows(vehicles) \ Rows(vehicles)' :
              vehicles[v].owner \in erased \/ \E r \in DOMAIN vehicleReqs : <<v, r>> \in removed'
        /\ \A s \in Rows(sessions) \ Rows(sessions)' : sessions[s].user \in erased
        /\ erased # {} =>
             /\ \A v \in Rows(vehicles)' : vehicles'[v].owner \notin erased
             /\ \A s \in Rows(sessions)' : sessions'[s].user \notin erased
             /\ \A h \in Rows(homes)' : homes'[h].owner \notin erased
             /\ \A r \in DOMAIN vehicleReqs' : vehicleReqs'[r].user \notin erased

LEMMA ErasureStep ==
    ASSUME GarageOK, ForeignKeys, SweepsStand, [GarageNext]_garageVars
    PROVE  Exact
<1> DEFINE erased == DOMAIN accounts \ DOMAIN accounts'
<1>1. ASSUME NEW t \in DeskThread, CommitSweep(t) PROVE Exact
  <2> DEFINE gone == desk[t].expired
  <2>1. /\ \A u \in gone \cap DOMAIN accounts : accounts[u].expired
        /\ \A v \in desk[t].vehicles \cap Rows(vehicles) : vehicles[v].owner \in gone
        /\ \A s \in desk[t].sessions \cap Rows(sessions) : sessions[s].user \in gone
    BY <1>1, CommitsClose DEF SweepsStand
  <2>2. /\ Rows(vehicles') = Rows(vehicles) \ desk[t].vehicles
        /\ Rows(sessions') = Rows(sessions) \ desk[t].sessions
        /\ DOMAIN accounts' = DOMAIN accounts \ gone
    BY <1>1, Sweeping DEF GarageOK
  <2>3. erased = gone \cap DOMAIN accounts
    BY <2>2
  <2>4. UNCHANGED homes /\ \A h \in Rows(homes) : homes[h].owner \notin gone
    BY <1>1 DEF CommitSweep, Erasable
  <2>5. /\ \A v \in Rows(vehicles') : vehicles'[v].owner \notin erased
        /\ \A s \in Rows(sessions') : sessions'[s].user \notin erased
        /\ \A r \in DOMAIN vehicleReqs' : vehicleReqs'[r].user \notin erased
    BY ForeignKeysStep DEF ForeignKeys
  <2>6. /\ \A v \in Rows(vehicles) : vehicles[v].owner \in DOMAIN accounts
        /\ \A s \in Rows(sessions) : sessions[s].user \in DOMAIN accounts
    BY DEF ForeignKeys
  <2> QED BY <2>1, <2>2, <2>3, <2>4, <2>5, <2>6 DEF Exact
<1>2. ASSUME ~\E t \in DeskThread : CommitSweep(t) PROVE Exact
  <2>1. DOMAIN accounts' = DOMAIN accounts
    BY <1>2, Writers DEF WritesAccounts, CommitReviewAdmin, Expire
  <2>2. ASSUME NEW v \in Rows(vehicles) \ Rows(vehicles')
        PROVE  \E r \in DOMAIN vehicleReqs : <<v, r>> \in removed'
    <3>1. PICK t \in DeskThread : CommitDelete(t)
      <4>1. CASE ~\E t \in DeskThread : CommitDelete(t) \/ CommitDeleteHome(t) \/ CommitSweep(t)
        BY <2>2, <4>1, ReferentsKept DEF ReferentsStay
      <4>2. ASSUME NEW t \in DeskThread, CommitDeleteHome(t) PROVE FALSE
        BY <2>2, <4>2 DEF CommitDeleteHome
      <4> QED BY <1>2, <4>1, <4>2
    <3>2. v = desk[t].vehicle /\ <<v, desk[t].row>> \in removed'
      BY <2>2, <3>1 DEF CommitDelete, Detached, Rows
    <3> QED BY <3>1, <3>2, Reviewing
  <2>3. Rows(sessions) \subseteq Rows(sessions')
    <3>1. ASSUME NEW t \in DeskThread, CommitStartHome(t) PROVE Rows(sessions) \subseteq Rows(sessions')
      BY <3>1, HomeStarts
    <3>2. ASSUME NEW u \in User, NEW v \in DOMAIN vehicles, StartAtStation(u, v)
          PROVE  Rows(sessions) \subseteq Rows(sessions')
      BY <3>2, StationStarts
    <3>3. ASSUME NEW t \in DeskThread, CommitPay(t) PROVE Rows(sessions) \subseteq Rows(sessions')
      BY <3>3, Pays, SessionRows DEF GarageOK
    <3>4. ASSUME NEW s, SetsEnd(s) PROVE Rows(sessions) \subseteq Rows(sessions')
      BY <3>4, Ends, SessionRows DEF GarageOK
    <3> QED BY <1>2, <3>1, <3>2, <3>3, <3>4, Writers DEF WritesSessions
  <2> QED BY <2>1, <2>2, <2>3 DEF Exact
<1> QED BY <1>1, <1>2

\* Only expired accounts are erased, with all they own; nobody else loses a vehicle but by
\* an approved request, nor a session; and no row is left that names an erased account
\* (retention_job.py:20-52, admin.py:139-145).
THEOREM ErasureIsExactTheorem ==
    ASSUME NEW garage \in Seq(Parked)
    PROVE  GarageSpec(garage) => ErasureIsExact
<1>1. GarageInit(garage) => SweepsStand
  <2> SUFFICES ASSUME GarageInit(garage) PROVE SweepsStand
    OBVIOUS
  <2>1. \A t \in DeskThread : desk[t].kind = "idle"
    BY IdleKind DEF GarageInit
  <2> QED BY <2>1 DEF SweepsStand
<1>2. GarageOK /\ SweepsStand /\ [GarageNext]_garageVars => SweepsStand'
  BY SweepsStep
<1>3. GarageOK /\ ForeignKeys /\ SweepsStand /\ [GarageNext]_garageVars => [Exact]_garageVars
  BY ErasureStep
<1>4. [][Exact]_garageVars => ErasureIsExact
  BY DEF Exact, ErasureIsExact
<1> QED BY <1>1, <1>2, <1>3, <1>4, GarageTypes, GarageReferences, PTL DEF GarageSpec

=============================================================================
