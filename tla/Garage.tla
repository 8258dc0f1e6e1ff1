-------------------------------- MODULE Garage --------------------------------
(***************************************************************************)
(* What an account owns and what an admin decides: admin requests, vehicle *)
(* requests and the provisioning they claim (routers/admin.py,             *)
(* vehicles.py), pairing (vehicle_link.py), home chargers and payments     *)
(* (home_charging.py, payments.py), and the erasure of expired accounts    *)
(* (services/retention_job.py).                                            *)
(* A request runs in a thread: it looks, keeping what it read, and later   *)
(* commits; the database refuses a commit that would break a foreign key,  *)
(* and then nothing of it happens.  Rows are numbered as they are created. *)
(***************************************************************************)
EXTENDS Integers, Sequences, FiniteSets

CONSTANTS
    User,
    Seeded,         \* the admins of the seed script
    Unit,           \* MeridianGrid IDs
    Method,         \* PAYMENT_METHODS
    DeskThread,
    MaxRequests,    \* bound: rows of admin_requests, and of vehicle_requests
    MaxVehicles,    \* bound: rows of vehicles
    MaxHomes,       \* bound: rows of home_chargers
    MaxSessions,    \* bound: rows of sessions
    MaxDisplays,    \* bound: pairing codes shown
    MaxEdits        \* bound: console edits of requests

ASSUME GarageAssumption ==
    /\ Seeded \subseteq User
    /\ {MaxRequests, MaxVehicles, MaxHomes, MaxSessions, MaxDisplays, MaxEdits} \subseteq Nat

VARIABLES
    accounts,       \* rows of users, by user
    adminReqs,      \* rows of admin_requests
    vehicleReqs,    \* rows of vehicle_requests
    claimed,        \* the units whose is_claimed is set
    vehicles, homes, sessions,      \* rows, or Gone
    desk,           \* each thread's request and what it read
    shown,          \* the last pairing code displayed
    raced,          \* history: what two requests have worked on at once
    made,           \* history: the request each vehicle was made for
    removed,        \* history: vehicles deleted, with the request that asked
    granted,        \* history: admin requests whose approval was committed
    edited,         \* history: console edits of requests, with the admin (admin_audit_log)
    swept           \* history: how the last sweep ended

garageVars == <<accounts, adminReqs, vehicleReqs, claimed, vehicles, homes, sessions, desk, shown,
                raced, made, removed, granted, edited, swept>>
histories == <<made, removed, granted, edited, swept>>
requestRows == <<adminReqs, vehicleReqs, claimed>>
ownedRows == <<vehicles, homes, sessions>>

Nobody == "nobody"
NoRow == 0
Gone == [owner |-> Nobody]
Unpaid == "unpaid"
Idle == [kind |-> "idle", keys |-> {}]

\* A vehicle starts unpaired; proven is history: the code last confirmed.
Vehicle(owner) == [owner |-> owner, paired |-> FALSE, code |-> 0, proven |-> 0]

\* The rows of a table that are still there.
Rows(table) == {i \in DOMAIN table : table[i] # Gone}
IsAdmin(u) == u \in DOMAIN accounts /\ accounts[u].persona = "city_admin"
Owns(u, v) == v \in Rows(vehicles) /\ vehicles[v].owner = u
OpenAt(h) == {s \in Rows(sessions) : sessions[s].home = h /\ sessions[s].open}

GarageInit(garage) ==
    /\ accounts = [u \in User |-> [persona |-> IF u \in Seeded THEN "city_admin" ELSE "driver",
                                   expired |-> FALSE]]
    /\ adminReqs = <<>> /\ vehicleReqs = <<>> /\ claimed = {}
    /\ vehicles = garage /\ homes = <<>> /\ sessions = <<>>
    /\ desk = [t \in DeskThread |-> Idle]
    /\ shown = 0
    /\ raced = {}
    /\ made = [v \in DOMAIN garage |-> NoRow]
    /\ removed = {} /\ granted = {} /\ edited = {} /\ swept = "never"

\* A request by someone who is there, or that asks for nobody, working on the rows its keys name.
Look(t, request) ==
    /\ desk[t] = Idle
    /\ request.by \in DOMAIN accounts \cup {Nobody}
    /\ desk' = [desk EXCEPT ![t] = request]
    /\ raced' = raced \cup (request.keys \cap UNION {desk[o].keys : o \in DeskThread})
    /\ UNCHANGED <<accounts, requestRows, ownedRows, shown, histories>>

Working(t, kind) == desk[t].kind = kind
Close(t) == desk' = [desk EXCEPT ![t] = Idle] /\ UNCHANGED raced

\* A commit that would break a foreign key or update a row that is gone is a 500, and a
\* process may die before its commit: nothing of the request happens.
Abandon(t) ==
    /\ desk[t] # Idle
    /\ Close(t)
    /\ UNCHANGED <<accounts, requestRows, ownedRows, shown, histories>>

\* The endpoints that only list or look up.
Read(u) == u \in DOMAIN accounts /\ UNCHANGED garageVars

-----------------------------------------------------------------------------
\* Admin requests.

RequestAdmin(t, u) ==
    /\ ~IsAdmin(u)
    /\ \A r \in DOMAIN adminReqs : adminReqs[r].user = u => adminReqs[r].status # "pending"
    /\ Look(t, [kind |-> "request admin", by |-> u, keys |-> {}])

CommitRequestAdmin(t) ==
    /\ Working(t, "request admin") /\ Len(adminReqs) < MaxRequests
    /\ desk[t].by \in DOMAIN accounts
    /\ adminReqs' = Append(adminReqs,
                           [user |-> desk[t].by, status |-> "pending", reviewer |-> Nobody])
    /\ Close(t)
    /\ UNCHANGED <<accounts, vehicleReqs, claimed, ownedRows, shown, histories>>

\* A wrong IsPending: any request may be decided again.
IsThere(requests, r) == r \in DOMAIN requests
\* _get_pending_request and _get_pending_vehicle_request.
IsPending(requests, r) == requests[r].status = "pending"

ReviewAdmin(t, a, r, verdict) ==
    /\ IsAdmin(a)
    /\ IsPending(adminReqs, r)
    /\ Look(t, [kind |-> "review admin", by |-> a, keys |-> {<<"admin", r>>},
                row |-> r, verdict |-> verdict])

\* The requests reference their users, so a request's user is still there.
CommitReviewAdmin(t) ==
    LET r == desk[t].row
        approves == desk[t].verdict = "approved"
    IN  /\ Working(t, "review admin")
        /\ desk[t].by \in DOMAIN accounts
        /\ accounts' = IF approves
                       THEN [accounts EXCEPT ![adminReqs[r].user].persona = "city_admin"]
                       ELSE accounts
        /\ adminReqs' = [adminReqs EXCEPT ![r].status = desk[t].verdict, ![r].reviewer = desk[t].by]
        /\ granted' = IF approves THEN granted \cup {r} ELSE granted
        /\ Close(t)
        /\ UNCHANGED <<vehicleReqs, claimed, ownedRows, shown, made, removed, edited, swept>>

-----------------------------------------------------------------------------
\* Vehicle requests, and the provisioning rows they claim.

RequestAdd(t, u, n) ==
    /\ n \notin claimed
    /\ ~\E r \in DOMAIN vehicleReqs :
            /\ vehicleReqs[r].type = "add" /\ vehicleReqs[r].unit = n
            /\ vehicleReqs[r].status = "pending"
    /\ Look(t, [kind |-> "request vehicle", by |-> u, keys |-> {},
                asked |-> [type |-> "add", user |-> u, unit |-> n, vehicle |-> NoRow]])

RequestDelete(t, u, v) ==
    /\ Owns(u, v)
    /\ ~\E r \in DOMAIN vehicleReqs :
            vehicleReqs[r].vehicle = v /\ vehicleReqs[r].status = "pending"
    /\ Look(t, [kind |-> "request vehicle", by |-> u, keys |-> {},
                asked |-> [type |-> "delete", user |-> u, unit |-> Nobody, vehicle |-> v]])

CommitRequestVehicle(t) ==
    LET asked == desk[t].asked
    IN  /\ Working(t, "request vehicle") /\ Len(vehicleReqs) < MaxRequests
        /\ asked.user \in DOMAIN accounts
        /\ asked.type = "delete" => asked.vehicle \in Rows(vehicles)
        /\ vehicleReqs' = Append(vehicleReqs,
                [type |-> asked.type, user |-> asked.user, unit |-> asked.unit,
                 vehicle |-> asked.vehicle, status |-> "pending", reviewer |-> Nobody])
        /\ Close(t)
        /\ UNCHANGED <<accounts, adminReqs, claimed, ownedRows, shown, histories>>

\* A wrong Claimable: nobody looks whether the unit is claimed.
ClaimableAlways(r) == r \in DOMAIN vehicleReqs
\* What approving an "add" checks: its provisioning is not claimed.
Claimable(r) == vehicleReqs[r].type = "add" => vehicleReqs[r].unit \notin claimed

ReviewVehicle(t, a, r, verdict) ==
    /\ IsAdmin(a)
    /\ IsPending(vehicleReqs, r)
    /\ verdict = "approved" => Claimable(r)
    /\ Look(t, [kind |-> "review vehicle", by |-> a, row |-> r, verdict |-> verdict,
                keys |-> {<<"vehicle request", r>>, <<"unit", vehicleReqs[r].unit>>},
                vehicle |-> vehicleReqs[r].vehicle])

Reviewed(t) == [vehicleReqs EXCEPT ![desk[t].row].status = desk[t].verdict,
                                   ![desk[t].row].reviewer = desk[t].by]

CommitReject(t) ==
    /\ Working(t, "review vehicle") /\ desk[t].verdict = "rejected"
    /\ desk[t].by \in DOMAIN accounts
    /\ vehicleReqs' = Reviewed(t)
    /\ Close(t)
    /\ UNCHANGED <<accounts, adminReqs, claimed, ownedRows, shown, histories>>

CommitAdd(t) ==
    LET request == vehicleReqs[desk[t].row]
    IN  /\ Working(t, "review vehicle") /\ desk[t].verdict = "approved"
        /\ request.type = "add" /\ Len(vehicles) < MaxVehicles
        /\ desk[t].by \in DOMAIN accounts
        /\ claimed' = claimed \cup {request.unit}
        /\ vehicles' = Append(vehicles, Vehicle(request.user))
        /\ vehicleReqs' = Reviewed(t)
        /\ made' = Append(made, desk[t].row)
        /\ Close(t)
        /\ UNCHANGED <<accounts, adminReqs, homes, sessions, shown, removed, granted, edited, swept>>

\* A request with a vehicle takes the vehicle with it, unless sessions or other requests
\* still reference it; one whose vehicle was gone when it was read is just approved.
Deletable(t, v) ==
    /\ v \in Rows(vehicles)
    /\ \A s \in Rows(sessions) : sessions[s].vehicle # v
    /\ \A r \in DOMAIN vehicleReqs : r # desk[t].row => vehicleReqs[r].vehicle # v

Detached(t, v) ==
    /\ vehicleReqs' = [Reviewed(t) EXCEPT ![desk[t].row].vehicle = NoRow]
    /\ vehicles' = IF v \in Rows(vehicles) THEN [vehicles EXCEPT ![v] = Gone] ELSE vehicles
    /\ removed' = IF v \in Rows(vehicles) THEN removed \cup {<<v, desk[t].row>>} ELSE removed

CommitDelete(t) ==
    LET v == desk[t].vehicle
    IN  /\ Working(t, "review vehicle") /\ desk[t].verdict = "approved"
        /\ vehicleReqs[desk[t].row].type = "delete"
        /\ desk[t].by \in DOMAIN accounts
        /\ v \in Rows(vehicles) => Deletable(t, v)
        /\ Detached(t, v)
        /\ Close(t)
        /\ UNCHANGED <<accounts, adminReqs, claimed, homes, sessions, shown, made, granted, edited,
                       swept>>

\* The database console writes a status of its own, whatever the row had
\* (admin_database.py, EDITABLE_FIELDS_BY_TABLE).
ConsoleEdits(a, table, r, status) ==
    /\ IsAdmin(a) /\ Cardinality(edited) < MaxEdits
    /\ \/ /\ table = "admin" /\ r \in DOMAIN adminReqs
          /\ adminReqs' = [adminReqs EXCEPT ![r].status = status]
          /\ UNCHANGED vehicleReqs
       \/ /\ table = "vehicle request" /\ r \in DOMAIN vehicleReqs
          /\ vehicleReqs' = [vehicleReqs EXCEPT ![r].status = status]
          /\ UNCHANGED adminReqs
    /\ edited' = edited \cup {<<table, r, a>>}
    /\ UNCHANGED <<accounts, claimed, ownedRows, shown, desk, raced, made, removed, granted, swept>>

-----------------------------------------------------------------------------
\* Pairing: a code is displayed in the car, and confirmed in the app.  An UPDATE names the
\* columns whose value differs from what the request loaded.

Pair(t, u, v) ==
    /\ Owns(u, v)
    /\ Look(t, [kind |-> "pair", by |-> u, keys |-> {<<"pairing", v>>}, row |-> v,
                wasPaired |-> vehicles[v].paired])

\* A wrong Displayed: the vehicle stays paired while a new code waits.
DisplayedOnly(v, wasPaired) == vehicles' = [vehicles EXCEPT ![v].code = shown']
Displayed(v, wasPaired) ==
    vehicles' = [vehicles EXCEPT ![v].code = shown',
                                 ![v].paired = IF wasPaired THEN FALSE ELSE @]

CommitPair(t) ==
    /\ Working(t, "pair") /\ shown < MaxDisplays
    /\ desk[t].row \in Rows(vehicles)
    /\ shown' = shown + 1
    /\ Displayed(desk[t].row, desk[t].wasPaired)
    /\ Close(t)
    /\ UNCHANGED <<accounts, requestRows, homes, sessions, histories>>

Confirm(t, u, v, code) ==
    /\ Owns(u, v)
    /\ vehicles[v].code # 0 /\ code = vehicles[v].code
    /\ Look(t, [kind |-> "confirm", by |-> u, keys |-> {<<"pairing", v>>}, row |-> v, code |-> code,
                wasPaired |-> vehicles[v].paired])

\* Nothing is updated, and no missing row noticed, where the vehicle was paired already.
CommitConfirm(t) ==
    LET v == desk[t].row
    IN  /\ Working(t, "confirm")
        /\ desk[t].wasPaired \/ v \in Rows(vehicles)
        /\ vehicles' = IF desk[t].wasPaired THEN vehicles
                       ELSE [vehicles EXCEPT ![v].paired = TRUE, ![v].proven = desk[t].code]
        /\ Close(t)
        /\ UNCHANGED <<accounts, requestRows, homes, sessions, shown, histories>>

-----------------------------------------------------------------------------
\* Home chargers, their sessions and payments.

RegisterHome(t, u) == Look(t, [kind |-> "register home", by |-> u, keys |-> {}])

CommitRegisterHome(t) ==
    /\ Working(t, "register home") /\ Len(homes) < MaxHomes
    /\ desk[t].by \in DOMAIN accounts
    /\ homes' = Append(homes, [owner |-> desk[t].by])
    /\ Close(t)
    /\ UNCHANGED <<accounts, requestRows, vehicles, sessions, shown, histories>>

DeleteHome(t, u, h) ==
    /\ h \in Rows(homes) /\ homes[h].owner = u
    /\ Look(t, [kind |-> "delete home", by |-> u, keys |-> {}, row |-> h])

\* No session, open or ended, may reference the charger.
CommitDeleteHome(t) ==
    LET h == desk[t].row
    IN  /\ Working(t, "delete home")
        /\ \A s \in Rows(sessions) : sessions[s].home # h
        /\ homes' = [homes EXCEPT ![h] = Gone]
        /\ Close(t)
        /\ UNCHANGED <<accounts, requestRows, vehicles, sessions, shown, histories>>

\* A wrong IsFreeHome: a session in progress is not looked for.
IsAnyHome(h) == h \in Rows(homes)
IsFreeHome(h) == h \in Rows(homes) /\ OpenAt(h) = {}

StartHome(t, u, h, v) ==
    /\ IsFreeHome(h) /\ homes[h].owner = u
    /\ Owns(u, v)
    /\ Look(t, [kind |-> "start home", by |-> u, keys |-> {<<"home", h>>}, row |-> h, vehicle |-> v])

\* A session starts open and unlogged; reopened is history: an ended one lost its end_time.
Session(u, v, h) ==
    [user |-> u, vehicle |-> v, home |-> h, open |-> TRUE, paid |-> Unpaid,
     logged |-> FALSE, reopened |-> FALSE]

CommitStartHome(t) ==
    /\ Working(t, "start home") /\ Len(sessions) < MaxSessions
    /\ desk[t].by \in DOMAIN accounts
    /\ desk[t].row \in Rows(homes) /\ desk[t].vehicle \in Rows(vehicles)
    /\ sessions' = Append(sessions, Session(desk[t].by, desk[t].vehicle, desk[t].row))
    /\ Close(t)
    /\ UNCHANGED <<accounts, requestRows, vehicles, homes, shown, histories>>

\* sessions.py (PortBooking) opens a session at a port or at none, and completes any session
\* of the caller's, ended or not.  A completion leaves a row in charging_behavior_log, except
\* where the session was at no home and at no port of a station with a zone.
StartAtStation(u, v) ==
    /\ Owns(u, v) /\ Len(sessions) < MaxSessions
    /\ sessions' = Append(sessions, Session(u, v, NoRow))
    /\ UNCHANGED <<accounts, requestRows, vehicles, homes, desk, shown, raced, histories>>

Complete(s, zoned) ==
    /\ s \in Rows(sessions)
    /\ sessions[s].home # NoRow => zoned
    /\ sessions' = [sessions EXCEPT ![s].open = FALSE, ![s].logged = @ \/ zoned]
    /\ UNCHANGED <<accounts, requestRows, vehicles, homes, desk, shown, raced, histories>>

\* PATCH /sessions/{id} {end_time}, a time or null, whatever else is open at the charger.
UpdateEndTime(s, open) ==
    /\ s \in Rows(sessions)
    /\ sessions' = [sessions EXCEPT ![s].open = open,
                                    ![s].reopened = @ \/ (open /\ ~sessions[s].open)]
    /\ UNCHANGED <<accounts, requestRows, vehicles, homes, desk, shown, raced, histories>>

\* A wrong IsUnpaid: a paid session may be paid again.
IsPayable(s) == s \in Rows(sessions)
IsUnpaid(s) == s \in Rows(sessions) /\ sessions[s].paid = Unpaid

Pay(t, u, s, method) ==
    /\ IsUnpaid(s) /\ sessions[s].user = u
    /\ Look(t, [kind |-> "pay", by |-> u, keys |-> {<<"payment", s>>}, row |-> s, method |-> method])

CommitPay(t) ==
    /\ Working(t, "pay") /\ desk[t].row \in Rows(sessions)
    /\ sessions' = [sessions EXCEPT ![desk[t].row].paid = desk[t].method]
    /\ Close(t)
    /\ UNCHANGED <<accounts, requestRows, vehicles, homes, shown, histories>>

-----------------------------------------------------------------------------
\* run_retention_sweep: the expired accounts with their vehicles and sessions are read,
\* and deleted in one transaction, all of them or none.

\* The consent of an account runs out; the date is given when its row is made, and the
\* seed script gives none.
Expire(u) ==
    /\ u \in DOMAIN accounts \ Seeded /\ ~accounts[u].expired
    /\ accounts' = [accounts EXCEPT ![u].expired = TRUE]
    /\ UNCHANGED <<requestRows, ownedRows, desk, shown, raced, histories>>

\* A wrong ExpiredUsers: an account without an expiry date is taken as expired.
OrdinaryUsers == {u \in DOMAIN accounts : ~IsAdmin(u)}
ExpiredUsers == {u \in DOMAIN accounts : accounts[u].expired}

Sweep(t) ==
    Look(t, [kind |-> "sweep", by |-> Nobody, keys |-> {}, expired |-> ExpiredUsers,
             vehicles |-> {v \in Rows(vehicles) : vehicles[v].owner \in ExpiredUsers},
             sessions |-> {s \in Rows(sessions) : sessions[s].user \in ExpiredUsers}])

\* What still references the rows to be deleted: the log of a completed session, sessions
\* and requests on a vehicle, and whatever else names a user, the admin who decided a
\* request or edited one included.
Erasable(users, cars, charges) ==
    LET kept == Rows(sessions) \ charges
    IN  /\ \A s \in charges \cap Rows(sessions) : ~sessions[s].logged
        /\ \A s \in kept : sessions[s].vehicle \notin cars /\ sessions[s].user \notin users
        /\ \A r \in DOMAIN vehicleReqs :
              /\ vehicleReqs[r].vehicle \notin cars
              /\ {vehicleReqs[r].user, vehicleReqs[r].reviewer} \cap users = {}
        /\ \A r \in DOMAIN adminReqs : {adminReqs[r].user, adminReqs[r].reviewer} \cap users = {}
        /\ \A v \in Rows(vehicles) \ cars : vehicles[v].owner \notin users
        /\ \A h \in Rows(homes) : homes[h].owner \notin users
        /\ \A e \in edited : e[3] \notin users

Erased(table, rows) == [i \in DOMAIN table |-> IF i \in rows THEN Gone ELSE table[i]]

CommitSweep(t) ==
    LET expired == desk[t].expired
    IN  /\ Working(t, "sweep")
        /\ Erasable(expired, desk[t].vehicles, desk[t].sessions)
        /\ accounts' = [u \in DOMAIN accounts \ expired |-> accounts[u]]
        /\ vehicles' = Erased(vehicles, desk[t].vehicles)
        /\ sessions' = Erased(sessions, desk[t].sessions)
        /\ swept' = "done"
        /\ Close(t)
        /\ UNCHANGED <<requestRows, homes, shown, made, removed, granted, edited>>

FailSweep(t) ==
    /\ Working(t, "sweep")
    /\ ~Erasable(desk[t].expired, desk[t].vehicles, desk[t].sessions)
    /\ swept' = "failed"
    /\ Close(t)
    /\ UNCHANGED <<accounts, requestRows, ownedRows, shown, made, removed, granted, edited>>

Requests(t, u) ==
    \/ RequestAdmin(t, u) \/ RegisterHome(t, u)
    \/ \E n \in Unit : RequestAdd(t, u, n)
    \/ \E v \in DOMAIN vehicles : \/ RequestDelete(t, u, v) \/ Pair(t, u, v)
                                  \/ \E code \in 1..shown : Confirm(t, u, v, code)
                                  \/ \E h \in DOMAIN homes : StartHome(t, u, h, v)
    \/ \E h \in DOMAIN homes : DeleteHome(t, u, h)
    \/ \E s \in DOMAIN sessions, method \in Method : Pay(t, u, s, method)
    \/ \E verdict \in {"approved", "rejected"} :
          \/ \E r \in DOMAIN adminReqs : ReviewAdmin(t, u, r, verdict)
          \/ \E r \in DOMAIN vehicleReqs : ReviewVehicle(t, u, r, verdict)

Commits(t) ==
    \/ CommitRequestAdmin(t) \/ CommitReviewAdmin(t) \/ CommitRequestVehicle(t)
    \/ CommitReject(t) \/ CommitAdd(t) \/ CommitDelete(t) \/ CommitPair(t) \/ CommitConfirm(t)
    \/ CommitRegisterHome(t) \/ CommitDeleteHome(t) \/ CommitStartHome(t) \/ CommitPay(t)
    \/ CommitSweep(t) \/ FailSweep(t) \/ Abandon(t)

Outside ==
    \/ \E a \in User, r \in 1..MaxRequests, table \in {"admin", "vehicle request"},
          status \in {"pending", "approved", "rejected"} : ConsoleEdits(a, table, r, status)
    \/ \E u \in User : Expire(u) \/ \E v \in DOMAIN vehicles : StartAtStation(u, v)
    \/ \E s \in DOMAIN sessions, yes \in BOOLEAN : Complete(s, yes) \/ UpdateEndTime(s, yes)

GarageNext ==
    \/ \E t \in DeskThread : desk[t] = Idle /\ (Sweep(t) \/ \E u \in User : Requests(t, u))
    \/ \E t \in DeskThread : desk[t] # Idle /\ Commits(t)
    \/ \E u \in User : Read(u)
    \/ Outside

GarageSpec(garage) == GarageInit(garage) /\ [][GarageNext]_garageVars

-----------------------------------------------------------------------------
Edited(table, r) == \E a \in User : <<table, r, a>> \in edited
MadeFor(r) == {v \in DOMAIN made : made[v] = r}
MadeFrom(n) == {v \in DOMAIN made : made[v] # NoRow /\ vehicleReqs[made[v]].unit = n}

\* What a request says is what was done: approved, its user is an admin, its one vehicle
\* was made or its vehicle was deleted, and otherwise nothing was; whatever commits failed
\* or threads died on the way, unless two reviews of the request overlapped or the console
\* wrote its status (admin.py:53-79, 101-170).
DecisionsStand ==
    /\ \A r \in DOMAIN adminReqs : <<"admin", r>> \notin raced /\ ~Edited("admin", r) =>
          /\ (adminReqs[r].status = "approved") <=> (r \in granted)
          /\ adminReqs[r].status = "approved" => IsAdmin(adminReqs[r].user)
    /\ \A r \in DOMAIN vehicleReqs :
          <<"vehicle request", r>> \notin raced /\ ~Edited("vehicle request", r) =>
          LET done == IF vehicleReqs[r].type = "add" THEN MadeFor(r)
                      ELSE {gone \in removed : gone[2] = r}
          IN  Cardinality(done) = IF vehicleReqs[r].status = "approved" THEN 1 ELSE 0

\* A unit is claimed exactly when a vehicle was made from it, and unless two reviews of it
\* overlapped only one was: though two requests for it may be pending, and the console may
\* reopen an approved one, and its vehicle may be deleted since (admin.py:114-138).
ClaimsAddUp ==
    \A n \in Unit : /\ n \in claimed <=> MadeFrom(n) # {}
                    /\ <<"unit", n>> \notin raced => Cardinality(MadeFrom(n)) <= 1

\* A vehicle is paired only by the code its car shows now: a new pairing undoes the old
\* one, unless a confirmation overlapped it (vehicle_link.py:38-57).
PairedMeansConfirmed ==
    \A v \in Rows(vehicles) :
        vehicles[v].paired /\ <<"pairing", v>> \notin raced => vehicles[v].proven = vehicles[v].code

\* The sessions open at a charger that have been open since they started.
StillOpen(h) == {s \in OpenAt(h) : ~sessions[s].reopened}

\* A home charger serves one session at a time, of its owner, with the owner's vehicle,
\* unless two starts overlapped: also when homes, vehicles and accounts are deleted between
\* a start's checks and its insert (home_charging.py:50-74).  Sessions that a PATCH reopened
\* are beside it: nothing asks then whether the charger serves another (sessions.py:121-128).
OneSessionPerHome ==
    /\ \A h \in Rows(homes) : <<"home", h>> \notin raced => Cardinality(StillOpen(h)) <= 1
    /\ \A s \in Rows(sessions) :
          /\ Owns(sessions[s].user, sessions[s].vehicle)
          /\ sessions[s].home # NoRow =>
                sessions[s].home \in Rows(homes) /\ homes[sessions[s].home].owner = sessions[s].user

\* A payment is recorded once: what it says stays until the session is erased, unless two
\* payments of the session overlapped (payments.py:50-64).
PaymentsStick ==
    [][\A s \in Rows(sessions) :
           sessions[s].paid # Unpaid /\ s \in Rows(sessions') /\ <<"payment", s>> \notin raced
           => sessions'[s].paid = sessions[s].paid]_garageVars

\* A sweep erases who has expired, with all they own, and nobody else loses anything: a
\* vehicle goes with its owner or by an approved request, a session with its user, and no
\* row is left that names an erased account (retention_job.py:20-52, admin.py:139-145).
ErasureIsExact ==
    [][LET erased == DOMAIN accounts \ DOMAIN accounts'
       IN  /\ \A u \in erased : accounts[u].expired
           /\ \A v \in Rows(vehicles) \ Rows(vehicles)' :
                 vehicles[v].owner \in erased \/ \E r \in DOMAIN vehicleReqs : <<v, r>> \in removed'
           /\ \A s \in Rows(sessions) \ Rows(sessions)' : sessions[s].user \in erased
           /\ erased # {} =>
                /\ \A v \in Rows(vehicles)' : vehicles'[v].owner \notin erased
                /\ \A s \in Rows(sessions)' : sessions'[s].user \notin erased
                /\ \A h \in Rows(homes)' : homes'[h].owner \notin erased
                /\ \A r \in DOMAIN vehicleReqs' : vehicleReqs'[r].user \notin erased]_garageVars

\* entities.py:334-336 says a claimed MeridianGrid ID can never be reused for a second
\* vehicle; two approvals that both read it unclaimed make two (admin.py:122).
OneVehiclePerUnit == \A n \in Unit : Cardinality(MadeFrom(n)) <= 1

\* retention_job.py:6-8 says the deletes run in an order that violates no foreign key; the
\* tables erase_user leaves out still name the account (retention_job.py:37).
SweepKeepsForeignKeys == swept # "failed"

=============================================================================
