# Verification of the MeridianGrid EV charging platform

TLA+ specifications of the platform's core logic, checked with TLC on small
instances and, for what matters most, proved with TLAPS for every instance.

## The system

| Component | Source | State it keeps | Operations | What makes it correct |
|---|---|---|---|---|
| Port booking | `backend/app/routers/stations.py`, `sessions.py`, `models/entities.py`, `database.py` | `chargers` rows (status, reserved_until, reserved_by_user_id), `sessions`, `charging_behavior_log`, `carbon_ledger` | reserve, reserve-any, cancel, lazy expiry, start-at-station, start, update, complete | no interleaving leaves a hold without an expiry; whoever looks frees a lapsed one; a held port goes to its holder; a port is occupied exactly while somebody charges; one log per session |
| Fault consumer | `services/fault_consumer.py`, `ml/maintenance_predictor.py` | rolling window of faults per charger, in memory; `maintenance_risk_score` | apply a fault, prune, summarise | only enough critical faults inside the window take a port out, and only a free one |
| Charger monitor | `simulation/charger_monitor_sim.py` | per charger: streaks, injected fault, last report | evaluate a reading, publish a fault or a heartbeat | reports are debounced; a healthy charger is never silent for long |
| Scenario engine | `scenario_engine.py`, `routers/simulation.py` | ports of one station, retained `scenario/active` message | activate, report | ports and simulators run the same scenario |
| Accounts | `routers/auth.py`, `oauth.py`, `pending_registration.py`, `redis_client.py` | `users`, pending registrations in Redis | register, verify, resend, sign in with a password or Google | every account was vouched for; one account per address and identity |
| Admin and vehicle requests | `routers/admin.py`, `vehicles.py`, `vehicle_link.py`, `seed_provisioning.py` | `admin_requests`, `vehicle_requests`, `vehicles`, `provisioning` | request, approve, reject, pair, confirm | what a request says is what was done; one vehicle per unit; a pairing is confirmed with the code the car shows |
| Home charging, payments, retention | `routers/home_charging.py`, `payments.py`, `services/retention_job.py` | home chargers, payment columns, everything an account owns | register, start, delete, pay, erase | one open session per home charger; a payment stays; an erasure takes exactly what the expired own |
| Database console | `routers/admin_database.py` | any editable column, `admin_audit_log` | create and update rows | what the handlers promise holds but for the rows it wrote itself |
| Station and swap simulators | `simulation/station_sim.py`, `swap_sim.py` | free chargers, queue, readings' processes; batteries | arrive, charge, break down, recover, report; swap, recharge | a place given is a charger free; one process of readings per charger; batteries are conserved |
| Grid and traffic simulators | `simulation/grid_sim.py`, `traci_bridge.py` | last power per charger, scenario in force | hear, sum, publish | the load is that of the plugs and the scenario |
| Digital twin | `twin-engine/*`, `services/twin_client.py` | last state per entity in Redis, WebSocket clients, browsers | store, broadcast, relay | a screen ends up with what the store has |
| Weather and advice | `services/weather_service.py`, `charging_advisor.py`, `routers/weather.py` | one reading in memory | answer from the cache, fetch, fall back | a reading not marked stale is younger than the TTL, however late answers come |
| Demand model | `services/demand_retrain_job.py` | the served model, training runs | train, force a retraining, predict | the newest model recorded is served, and none only while it is being replaced |
| Emergency queue | `ml/emergency_queue.py`, `routers/advanced_features.py` | jumps of the rolling window, in memory | insert, restart | no window sees a process grant more jumps than the cap |
| Optimisers | `ml/charge_controller.py`, `fleet_scheduler.py`, `v2g_dispatch.py`, `blackout_resilience.py`, `rural_minigrid.py`, `solar_sync.py`, `event_stress_test.py`, `recommendation.py`, `safety_score.py` | none | schedule, dispatch, back up, size, rank | limits respected; no worse than the baselines the tests compare with |
| Web client | `frontend-web/src` | page state | the calls above | — |

Most handlers are FastAPI `def` endpoints: each runs in a thread of a pool
with a SQLAlchemy session of its own (`autoflush=False`). It SELECTs rows,
assigns to the loaded objects and flushes the changed columns in one commit.
PostgreSQL runs at READ COMMITTED, no row has a version column and no query
locks, so between a handler's SELECT and its commit any other handler, the
MQTT thread of the fault consumer or another console may commit. The weather,
the advice, the predictions and the live feed are `async`: tasks of one event
loop that interleave only at an `await`. Components talk through these tables,
through Redis, through MQTT topics (QoS 0, retained for the scenario) and
through the twin's WebSocket. The hard behaviours are therefore stale reads,
interleaved commits, repeated calls, aborted requests, restarts that lose
memory but not tables, lost or late messages, subscriptions that are made only
once, and expiry that only happens when somebody looks. `PROJECT.json` lists
them as hazards, each at its line.

## Modules

| Module | Models | Composition |
|---|---|---|
| `PortBooking` | the ports of one station, their holds and sessions, every handler that writes them | refines `StationPorts` |
| `StationPorts` | what ports promise drivers: free, held, stale, charging or out of service | abstract |
| `MCPortBooking` | sets of endpoints and symmetry for TLC | extends `PortBooking` |
| `PortBookingProofs` | proofs about `PortBooking`: what no interleaving breaks, and what overlap alone does | extends it |
| `ChargerMonitor` | `evaluate` for each charger: injection, thresholds, debounce, heartbeat | component |
| `FaultConsumer` | the window of faults, the decision and its commit | component |
| `FaultPipeline` | monitor → MQTT → consumer, with loss, restarts and one clock | composes the two |
| `MCFaultPipeline` | readings and injected faults for TLC | extends `FaultPipeline` |
| `FaultProofs` | proofs about `FaultPipeline` | extends it and `Sums` |
| `Accounts` | registrations in Redis, codes, verification, resending, Google sign-in | component |
| `Garage` | admin and vehicle requests, units, pairing, home charging, payments, console edits, retention, over tables with foreign keys | component |
| `MCConsole` | `Accounts` or one group of the garage's operations at a time | extends both |
| `ChargeController`, `FleetScheduler`, `GridPlans`, `Recommender` | the optimisers as functions and sets of solutions, in integer units | operators only |
| `Orders` | a finite set in the order of a relation, as Python's `sorted` | operator of `GridPlans` and `Recommender` |
| `Planner` | one call of an optimiser and its answer | extends them |
| `WeatherCache` | tasks that share a reading across an `await` | component |
| `PriorityJumps` | threads that share the jump tracker | component |
| `DemandModel` | training, clearing and replacing the served model, in server and script | component |
| `StationSim` | SimPy queue, sessions, outages, the readings' processes | component |
| `SwapKiosk` | SimPy container of batteries, handoffs, recharges, published status | component |
| `FeederGrid` | the load aggregator of `grid_sim`, MQTT in, two locks out | component |
| `ScenarioFeed` | commit, lazily made client, retained broadcast, broker and simulators that restart | component |
| `TwinFeed` | store, overlapping broadcasts, the relay, browsers | component |
| `MCServices` | small instances of `Planner` … `TwinFeed`, one part per behaviour | extends them |
| `AccountsProofs`, `GarageProofs` | proofs about `Accounts` and `Garage` | extend them |
| `PlannerProofs` | proofs about the optimisers' answers | extends `Planner` and `Sums` |
| `AdviceProofs` | proofs about `WeatherCache`, `PriorityJumps`, `DemandModel` | extends them |
| `SimulatorProofs` | proofs about `ScenarioFeed`, `FeederGrid`, `TwinFeed`, `StationSim`, `SwapKiosk` | extends them and `Sums` |
| `Sums` | lemmas about the sums of the community modules, for every finite set | — |

`MCConsole` and `MCServices` run parts that share no state: the variable `part`
says which one a behaviour runs, and every other variable stays as it began, so
each run checks the parts apart at the price of one start-up. Where parts do
share rows in the program (a session of the garage that `PortBooking` completes,
the ports a scenario writes) the shared operation is an action of both modules.

### Port booking

`charger` is the `chargers` table restricted to the three columns of a hold,
`session` the sessions with the number of log and ledger rows they own, `req`
what each handler's SQLAlchemy session holds: the operation, the rows as
loaded, the rows as assigned, and the next database call (`phase`). One action
is one SELECT with the decisions on its result, or one commit; between them
anything else may happen. `Flush` writes the columns whose assigned value
differs from the loaded one, as the ORM's UPDATE does, and nothing else: that
is where lost updates come from. `phase = "select"` against `"reselect"` keeps
the identity map apart from a fresh read: after a commit objects are expired,
without one a second SELECT returns the object as first loaded.

| Action | Code |
|---|---|
| `Look`, `CommitExpiry` | `_expire_stale_reservations`, from any endpoint that reads stations |
| `ReserveAny`, `ReserveSelected`, `CommitRows` | `reserve_any_charger` |
| `ReserveLapsed`, `Reserve`, `Cancel` | `reserve_charger`, `cancel_reservation` |
| `StartAtStation`, `StartSelected`, `CommitStart` | `start_session_at_station` |
| `StartSession`, `UpdateEnergy`, `UpdateEndTime` | `start_session`, `update_session` |
| `Complete`, `CommitComplete` | `complete_session` |
| `Fault`, `Scenario`, `UpdateCharger`, `UpdateRow` | the other writers of `chargers.status` |
| `Abort`, `Lapse` | a handler that never commits; ten minutes passing |

A 4xx answer changes nothing and is an action that is not enabled. Energies,
prices and times are abstracted to what decides something: whether energy was
delivered, whether a hold's expiry is missing, in the future or past. The
constant `Endpoints` is the set of operations a run lets the environment use.
`PatchStatus` is what an operator may write as a port's status: the PATCH and the
console take any string (`schemas.py:312-313`, `admin_database.py:75`). Of the
strings, the handlers tell four apart; any other behaves as "offline" does.

### Charger faults

`monitor[k]` is a `ChargerMonitorState`; times are ticks left or passed. A
reading is reduced to what `evaluate` compares (occupied, current flowing, the
thresholds exceeded by itself and those an injection would exceed). `said` and
`seen` record, for the properties, the last report and the last two
detections. `events[p]` is a port's list of faults, counted by severity and
age, the last age being "older than the window"; `apply` is the transaction of
the message being applied; `receipts` is history: what really arrived within
the window since the process started. The window is pruned exactly where the
code prunes it, on each fault (`Receive`) and on each summary (`Summarise`).
`Receive` and `CommitFault` are two steps, since others write `chargers` in
between; recording and pruning are one, because the lock is released between
them only to a summary, which prunes what the consumer is about to prune. The
wire keeps order and loses messages at will (QoS 0), and never repeats one.

### Accounts and the garage

`Accounts` keeps Redis (`pending`, with the times a code and a key expire) and
the table (`users`) apart. Each Redis command and each commit of a request is
an action, so that a resend can be caught between its two GETs and its SETEX,
and a verification between its commit and its delete. Codes are numbers; a
mailed code may not arrive, and `mailed` remembers which did, to whom, when it
was made. A registration that was deleted or expired is `NotPending`; a
late `StoreCode` brings it back, as SETEX does. `Drop` ends a request at any
step: an answer sent, or a process that died.

| Action | Code |
|---|---|
| `Register` | `register`, `create_pending_registration`, the mail |
| `Verify`, `CommitVerified`, `DeletePending` | `verify_otp` |
| `Resend`, `Reload`, `StoreCode`, `MailCode` | `resend_otp`, `update_pending_registration_otp` |
| `GoogleSignIn`, `Link`, `Join` | `google_sign_in` |
| `Login`, `TimePasses` | `login`; keys that Redis drops |

`Garage` has one row kept for each row the tables have, `Gone` once deleted. A
request `Look`s (with what it read kept in `desk`) and commits in a later step;
the guards of a commit are the foreign keys and the rows an UPDATE must find,
and a commit they forbid is a 500: `Abandon`, or for the sweep `FailSweep`.
`raced` is history: the rows two requests worked on at once. The properties
excuse exactly those rows, since the code has no lock: two reviews of one request,
two starts at one charger, two payments of one session, a confirmation beside a
new pairing do come apart, and only the claim of a unit has a violation run.
`logged` says that a completion of the session left a behaviour log, which the
sweep cannot erase; `reopened`, history, that a PATCH cleared its end_time after
it had ended.

| Action | Code |
|---|---|
| `RequestAdmin`, `ReviewAdmin` and their commits | `request_admin_access`, `approve_`/`reject_admin_request` |
| `RequestAdd`, `RequestDelete`, `CommitRequestVehicle` | `request_add_vehicle`, `request_delete_vehicle` |
| `ReviewVehicle`, `CommitAdd`, `CommitDelete`, `CommitReject` | `approve_`/`reject_vehicle_request` |
| `Pair`, `CommitPair`, `Confirm`, `CommitConfirm` | `vehicle_link.py` |
| `RegisterHome`, `DeleteHome`, `StartHome` and commits | `home_charging.py` |
| `Pay`, `CommitPay` | `payments.py` |
| `UpdateEndTime` | `update_session`: an end_time written or cleared |
| `ConsoleEdits` | `admin_database.update_row` on a request's status |
| `Expire`, `Sweep`, `CommitSweep`, `FailSweep` | `retention_job.py` |
| `StartAtStation`, `Complete` | what `PortBooking` models in full; `Complete` as often as a client asks |

### Optimisers

Their numbers are scaled to integers (Wh, W, tenths of a degree, per cents), with
the code's own truncations and roundings kept. A CP-SAT model is the set of its
feasible solutions (`Feasible`, `FleetPlans`); "OPTIMAL" keeps those no other
beats, "FEASIBLE" (the solver ran out of time) keeps all. `Planner` makes a
call and holds its answer, and the properties are about every request and
answer: `Ceiling…`, `Optimal…`, `Joint…` compare with the naive baselines that
are in the source themselves.

A sorted list (`sorted` in a dispatch, `sort` in a ranking, and a comprehension
that keeps the order of its list) is `InOrder(S, R)` of `Orders`: the sequence of
the elements of a set of positions that a strict total order `R`, a set of pairs,
ranks. Python's sorts are stable, so each `R` breaks its ties by position. The
community modules' `SetToSortSeq` and `SelectSeq` would say the same, but take
operators as parameters, which the provers cannot look into.

### Shared memory of the backend

`WeatherCache`: a reading is the time its weather was true and the time it is
stamped with. `Ask` runs to the await, `Fetched` or `FetchFails` is what comes
after it, at any later time: httpx's `timeout=5.0` bounds each connect, write and
read and not the request, so nothing bounds how far a late answer takes the
cache back. `PriorityJumps`: `can_jump` and `record_jump` each read, prune and
assign the list, and two threads may come between; `RestartJumps` empties the
trackers, which are process memory. `DemandModel`:
`Clear` and `Update` are two steps of `force_retrain`, the reads of an answer's
keys are steps of their own, and the nightly script trains in another process.

### Simulators and feeds

`StationSim` has SimPy's own steps: a request is granted by one event, taken by
its process at another, and a release lets the next in at a third, all at one
instant; `ClockMoves` only when nothing is left to do. A ticker (`tickers[c]`)
is a process that reports readings and looks at its charger's status only when
it wakes. `SwapKiosk` likewise serves waiting vehicles when the event of a put
is processed. `FeederGrid` is `grid_sim` between two threads: the handler, and
the loop that sums under one lock and adds the stress under another. In
`ScenarioFeed` the backend commits, makes its client on first use and
publishes; simulators subscribe once, and the broker keeps no retained message
across its restart (`mosquitto.conf` turns persistence off). `TwinFeed` has a
task per message, sending to a copy of the set of clients, one of which is the
backend's relay.

| Module | Actions | Code |
|---|---|---|
| `StationSim` | `Arrive`, `Start`, `End`, `Recover`, `Release` | `vehicle_session` |
| | `Report` | `charger_telemetry_ticker` |
| `SwapKiosk` | `Queue`, `Take`, `Leave`; `Recharged`, `Restocked` | `swap_session`; `_recharge_battery` |
| `FeederGrid` | `Handle`; `SumDraws`, `PublishLoad`; `Disconnect`, `Lose` | `on_message` and the scenario's handler; `main`; MQTT |
| `ScenarioFeed` | `Apply`; `MakeClient`, `Connect`, `ConnectFails`, `Announce`; `Hear` | `apply_scenario`; `_get_mqtt_client`, `activate_scenario`; the simulators' handlers |
| `TwinFeed` | `Receive`; `Begin`, `Proceed`; `Join`, `Discard`; `PassOn`; `Register`, `Unregister` | `_on_mqtt_message`; `broadcast`; `ws_endpoint`; `relay_forever`; `live_feed` |

## Runs

| Run | Question | Instance |
|---|---|---|
| `booking_operator` | Can any mixture of handlers, faults and scenarios leave a hold without an expiry, beside operators who write "reserved" themselves? | 1 port, 2 users, 2 threads, 1 session, all writers, `PatchStatus` = {"reserved"} |
| `booking_web` | Do ports get stuck, do completions and logs come apart? | 1 port, 2 users, 2 threads, 2 sessions, repeated completions, faults, aborts |
| `booking_live` | Does a look free the lapsed hold it saw? | 1 port, 2 users, 2 threads, 1 session, fairness of begun handlers |
| `booking_serial` | Without overlap, is the status the truth and `StationPorts` implemented? | 2 ports, 2 users, 1 thread, 3 sessions |
| `booking_race` | violated: a held port goes to its holder | as `booking_web` |
| `booking_logs` | violated: one log per session | as `booking_live`, 2 sessions |
| `booking_lapsed` | violated: nobody is offered a lapsed hold | 1 port, 1 thread |
| `faults` | Are reports debounced and ports taken out only on two critical faults? | 1 charger, 1 port, window 1, 2 faults a window, 1 report in transit |
| `console` | Are accounts vouched for and unique, decisions done, pairings confirmed, payments kept, erasures exact? | 2 addresses, 1 identity, 2 threads; 1 admin, 1 driver, 1 unit, 2 threads |
| `claims` | violated: a unit makes one vehicle | the requests and reviews of `console` |
| `retention` | violated: the sweep breaks no foreign key | the retention part of `console` |
| `services` | What do the optimisers, the caches, the simulators and the feeds promise? | the requests of `MCServices`; 2 tasks, 2 threads, 2 chargers, 3 batteries, 2 plugs, 2 simulators, 1 viewer and 1 browser |

What each invariant of `console` and `services` says stands in the comment
before it. In short:

| Property | Promise |
|---|---|
| `AccountsAreProven`, `OneAccountEach` | Google or a code mailed to the address vouched for it, in time; no address, identity or registration has two accounts |
| `DecisionsStand`, `ClaimsAddUp` | a request's status says what was done, through failed commits; a unit is claimed exactly when a vehicle was made from it |
| `PairedMeansConfirmed`, `OneSessionPerHome`, `PaymentsStick` | a pairing undoes the one before; one session a home charger, of its owner, but for sessions reopened by a PATCH; a payment stays what it is |
| `ErasureIsExact` | a sweep takes the expired with all they own, and nothing of anybody else |
| `CeilingHoldsToTheLastMinute`, `OptimalBeatsConstantCurrent` | the thermal ceiling, and by how much its last minute misses it; no worse than the baseline |
| `FeederIsExceededByTruncationOnly`, `JointPlanIsNoWorse` | a depot's draw, and by how much truncated ratings let it exceed the feeder; no worse than each vehicle for itself; emergencies first |
| `DispatchKeepsReserves`, `CoverageIsHonest`, `SolarWindowIsCheapest`, `RankingTrustsTheVerified`, `CapacityReportsAddUp`, `WorstFactorDecides` | the planners against what they say of themselves |
| `FreshMeansFresh` | a reading not marked stale is younger than the TTL, however late its answer came |
| `JumpsAreCapped`, `ServedModelIsTheNewest` | unless requests overlapped: no window has more jumps of one process than the cap; the newest recorded model is served, and none only between a forced retraining's clearing and its update |
| `PortsAddUp`, `TickersAreTheChain` | the resource's places and the list of free chargers agree though they change at different steps; a charger's readings come from at most one process per session since it was last idle |
| `InventoryAddsUp` | batteries are conserved, by the container and by what is published |
| `LoadFollowsPlugs`, `ScenarioReachesSims`, `FeedFollowsTheStore` | what subscribers have is what was sent, except after the losses, restarts and overlaps each names |

**Bounds.** Handlers only interact through rows, and a lost update needs one
reader and one writer: two threads give every pairwise interleaving, two users
every conflict of owners. One port is enough for conflicts because each race
is about one row; `booking_serial` has two so that the choice of a port, and
whole-station writes, matter. Two sessions let a port be reused while an old
session is completed again. `MaxLogs` stops repeated completions once each has
happened twice. `booking_operator` lets operators write "reserved" alone, the one
status that could strand a port; the theorem is about every set of statuses. In
`faults`, a window of one tick has faults inside it, on its
boundary and outside; two faults are the threshold; the heartbeat of one tick
falls due while a fault's streak is anything from none to complete; injections
last one tick, which spans any number of readings. One report in transit is
enough for every loss and delay, because the consumer's state depends on the
time each report arrives and not on how many wait.

In `console`, a code lives one tick, a key three and the run as many, so that
codes expire before their keys and keys while a resend is under way; two codes
let a resend race a verification; two addresses for one identity let a Google
sign-in meet a registration of either. The garage's operations are taken in
five groups (`MCFocus`), each of those that share rows; two requests are enough
for two that want one unit, or for one that blocks the other's deletion; one
console edit (`MaxEdits`) reopens a decided request. Two sessions let one be
reopened beside another; completions, whose log only the sweep minds, are taken
in its group, and writes of the end_time in that of the home chargers.

In `services`, requests lie on both sides of each boundary of the optimisers.
The weather's TTL is two ticks of five, so that a fetch begun
before an expiry ends after another's; the jump window is two of five, with a
cap of two and four grants. A station's sessions last three or four units of a
tick of three, so that a process of readings can sleep through the end of its
session and the start of the next, more than twice in a row (`MaxChain` three);
an outage lasts more than two ticks. Two simulators can differ in what they
missed; two broadcasts at once can overtake each other, and three messages
leave one for after.

**Deadlock** is checked in every run. **Symmetry** is used where threads,
users or ports are interchangeable and no liveness is checked (`MCPortBooking`,
`MCConsole`).

**Fairness** (`booking_live`). A handler that has begun is run on by its thread:
weak fairness of `Continue`, and no more. Nothing makes anybody begin one. No
sweep runs; of the pages that poll, `HomePage` and `MapPage` poll live telemetry,
which reads no port, and only the administrators' `StationHealthPage`
(`:38-49`) and `Station3DPage` (`:16-17`) poll the stations, while they are open.
So the property is about a look, as the comment at `stations.py:30-32` is: a
lapsed hold that a request read is gone in the end, whatever commits in
between. A hold nobody looks at stays. The run has no aborts: a restart that
cuts a look off frees nothing, and nothing makes it look again. The other modules
have no fairness: nothing in the code makes a lost subscription or a failed
publication good again, so that nothing must eventually happen.

**Violations.** `booking_race`: start-at-station selects a free port, another
driver's hold on it commits, the claim overwrites the status and the expiry.
`booking_logs`: two overlapping completions of one session each add a row.
`booking_lapsed`: start-at-station never expires holds, so a holder can start
on a hold that lapsed long ago. `claims`: two overlapping approvals of requests
for one unit both find it unclaimed, and each makes a vehicle. `retention`: an
expired account with a home charger or a request makes the sweep's one commit
fail, for every account. Each quotes, in `PROJECT.json`, the comment it
contradicts.

**Remarks on the documentation**, which no run is about. A dispatch takes from
the fullest vehicle all it can give before it asks the next, so one with as much
energy above its reserve, in a larger battery, may give nothing: the docstring
(`v2g_dispatch.py:54-56`) promises shares in proportion. A candidate nobody ever
verified counts as verified 999 hours ago and is ranked before one like it
verified 1200 hours ago: "maximally stale" (`recommendation.py:81`) it is not.
`DispatchKeepsReserves` and `RankingTrustsTheVerified` state what does hold. The
comment at `simulation.py:22-26` lists `station_sim.py` among the simulators that
react to a scenario; it subscribes to nothing.

## Proofs

Each theorem holds for every value of the constants, from the named
assumptions of the modules and the hypotheses its statement shows. `PROJECT.json`
lists them with the property each states. Most are of one form: the property is
not inductive, a stronger invariant is; it holds at the start, every action
keeps it, it implies the property. What follows says what the invariant adds
and why it is needed.

### Port booking

*`TypeCorrect`*: every action keeps the types; the only delicate point is that
an assigned row may hold the value "fresh", which `Flush` turns into a date.

*`HoldsExpire`*: that a step strands a port only if an operator wrote it depends on
what the step's handler had loaded and assigned. The invariant is `Works`: for each
request and port, what is assigned is the loaded row itself (nothing is written),
or the loaded row held, freed, claimed or marked with a status other than
"reserved", or it is that of a PATCH (`Write`). `FlushKeepsExpiry` shows that any
such write but a PATCH's, on top of any row that is not stranded, leaves one that
is not: a hold writes a fresh expiry whatever was loaded, and the writes that clear
an expiry change the status in the same UPDATE or find it changed already. A row
that is stranded already may stay so.

*`PortsAreReleased`*: under `OnlyHandlers` (nobody uses PATCH, the database
console, scenarios or `end_time`). `Attended` strengthens
`OccupiedHasOpenSession` with completions on their way, and `RequestInv` says
that a start owns its unused session and that a completion knows its session's
port; the step is `FlushOccupied`: a commit leaves "occupied" only where it
was, or where a start put it, together with its session.

*`EndsAreLogged`*: unless an `end_time` is PATCHed. Only a completion's commit
ends a session, and it adds the log in the same transaction, so the two agree
through any overlap and any abort.

*`StatusIsTrueAlone`, `Refinement`, `HoldsAreKeptAlone`, `OneLogAlone`*: under
`OneAtATime` (handlers do not overlap, nobody writes rows by hand, no client
completes twice). `SerialInv` says of the request in flight that the rows it
loaded are still those of the table, but for a hold that lapsed meanwhile
(`Kept`), and which one update it is about to make (`RequestSound`). From it,
each step changes the tables as one whole transaction (`Transaction`): a sweep,
a hold, a start, a completion. Such a transaction is a step of `StationPorts`
or a stutter, which is the refinement, and keeps the status true. The last two
theorems state what `booking_race` and `booking_logs` see violated: it takes an
overlap, or a repeated completion, to violate them.

### Charger faults

*`TypeCorrect`*: a port's risk is a number because a sum of counts is one
(`Sums`).

*`Debounced`, `HeartbeatIsHonest`*: the inductive invariant adds
`StreaksAreRuns`, which ties a code's streak to the last two detections in both
directions; `EvaluateKeeps` is the step.

*`WindowIsExact`, `EarnedMaintenance`*: lists and history agree inside the
window and the history holds nothing outside it (`WindowInv`). Recording,
pruning and ageing keep the agreement (`RecordAgrees`, `PruneAgrees`,
`TickAgrees`), so the pruned list a decision is taken on *is* the history
(`PrunedIsHistory`) and the decision carries the evidence to its commit
(`DecisionIsEarned`). `PortsAreRows` adds that the table keeps a row for every
port, so that an update of one port is seen to leave the others alone.

### Accounts and the garage

*`AccountsAreUnique`, `AccountsAreVouchedFor`*: a registration's address is
written in Redis, in requests' hands and in the table; `OneName` says that these
never disagree, though the registration may be deleted and stored again, and
with the unique columns (`Unique`) it gives the first. `OneOrigin` says likewise
that a code was made for one address at one time wherever it is written, so the
mail that brought it went to the account's address, and `HandsArePresented`
carries the proof to the commit. Neither bounds what requests may overlap.

*`GarageTypes`, `GarageReferences`*: `GarageOK` types the tables and the
requests under way, and says that two of them share a row only if the pair is
recorded in `raced`; `ForeignKeys` is kept because each commit checks it again.

*`DecisionsStandTheorem`, `ClaimsAddUpTheorem`, `PairedMeansConfirmedTheorem`,
`OneSessionPerHomeTheorem`, `PaymentsStickTheorem`, `ErasureIsExactTheorem`*: for
each property, what a request under way read must still hold when it commits,
unless its row was raced (`AdminReviewsStand`, `VehicleReviewsStand`,
`ClaimsStand`, `PairingsStand`, `HomesStand`, `PaymentsStand`, `SweepsStand`): a
review's request is still pending, a start's charger still free of sessions that were never
reopened (`StillOpen`). The frame
lemmas (`CommitsClose`, `VehicleKept`, `SessionKept`…) say which actions write a
table at all, so that each property is disturbed by a handful of the actions.

### Simulators and feeds

*`ScenarioArrives`*: what is on its way to a simulator ends with the scenario
announced last (`FeedEnds`), the broker retains that one or none
(`RetainedInv`), and while activations do not cross, the one under way will
announce what the ports have (`RoundInv`).

*`LoadIsTheSum`*: the last message on a topic says what there is to say
(`WireEnds`), what is neither on its way nor lost is known (`KnownInv`), and the
sum in the loop's hand is that of the draws as long as nothing was handled since
it was taken (`CalmInv`).

*`FeedArrives`*: broadcasts in flight walk the same list in the order they
began, so none overtakes an older one and the newest ends last (`InStep`); a
screen that the newest has passed shows its message, or the relay has it in hand
(`UpToDate`).

*`PortsAreAccountedFor`*: places and indices are counted alike, and as many
releases are on their way as there are free places somebody waits for
(`Counted`); the free list is the complement of the busy chargers, without
repetition (`Indexed`). *`TickersEnd`*: a process that wakes at an idle charger
ends, so after some idleness the rest sleep for less than the rest of a tick
(`Asleep`).

*`BatteriesAreConserved`*: `InventoryAddsUp` is inductive once no count is
negative (`KioskTypeOK`): `ServeKeeps` shows that what the container grants
moves batteries from its level to the served until one of the two runs out.

### Shared memory of the backend

*`FreshReadings`*: the reading in the cache is stamped no later than its weather was
true (`Stamped`), and no question or stamp is ahead of the clock (`Timely`). A stamp
taken when the answer arrives would break the first. Nothing is assumed of how long
an answer takes.

*`JumpsStayCapped`*: while requests do not overlap, the list, or the copy the
request in hand goes on with, forgets no jump of the window (`Remembered`), so
that a request that finds room really leaves the cap respected in each window
that ends at it. The cap is a process's: a restart forgets the jumps before it.

*`NewestModelIsServed`*: while trainings of the server do not overlap, there is
at most one, which holds the newest model once it has recorded it; before that
the cache has it (`OneTrains`), and it read all the earlier ones had
(`ReadSoFar`). Where a model was seen before, the cache is empty only between the
two steps of a forced retraining: what a reader finds there the theorem does not
excuse, it says when it may happen.

### Optimisers

`AnswersAreTheRequests` says that the answer in hand is one its request's
function gives; each theorem is then a fact about a function, for all inputs.

*`CeilingIsKept`*: temperatures are defined recursively, so what holds of them
all is shown by the first minute that would break it (`LeastNumber`): a cell is
never colder than the air, and a minute warms it by no more than its power.

*`OptimalIsBest`*: the optimal schedule is compared with two others that are
feasible as well: the naive one and itself, each cut off where it reaches the
target (`CutIs`, `CutIsFeasible`, `CutReaches`). The first comparison shows that
it is as early and, when as early, as cheap; the second that it draws nothing
afterwards. The hypothesis is that no cost over the horizon comes to
`TARGET_REACHED_WEIGHT`: a minute costs at most 1200, so a horizon of up to 83
minutes satisfies it (the code's default is 15, the tests' longest 25). Beyond
it the code's sum of the two goals no longer puts speed first.

*`FeederIsKept`*: the solver's sum of truncated ratings is at least the tenth
part of the real sum less nine for each vehicle (`TruncatedSum`), and no two
vehicles of a slot share a charger. *`CheapestWindow`*: the first of the least
of finitely many costs (`FirstOfLeast`), and the sine table by cases.
*`ReportsAddUp`*: what a rounded-up division promises (`CeilDivHolds`), that a
smaller ratio asks for no fewer stations (`DeratedIsNoFewer`) and that the
mini-grid's count is the last that fits (`SafeCountIsSafe`).
*`WorstFactorIsKept`*: a factor alone lowers the level exactly to the worse of
the two.

*Sorted lists*: that `InOrder` has a value at all is an induction over the set,
taken with `BySubsets`: a set without its last element is listed, and that one
put at the end (`LastExists`, `SortedExists`). It lists each element once, and
of two the one that comes first is the lesser (`InOrderIs`). *`RankingIsSound`*
then compares the scores of two candidates: where all but the verification
agrees, so do all other terms, and the score is as the staleness.

*`DispatchIsSound`*: along the order, what has been given and what is left of
the deficit add up to the deficit, each allocation is that of one vehicle of the
list and no more than its tap, and a vehicle that was passed over had nothing to
give or found no deficit; the recursion is followed by its first step that would
break this. At the end the sum is the deficit or that of the taps, whichever is
less, since each eligible vehicle occurs once (`SumPlus`, `SumPadded`).
*`BackupIsSound`* adds the roundings: each allocation is off by at most 5 W, so
their sum by 5 W for each vehicle (`SumsWithin`), and the ratio by half a permille
of the load.

*`JointPlanIsSound`*: an optimal plan costs no more than any other that is
feasible (`OptimalIsCheapest`), so each clause is shown by a plan to compare
with. A cost is regrouped (`CostIs`) as downtime and peak, plus the penalties of
all vehicles, less those of the vehicles served (`Earned`). The naive plan is
feasible where no feeder limits it (`NaiveIsFeasible`): vehicles take turns at a
charger, which the recursion keeps up to the first vehicle that would overlap an
earlier one. So an optimal plan that served less, by weight, would cost a
penalty more and could save at most the naive plan's own downtime and peak
(`OptimalServesAsMany`). If an ordinary vehicle has a place where an emergency
that went without would fit, the plan that gives it the place (`PlaceGiven`) is
feasible, has no more downtime and no higher peak, and earns two penalties more:
the other was not optimal. This half needs no hypothesis on the depot.

The assumptions on requests (`ChargeAssumption`, `SolarAssumption`,
`FleetAssumption`, `CapacityAssumption`, `DispatchAssumption`, `RankAssumption`,
`PowerAssumption`) are what the code
needs to answer at all: a charger has a rating and a station a capacity, since
the code divides by them; a horizon has a minute, since the first constraint is
on it; levels are those of `POWER_LEVELS_KW`; counts and capacities are not
negative; the endpoint looks ahead at most a day; a candidate's kind is one of the
two the code asks about.

Two theorems need more of the requests than that, and say so as hypotheses of their
own. `ListedOnce`: no vehicle is twice in a fleet. The endpoints take the client's
list as it comes (`advanced_features.py:75-84`), and a vehicle listed twice would
be asked twice and could give its reserve. `PenaltyDominates`: downtime and
peak of the naive plan weigh less than one penalty. `fleet_scheduler.py:18` says
that the penalty dominates and nothing checks it; at a depot that needs a hundred
slots in all it does not. `MCRequestsAssumption` has TLC check that the requests
of `services` satisfy both, so neither theorem is about nothing.

### Sums

A sum of the community modules takes one element after the other, whichever
`CHOOSE` gives, and the induction theorems of the library take an operator as a
parameter, which the provers cannot instantiate. `Sums` therefore gets induction
from a set: `BySubsets` says that a *set* `P` of subsets that contains each set
all of whose proper subsets it contains has them all, and follows from the least
cardinality of a counterexample. With it, a sum has the type of its parts, may
be split at any element, is monotone, and changes with one of them.

### What is only model-checked

- `LapsedHoldIsFreed`: liveness under fairness is out of the prover's reach, as
  is ENABLED.
- The properties of the violation runs, of which two are proved without overlap.

Every invariant and every action property of the passing runs is proved.

Modules with theorems reach no RECURSIVE operator.

## What is not modelled

- In port booking: creation of stations, ports and swap slots (a port may be
  created with the status "reserved", `stations.py:141`, which strands it as an
  operator's write does), several
  stations (handlers load the ports of one), the maintenance check and
  telemetry rows. A station's type is assumed to have a tariff zone. The two
  SELECTs of a completion are one step; a PATCH of the energy is one step.
  Two ports added at once get the same number (`stations.py:154`).
- In charger faults: the map from simulated to real stations, the scenario's
  injection rate (an injection is always possible, which includes every rate),
  messages that do not parse, and the lost subscription after a reconnection
  (a hazard listed in `PROJECT.json`; `FeederGrid` has it for its simulator).
  `FaultConsumer` has no "reserved" or "offline" status: its decision only
  asks whether a port is available.
- In the console: `create_row` (`admin_database.py:190-208`), which inserts a row
  of any table but the transactional ones and the audit log, and the fields of
  `update_row` that no property is about. Users it makes, and the admins of the
  seed script, are vouched for by nobody: `AccountsAreProven` is about those who
  register or sign in.
- In accounts: hashing and the signing of tokens, a caller's own profile,
  location and password, and Redis itself failing.
- In the garage: ports an expired account holds, which also block its erasure;
  a vehicle's readiness; listings, which `Read` stands for. A rejected request
  to delete keeps naming its vehicle and blocks its later deletion, in the
  model as in the code. A payment may come before its session ends, in both.
- In the optimisers: how the solvers search, floating point beyond the
  rounding that is kept, endpoints that only format. The reply of
  `/emergency-queue/insert` says jumped whatever the tracker decided
  (`advanced_features.py:165`); no property is about that text.
- In the simulators: electrical values, arrival rates, the power flow
  (pandapower) and the traffic (SUMO), the solar simulator (a formula on a
  timer) and the event simulator, which runs a second station on the same
  topics. `last_verified_at` is renewed when a charger goes offline, recovers
  and ends a session as well as at a session's start, which is all the docstring
  names (`station_sim.py:10-16`); busy stations send readings more often than
  its 30 to 300 seconds, which is what `TickersAreTheChain` bounds. That a late
  simulator catches up (`docs/vellore-expansion.md:59-62`) holds in
  `ScenarioReachesSims` only while the broker has not restarted.
- In the twin: the REST reads, topic names, and a Redis that fails, which ends
  the network thread of the engine (a hazard without a property). That the
  tasks waiting for one socket go on in the order they came is taken from
  asyncio. SimPy's containers and resources, and paho's reconnection without
  resubscription, are modelled from how the code uses them.
- Model fitting and closed formulas on reals, seeds and migrations, rendering:
  see the components' notes.

## Plan

1. *Done*: `StationPorts`, `PortBooking` and its proofs; `ChargerMonitor`,
   `FaultConsumer`, `FaultPipeline` and their proofs.
2. *Done*: `Accounts`, `Garage`; the optimisers, caches, simulators and feeds.
3. *Done*: proofs of every invariant and action property the passing runs check;
   only liveness is left to TLC.
4. To model: creating stations and ports, the event simulator's second station
   on shared topics, and a Redis that fails.
