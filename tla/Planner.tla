------------------------------- MODULE Planner --------------------------------
(***************************************************************************)
(* The optimisers and advisers as their callers use them                   *)
(* (routers/advanced_features.py, routers/weather.py and, for the fleet    *)
(* scheduler, the charge controller and the mini-grid, which no endpoint   *)
(* exposes yet, their tests): a call with one request, answered with what  *)
(* the function returns.  Nothing is kept between two calls.               *)
(***************************************************************************)
EXTENDS ChargeController, FleetScheduler, GridPlans, Recommender

CONSTANTS
    ChargeRequests,     \* [target, horizon, ceiling, status]
    FleetRequests,      \* [depot, status]
    DispatchRequests,   \* [fleet, deficit, hours]
    BackupRequests,     \* [load, fleet, far, radius, hours]
    GridRequests,       \* [capacity, power, share, margin]
    SolarRequests,      \* [now, duration, site, lookahead]
    RankRequests,       \* [vehicle, candidates, hour, solo]
    StressRequests,     \* [capacity, baseline, power, share, multipliers, station,
                        \*  total, maintenance]
    AllEvRequests,      \* [capacity, count, power, share, adoption, station]
    AdviceRequests      \* [weather, feeders, hour]

\* A horizon has a minute (the solver's first constraint is on it), and a solver that
\* finds no schedule raises.
ASSUME ChargeAssumption ==
    \A r \in ChargeRequests : /\ r.horizon \in Nat \ {0} /\ r.target \in Nat /\ r.ceiling \in Int
                             /\ r.status \in {"OPTIMAL", "FEASIBLE"}

\* No station generates less than nothing, and the endpoint looks ahead a day.
ASSUME SolarAssumption ==
    \A r \in SolarRequests : /\ r.now \in Int /\ r.duration \in Int /\ r.lookahead \in 1..24
                            /\ r.site.peak \in Nat /\ r.site.load \in Int

\* A charger has a rating (the slots a vehicle needs are divided by it), and no feeder
\* a negative capacity.
ASSUME FleetAssumption ==
    \A r \in FleetRequests :
        /\ r.status \in {"OPTIMAL", "FEASIBLE"}
        /\ r.depot.vehicles \in Seq([energy : Nat, emergency : BOOLEAN])
        /\ r.depot.power \in Seq(Nat \ {0})
        /\ r.depot.horizon \in Nat
        /\ r.depot.feeder \in Nat \cup {NoFeeder}

\* Capacities, counts and shares are not negative, a station has a capacity (another
\* division), and a margin is a part of the whole.
ASSUME CapacityAssumption ==
    /\ \A r \in GridRequests :
         r.capacity \in Nat /\ r.power \in Nat /\ r.share \in Nat /\ r.margin \in 0..100
    /\ \A r \in StressRequests :
         /\ r.capacity \in Nat /\ r.baseline \in Nat /\ r.power \in Nat /\ r.share \in Nat
         /\ r.multipliers \in Seq(Nat) /\ r.station \in Nat \ {0}
         /\ r.total \in Nat /\ r.maintenance \in Nat

\* A vehicle gives no less than nothing, and takes no time back.
DispatchableFleets ==
    Seq([id : Nat, ready : BOOLEAN, soc : Nat, capacity : Nat, limit : Nat])

ASSUME DispatchAssumption ==
    /\ \A r \in DispatchRequests :
         r.fleet \in DispatchableFleets /\ r.deficit \in Int /\ r.hours \in Nat
    /\ \A r \in BackupRequests :
         /\ r.fleet \in DispatchableFleets /\ r.load \in Int /\ r.hours \in Nat
         /\ r.radius \in Int /\ \A i \in DOMAIN r.fleet : r.far[r.fleet[i].id] \in Int

ASSUME RankAssumption ==
    \A r \in RankRequests :
        /\ r.vehicle.pluggable \in BOOLEAN /\ r.hour \in 0..23 /\ r.solo \in BOOLEAN
        /\ r.candidates \in Seq([kind : {"charge", "swap"}, connector : STRING, status : STRING,
                                  distance : Nat, wait : Nat, cost : Nat, congestion : Nat,
                                  verified : Nat \cup {NeverVerified}, safety : 0..1000])

\* What some of the theorems ask of the requests and no endpoint checks: no vehicle is
\* in a list twice; and at a depot with a charger, all that the vehicles would do on
\* their own costs less than to leave one of them out (fleet_scheduler.py:18).
ListedOnce(fleet) == \A i, j \in DOMAIN fleet : fleet[i].id = fleet[j].id => i = j

PenaltyDominates(depot) ==
    /\ depot.power # <<>>
    /\ 10 * Downtime(depot, NaivePlan(depot)) + Peak(depot, NaivePlan(depot)) < 10 * UnservedPenalty

VARIABLE call           \* the request and the answer of the call in hand

NoCall == [endpoint |-> "none"]

Answer(endpoint, request, out) ==
    call' = [endpoint |-> endpoint, request |-> request, out |-> out]

\* optimize_charge_schedule; the solver may run out of time with any solution.
ChargePlan ==
    \E r \in ChargeRequests : \E s \in ChargeSchedules(r.target, r.horizon, r.ceiling, r.status) :
        Answer("charge", r, s)

FleetPlan ==
    \E r \in FleetRequests : \E plan \in FleetPlans(r.depot, r.status) : Answer("fleet", r, plan)

V2GDispatch ==
    \E r \in DispatchRequests : Answer("dispatch", r, DispatchV2G(r.fleet, r.deficit, r.hours))

BlackoutPlan ==
    \E r \in BackupRequests :
        Answer("backup", r, BackupPlan(r.load, r.fleet, r.far, r.radius, r.hours))

MiniGridReport ==
    \E r \in GridRequests :
        Answer("grid", r, SafeVehicleCount(r.capacity, r.power, r.share, r.margin))

SolarSync ==
    \E r \in SolarRequests :
        Answer("solar", r, RecommendedStart(r.now, r.duration, r.site, r.lookahead))

Recommendations ==
    \E r \in RankRequests : Answer("rank", r, RankCandidates(r.vehicle, r.candidates, r.hour, r.solo))

\* The sweep, and the stations it calls for at nameplate rating and derated by the
\* share of the fleet that is not in maintenance.
StressAnswer(r) ==
    LET report == SweepDensity(r.capacity, r.baseline, r.power, r.share, r.multipliers)
    IN [report |-> report,
        naive |-> AdditionalStations(report.additional, r.station, 100),
        derated |-> AdditionalStations(report.additional, r.station,
                                       AvailabilityRatio(r.total, r.maintenance))]

StressSweep == \E r \in StressRequests : Answer("stress", r, StressAnswer(r))

WhatIfAllEv ==
    \E r \in AllEvRequests :
        Answer("all_ev", r, AllEv(r.capacity, r.count, r.power, r.share, r.adoption, r.station))

ChargingAdvisory ==
    \E r \in AdviceRequests : Answer("advice", r, Advisory(r.weather, r.feeders, r.hour))

\* The caller has its answer.
Return == call # NoCall /\ call' = NoCall

PlannerInit == call = NoCall

PlannerNext ==
    \/ /\ call = NoCall
       /\ \/ ChargePlan
          \/ FleetPlan
          \/ V2GDispatch
          \/ BlackoutPlan
          \/ MiniGridReport
          \/ SolarSync
          \/ Recommendations
          \/ StressSweep
          \/ WhatIfAllEv
          \/ ChargingAdvisory
    \/ Return

PlannerSpec == PlannerInit /\ [][PlannerNext]_call

Answered(endpoint) == call # NoCall /\ call.endpoint = endpoint

-----------------------------------------------------------------------------
\* The cell is never hotter than the ceiling when a minute starts, and never by
\* more than a minute at full power when the schedule ends: the ceiling constrains
\* the temperature before each minute, not the one the last minute leads to
\* (charge_controller.py:88-93).
CeilingHoldsToTheLastMinute ==
    Answered("charge") =>
        LET r == call.request
            T == Temps(call.out)
        IN /\ \A i \in 0..(r.horizon - 1) : T[i] <= r.ceiling
           /\ T[r.horizon] <= r.ceiling + Max(PowerLevels) \div 20
           /\ \A i \in 0..r.horizon : T[i] >= Ambient

\* A schedule the solver proved optimal reaches the target no later than the naive
\* constant current does, costs the battery no more when it is as fast, and draws
\* nothing once the target is reached (tests/test_charge_controller.py:24-35, 67).
OptimalBeatsConstantCurrent ==
    Answered("charge") /\ call.request.status = "OPTIMAL" =>
        LET r == call.request
            mine == ToTarget(call.out, r.target)
            naive == ToTarget(NaiveSchedule(r.horizon, r.ceiling), r.target)
            reaches == Reached(NaiveSchedule(r.horizon, r.ceiling), r.target) # {}
        IN /\ reaches => /\ Reached(call.out, r.target) # {}
                         /\ mine.minutes <= naive.minutes
                         /\ mine.minutes = naive.minutes => mine.cost <= naive.cost
           /\ Reached(call.out, r.target) # {} =>
                \A i \in (mine.minutes + 1)..r.horizon : call.out[i] = 0

\* Whatever the solver answers with, no charger has two vehicles at a time, and the
\* depot draws more than its feeder's capacity by less than a kilowatt for each
\* vehicle that charges: the solver counts truncated ratings (fleet_scheduler.py:91, 97).
FeederIsExceededByTruncationOnly ==
    Answered("fleet") =>
        LET depot == call.request.depot
            plan == call.out
        IN \A t \in HourSlots(depot) :
             /\ Cardinality({plan[v].charger : v \in Charging(depot, plan, t)})
                  = Cardinality(Charging(depot, plan, t))
             /\ depot.feeder # NoFeeder =>
                  RealDraw(depot, plan, t)
                    <= depot.feeder + 9 * Cardinality(Charging(depot, plan, t))

\* An optimal plan without a feeder limit is no worse than the vehicles helping
\* themselves: it serves as many, and at equal service and downtime its peak is no
\* higher.  And no vehicle without priority is served in a place an emergency
\* vehicle that went without could have had (tests/test_fleet_scheduler.py:19-31, 48).
JointPlanIsNoWorse ==
    Answered("fleet") /\ call.request.status = "OPTIMAL" =>
        LET depot == call.request.depot
            plan == call.out
            naive == NaivePlan(depot)
            Weight(p) == SumFunction([v \in Served(depot, p) |-> Penalty(depot, v)])
        IN /\ depot.feeder = NoFeeder =>
                /\ Weight(naive) <= Weight(plan)
                /\ (Weight(naive) = Weight(plan) /\ Downtime(depot, naive) = Downtime(depot, plan))
                     => Peak(depot, plan) <= Peak(depot, naive)
           /\ \A e \in Vehicles(depot) \ Served(depot, plan), v \in Served(depot, plan) :
                (depot.vehicles[e].emergency /\ ~depot.vehicles[v].emergency) =>
                    RequiredSlots(depot, e, plan[v].charger) > Slots(depot, plan, v)

\* A dispatch leaves every vehicle its reserve and asks none beyond its limit, but
\* for the rounding of the answer, and covers the deficit or taps every eligible
\* vehicle (v2g_dispatch.py:55-56).
DispatchKeepsReserves ==
    Answered("dispatch") =>
        LET r == call.request
            Asked(v) == {i \in DOMAIN call.out : call.out[i].vehicle = v.id}
            fleet == {r.fleet[i] : i \in DOMAIN r.fleet}
            eligible == {v \in fleet : v.ready /\ v.soc > ReserveSoc}
            taps == SumFunction([v \in eligible |-> TapW(v, r.hours)])
        IN /\ \A v \in fleet : \A i \in Asked(v) :
                /\ v \in eligible
                /\ Cardinality(Asked(v)) = 1
                /\ call.out[i].wh * 1000 <= (v.soc - ReserveSoc) * v.capacity * 10000
                /\ call.out[i].w <= v.limit + 5
           /\ SumOf(call.out, "wh") = r.hours * Max({0, Min({r.deficit, taps})})

\* A backup plan that reports full coverage is short of the critical load by no more
\* than its two roundings; one that reports less allocates less than the load, and the
\* vehicles give no more than it allocates but for the first rounding.  No vehicle out
\* of the radius or without a position is asked (blackout_resilience.py:47-59).
CoverageIsHonest ==
    Answered("backup") /\ call.request.load > 0 =>
        LET r == call.request
            used == {call.out.allocations[i].vehicle : i \in DOMAIN call.out.allocations}
            given == SumOf(call.out.allocations, "wh") \div Max({1, r.hours})
            rounded == 5 * Cardinality(used)
        IN /\ call.out.coverage = SafeShare => given + rounded + r.load \div 2000 + 1 >= r.load
           /\ call.out.coverage < SafeShare =>
                call.out.total < r.load /\ given <= call.out.total + rounded
           /\ \A v \in used : r.far[v] \in 0..r.radius

\* The recommended start is in the lookahead window, no other start in it is
\* cheaper, and no earlier one as cheap; at a station whose generation covers the
\* load at noon an hour's session is put where the sun is, with all the day ahead
\* to choose from (solar_sync.py:3-8).
SolarWindowIsCheapest ==
    Answered("solar") =>
        LET r == call.request
            offset == (call.out - r.now + 24) % 24
        IN /\ offset < r.lookahead
           /\ \A o \in 0..(r.lookahead - 1) :
                LET cost == WindowCost((r.now + o) % 24, r.duration, r.site)
                IN IF o < offset
                   THEN cost > WindowCost(call.out, r.duration, r.site)
                   ELSE cost >= WindowCost(call.out, r.duration, r.site)
           /\ (r.lookahead = 24 /\ r.duration = 1 /\ r.site.solar
                 /\ r.site.load > 0 /\ r.site.peak >= r.site.load)
                => call.out \in 7..17

\* Only compatible candidates that are not offline are ranked, each once.  Of two
\* that differ only in when they were last verified the fresher is first, where one
\* that never was counts as verified 999 hours ago; at night alone, of two that
\* differ only in safety, the safer (recommendation.py:3-8, safety_score.py:3-5).
RankingTrustsTheVerified ==
    Answered("rank") =>
        LET r == call.request
            C(i) == r.candidates[call.out[i]]
            ranked == {call.out[i] : i \in DOMAIN call.out}
            Untimed(c) == [c EXCEPT !.verified = 0]
            Unsafe(c) == [c EXCEPT !.safety = 0]
            night == r.solo /\ r.hour \in 20..23 \cup 0..4
        IN /\ ranked = {i \in DOMAIN r.candidates :
                          LET c == r.candidates[i]
                          IN /\ c.status # "offline"
                             /\ c.kind = "swap" => r.vehicle.connector = SwapConnector
                             /\ c.kind = "charge" =>
                                  r.vehicle.pluggable /\ c.connector = r.vehicle.connector}
           /\ Len(call.out) = Cardinality(ranked)
           /\ \A i, j \in DOMAIN call.out : i < j =>
                /\ Untimed(C(i)) = Untimed(C(j)) =>
                     \/ C(i).verified \in 0..C(j).verified
                     \/ C(j).verified = NeverVerified /\ C(i).verified <= 999
                     \/ C(i).verified = NeverVerified /\ C(j).verified >= 999
                /\ (night /\ Unsafe(C(i)) = Unsafe(C(j))) => C(i).safety >= C(j).safety

\* Capacity reports hold what they promise.  The stations a sweep calls for carry
\* what it says is missing, at the availability it was given, none to spare, and a
\* fleet in maintenance never calls for fewer; a sweep has a breaking point exactly
\* when one of its levels overloads the feeder (event_stress_test.py:36-74).  Of the
\* vehicles a mini-grid's report allows each passes the headroom check in its turn,
\* and with one more the margin is gone (rural_minigrid.py:29-56).
CapacityReportsAddUp ==
    /\ Answered("stress") =>
         LET r == call.request
             o == call.out
             ratio == AvailabilityRatio(r.total, r.maintenance)
         IN /\ o.derated >= o.naive
            /\ o.naive * r.station >= o.report.additional
            /\ o.derated * r.station * ratio >= o.report.additional * 100
            /\ o.derated > 0 => (o.derated - 1) * r.station * ratio < o.report.additional * 100
            /\ (o.report.breaking = NoBreak) =
                 (\A m \in {r.multipliers[i] : i \in DOMAIN r.multipliers} :
                    StressLoad(CeilDiv(r.baseline * m, 100), r.power, r.share) <= r.capacity)
    /\ Answered("grid") /\ call.request.share = 100 /\ call.request.power > 0 =>
         LET r == call.request
         IN /\ \A n \in 1..call.out : RespectsHeadroom((n - 1) * r.power, r.capacity, r.power)
            /\ (call.out + 1) * r.power * 100 > r.capacity * r.margin

\* The advisory's level is that of the worst factor, taken alone: none of them is
\* diluted by the others (charging_advisor.py:9-12).
WorstFactorDecides ==
    Answered("advice") =>
        LET r == call.request
            alone == {WeatherFactor(r.weather, "good"), GridFactor(r.feeders, "good"),
                      TariffFactor(r.hour, "good")}
        IN LevelOrder[call.out] = Min({LevelOrder[l] : l \in alone})

=============================================================================
