---------------------------- MODULE FleetScheduler ----------------------------
(***************************************************************************)
(* ml/fleet_scheduler.py: vehicles of a depot are given a charger and a    *)
(* start slot each, jointly by CP-SAT (modelled by its contract, as in     *)
(* ChargeController) or one after the other by the naive baseline.         *)
(* A depot is a record: a sequence of vehicles [energy, emergency], a      *)
(* sequence of charger powers, the horizon in slots of an hour, and the    *)
(* feeder's capacity.  Energy and power are in tenths, so that a rating    *)
(* like 3.3 kW and its truncation to 3 are both there.                     *)
(***************************************************************************)
EXTENDS Integers, Sequences, SequencesExt

Unserved == [charger |-> 0, start |-> 0]
NoFeeder == -1
UnservedPenalty == 1000

Vehicles(depot) == DOMAIN depot.vehicles
Chargers(depot) == DOMAIN depot.power

RequiredSlots(depot, v, c) ==
    Max({1, (depot.vehicles[v].energy + depot.power[c] - 1) \div depot.power[c]})

\* The charger and start slot a vehicle may be given.
Placements(depot, v) ==
    {Unserved} \cup
    UNION {{[charger |-> c, start |-> t] : t \in 0..(depot.horizon - RequiredSlots(depot, v, c))} :
             c \in Chargers(depot)}

Served(depot, plan) == {v \in Vehicles(depot) : plan[v] # Unserved}
Slots(depot, plan, v) == RequiredSlots(depot, v, plan[v].charger)

Charging(depot, plan, slot) ==
    {v \in Served(depot, plan) :
        plan[v].start <= slot /\ slot < plan[v].start + Slots(depot, plan, v)}

\* The solver counts whole kilowatts, the depot draws what the chargers are rated.
WholeDraw(depot, plan, slot) ==
    SumFunction([v \in Charging(depot, plan, slot) |-> depot.power[plan[v].charger] \div 10])
RealDraw(depot, plan, slot) ==
    SumFunction([v \in Charging(depot, plan, slot) |-> depot.power[plan[v].charger]])

HourSlots(depot) == 0..(depot.horizon - 1)
Peak(depot, plan) == Max({0} \cup {WholeDraw(depot, plan, t) : t \in HourSlots(depot)})

\* A wrong NoOverlap: only vehicles that start together collide.
NoOverlapAtStart(depot, plan) ==
    \A t \in HourSlots(depot) : \A v, w \in Charging(depot, plan, t) :
        plan[v] = plan[w] => v = w

NoOverlap(depot, plan) ==
    \A t \in HourSlots(depot) : \A v, w \in Charging(depot, plan, t) :
        plan[v].charger = plan[w].charger => v = w

FeasiblePlans(depot) ==
    LET all == {plan \in [Vehicles(depot) -> UNION {Placements(depot, v) : v \in Vehicles(depot)}] :
                  \A v \in Vehicles(depot) : plan[v] \in Placements(depot, v)}
    IN {plan \in all :
          /\ NoOverlap(depot, plan)
          /\ depot.feeder # NoFeeder => Peak(depot, plan) <= depot.feeder \div 10}

Downtime(depot, plan) == SumFunction([v \in Served(depot, plan) |-> Slots(depot, plan, v)])

\* A wrong Penalty: an emergency vehicle counts like any other.
PenaltyUnweighted(depot, v) == UnservedPenalty

Penalty(depot, v) == (IF depot.vehicles[v].emergency THEN 3 ELSE 1) * UnservedPenalty

PlanCost(depot, plan) ==
    10 * (Downtime(depot, plan)
            + SumFunction([v \in Vehicles(depot) \ Served(depot, plan) |-> Penalty(depot, v)]))
      + Peak(depot, plan)

OptimalPlans(depot) ==
    LET all == FeasiblePlans(depot)
        best == Min({PlanCost(depot, plan) : plan \in all})
    IN {plan \in all : PlanCost(depot, plan) = best}

FleetPlans(depot, status) ==
    CASE status = "OPTIMAL" -> OptimalPlans(depot)
      [] status = "FEASIBLE" -> FeasiblePlans(depot)

\* Each vehicle takes the charger that is free first, or goes without: free[n] is
\* when each charger is free, and plan what it decided, after the first n vehicles.
NaivePlan(depot) ==
    LET N[n \in 0..Len(depot.vehicles)] ==
          IF n = 0 THEN [free |-> [c \in Chargers(depot) |-> 0], plan |-> <<>>]
          ELSE LET before == N[n - 1]
                   soonest == Min({before.free[c] : c \in Chargers(depot)})
                   charger == Min({c \in Chargers(depot) : before.free[c] = soonest})
                   end == soonest + RequiredSlots(depot, n, charger)
               IN IF end > depot.horizon
                  THEN [before EXCEPT !.plan = Append(@, Unserved)]
                  ELSE [free |-> [before.free EXCEPT ![charger] = end],
                        plan |-> Append(before.plan, [charger |-> charger, start |-> soonest])]
    IN N[Len(depot.vehicles)].plan

=============================================================================
