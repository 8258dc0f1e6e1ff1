------------------------------ MODULE GridPlans -------------------------------
(***************************************************************************)
(* The grid's planning functions: V2G dispatch (ml/v2g_dispatch.py) and    *)
(* the blackout plans on top of it (ml/blackout_resilience.py), the rural  *)
(* mini-grid (ml/rural_minigrid.py), solar-synced charging                 *)
(* (ml/solar_sync.py) and the stress test (ml/event_stress_test.py).       *)
(* Numbers are integers in a unit in which the instance's inputs divide    *)
(* exactly: W and Wh for power and energy, percent or permille for ratios. *)
(***************************************************************************)
EXTENDS Integers, Sequences, SequencesExt, Orders

NoBreak == 0
SafeShare == 1000

CeilDiv(a, b) == (a + b - 1) \div b

\* Python's round to a multiple of unit, half to even.
RoundTo(n, unit) ==
    LET q == n \div unit
        twice == 2 * (n % unit)
    IN unit * (IF twice > unit \/ (twice = unit /\ q % 2 = 1) THEN q + 1 ELSE q)

-----------------------------------------------------------------------------
\* V2G dispatch.  A vehicle: [id, ready, soc, capacity (kWh), limit (W)], where
\* ready is the conjunction of the four flags.

ReserveSoc == 30

IsEligible(v) == v.ready /\ v.soc > ReserveSoc

\* A wrong AvailableWh: the owner's reserve is given away.
AvailableWhToEmpty(v) == v.soc * v.capacity * 10

AvailableWh(v) == (v.soc - ReserveSoc) * v.capacity * 10

\* What a vehicle can give for so many hours.
TapW(v, hours) ==
    Min({v.limit, IF hours > 0 THEN AvailableWh(v) \div hours ELSE 0})

\* The fullest vehicle first, in the order of the list among equals.
FullestFirst(fleet) ==
    {p \in (DOMAIN fleet) \X (DOMAIN fleet) :
        \/ fleet[p[1]].soc > fleet[p[2]].soc
        \/ fleet[p[1]].soc = fleet[p[2]].soc /\ p[1] < p[2]}

DispatchOrder(fleet) == InOrder({i \in DOMAIN fleet : IsEligible(fleet[i])}, FullestFirst(fleet))

\* What each vehicle of the order is asked for, before it is rounded for the
\* answer: left[n] is the deficit after the first n.
Discharges(fleet, deficit, hours) ==
    LET order == DispatchOrder(fleet)
        D[n \in 0..Len(order)] ==
          IF n = 0 THEN [left |-> deficit, given |-> <<>>]
          ELSE LET before == D[n - 1]
                   give == Min({TapW(fleet[order[n]], hours), before.left})
               IN IF before.left <= 0 \/ give <= 0 THEN before
                  ELSE [left |-> before.left - give,
                        given |-> Append(before.given, [vehicle |-> fleet[order[n]].id, w |-> give])]
    IN D[Len(order)].given

\* The answer: power to 10 W, energy to 1 Wh, eight rupees a kWh to the paisa.
DispatchV2G(fleet, deficit, hours) ==
    LET given == Discharges(fleet, deficit, hours)
    IN [i \in DOMAIN given |->
          [vehicle |-> given[i].vehicle, w |-> RoundTo(given[i].w, 10),
           wh |-> given[i].w * hours, paise |-> RoundTo(8 * given[i].w * hours, 10) \div 10]]

SumOf(s, field) == SumFunction([i \in DOMAIN s |-> s[i][field]])

\* The vehicles of a set of positions, in the order of the list.
Among(fleet, near) ==
    LET order == InOrder(near, {p \in near \X near : p[1] < p[2]})
    IN [n \in 1..Cardinality(near) |-> fleet[order[n]]]

\* A wrong NearbyVehicles: a vehicle without a position counts as near.
NearbyOrUnknown(fleet, far, radius) ==
    Among(fleet, {i \in DOMAIN fleet : far[fleet[i].id] <= radius})

\* A backup plan for a critical load: the dispatch over the vehicles whose
\* position is known and within the radius (far is a vehicle's distance, or -1).
NearbyVehicles(fleet, far, radius) ==
    Among(fleet, {i \in DOMAIN fleet : far[fleet[i].id] \in 0..radius})

BackupPlan(load, fleet, far, radius, hours) ==
    LET allocations == DispatchV2G(NearbyVehicles(fleet, far, radius), load, hours)
        total == SumOf(allocations, "w")
    IN [allocations |-> allocations, total |-> total,
        coverage |-> IF load <= 0 THEN SafeShare
                     ELSE Min({SafeShare, RoundTo(total * 1000, load) \div load})]

-----------------------------------------------------------------------------
\* A mini-grid's capacity: how many vehicles may charge at once, with the margin
\* and the share that charges simultaneously in percent, and the check one more
\* charger has to pass.

SafeVehicleCount(capacity, power, share, margin) ==
    IF power * share <= 0 THEN 0 ELSE Max({0, (capacity * margin) \div (power * share)})

RespectsHeadroom(load, capacity, power) == load + power <= capacity

-----------------------------------------------------------------------------
\* Solar-synced charging.  The sine of the generation curve is a table, in permille.

SolarShape == <<259, 500, 707, 866, 966, 1000, 966, 866, 707, 500, 259>>
Sunrise == 6
Sunset == 18

SolarGeneration(hour, peak) ==
    IF hour <= Sunrise \/ hour >= Sunset THEN 0 ELSE (peak * SolarShape[hour - Sunrise]) \div 1000

\* Paise a kWh by the hour of the day.
TariffAt(hour) ==
    CASE hour \in 0..5 -> 500
      [] hour \in 18..21 -> 950
      [] OTHER -> 800

\* The price of a session's hour, in thousandths of a paisa.
EffectiveCost(hour, site) ==
    TariffAt(hour) *
      (IF site.solar /\ site.load > 0
       THEN 1000 - Min({1000, (SolarGeneration(hour, site.peak) * 1000) \div site.load})
       ELSE 1000)

WindowCost(start, duration, site) ==
    SumFunction([h \in 0..(duration - 1) |-> EffectiveCost((start + h) % 24, site)])

\* A wrong RecommendedStart: the last of the cheapest starts (<= for <).
RecommendedLast(now, duration, site, lookahead) ==
    LET CostAt(offset) == WindowCost((now + offset) % 24, duration, site)
        cheapest == Min({CostAt(o) : o \in 0..(lookahead - 1)})
    IN (now + Max({o \in 0..(lookahead - 1) : CostAt(o) = cheapest})) % 24

\* The first of the cheapest starts, looking ahead from the current hour.
RecommendedStart(now, duration, site, lookahead) ==
    LET CostAt(offset) == WindowCost((now + offset) % 24, duration, site)
        cheapest == Min({CostAt(o) : o \in 0..(lookahead - 1)})
    IN (now + Min({o \in 0..(lookahead - 1) : CostAt(o) = cheapest})) % 24

-----------------------------------------------------------------------------
\* The stress test: loads in W, multipliers and ratios in percent.

StressLoad(count, power, share) == (count * share * power) \div 100

SweepDensity(capacity, baseline, power, share, multipliers) ==
    LET results == [i \in DOMAIN multipliers |->
                      LET count == CeilDiv(baseline * multipliers[i], 100)
                          load == StressLoad(count, power, share)
                      IN [count |-> count, load |-> RoundTo(load, 10), overloaded |-> load > capacity]]
        broken == {i \in DOMAIN results : results[i].overloaded}
        peak == Max({0} \cup {results[i].load : i \in DOMAIN results})
    IN [results |-> results,
        breaking |-> IF broken = {} THEN NoBreak ELSE multipliers[Min(broken)],
        additional |-> RoundTo(Max({0, peak - capacity}), 10)]

\* The share of the chargers that are not in maintenance, never below one percent.
AvailabilityRatio(total, maintenance) ==
    IF total = 0 THEN 100 ELSE Max({1, ((total - maintenance) * 100) \div total})

\* A wrong AdditionalStations: a started station is not built.
AdditionalStationsFloor(additional, station, ratio) ==
    IF additional <= 0 THEN 0 ELSE (additional * 100) \div (station * ratio)

AdditionalStations(additional, station, ratio) ==
    IF additional <= 0 THEN 0 ELSE CeilDiv(additional * 100, station * ratio)

\* Everyone drives an EV: the population that today's count and adoption imply.
AllEv(capacity, count, power, share, adoption, station) ==
    LET report == SweepDensity(capacity, count, power, share, <<100, 10000 \div adoption>>)
        all == report.results[2]
    IN [count |-> all.count, load |-> all.load,
        stations |-> AdditionalStations(Max({0, all.load - capacity}), station, 100)]

=============================================================================
