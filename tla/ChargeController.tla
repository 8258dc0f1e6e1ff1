--------------------------- MODULE ChargeController ---------------------------
(***************************************************************************)
(* ml/charge_controller.py: a charge schedule is one power level a minute, *)
(* under a ceiling on the simulated cell temperature.  CP-SAT is modelled  *)
(* by its contract: it answers with a solution of the constraints, of the  *)
(* least cost when it had the time to prove that there is no better one.   *)
(* Powers are in kW, temperatures in tenths of a degree, energy in         *)
(* kW-minutes, as in the code.                                             *)
(***************************************************************************)
EXTENDS Integers, Sequences, SequencesExt

CONSTANT PowerLevels        \* the levels of POWER_LEVELS_KW an instance keeps

ASSUME PowerAssumption ==
    /\ PowerLevels \subseteq {0, 50, 100, 150, 200, 250, 300, 350, 400}
    /\ 0 \in PowerLevels

Ambient == 250
HotThreshold == 400
TargetWeight == 100000

NextTemp(t, power) == t + power \div 20 - (t - Ambient) \div 8

\* The cell's temperature before the first minute, and after each one.
Temps(s) ==
    LET T[i \in 0..Len(s)] == IF i = 0 THEN Ambient ELSE NextTemp(T[i - 1], s[i])
    IN T

\* What a minute at a power costs the battery: three times as much when it starts hot.
StepCost(t, power) ==
    ((power * power) \div 400) * (IF t > HotThreshold THEN 3 ELSE 1)

Cost(s, minutes) ==
    LET T == Temps(s) IN SumFunction([i \in 1..minutes |-> StepCost(T[i - 1], s[i])])

Cumulative(s, minutes) == SumFunctionOnSet(s, 1..minutes)

\* The minutes at whose end a schedule has delivered the target.
Reached(s, target) == {i \in 1..Len(s) : Cumulative(s, i) >= target}

\* A wrong Feasible: the last minute's ceiling is left out.
FeasibleToo(target, horizon, ceiling) ==
    {s \in [1..horizon -> PowerLevels] :
        /\ \A i \in 0..(horizon - 2) : Temps(s)[i] <= ceiling
        /\ Cumulative(s, horizon) <= 2 * target + 1000}

\* The ceiling binds the temperature each minute starts with, and the range of
\* the solver's variable the energy.
Feasible(target, horizon, ceiling) ==
    {s \in [1..horizon -> PowerLevels] :
        /\ \A i \in 0..(horizon - 1) : Temps(s)[i] <= ceiling
        /\ Cumulative(s, horizon) <= 2 * target + 1000}

\* A wrong Objective: reaching the target does not dominate the battery's cost.
ObjectiveUnhurried(s, target) ==
    (Len(s) - Cardinality(Reached(s, target))) + Cost(s, Len(s))

Objective(s, target) ==
    TargetWeight * (Len(s) - Cardinality(Reached(s, target))) + Cost(s, Len(s))

\* What the solver may answer with; it raises when there is no solution.
OptimalSchedules(target, horizon, ceiling) ==
    LET all == Feasible(target, horizon, ceiling)
        best == Min({Objective(s, target) : s \in all})
    IN {s \in all : Objective(s, target) = best}

ChargeSchedules(target, horizon, ceiling, status) ==
    CASE status = "OPTIMAL" -> OptimalSchedules(target, horizon, ceiling)
      [] status = "FEASIBLE" -> Feasible(target, horizon, ceiling)

\* The levels are tried upwards, up to the first one that breaches the ceiling.
NaiveSchedule(horizon, ceiling) ==
    LET Constant(level) == [i \in 1..horizon |-> level]
        Safe(level) == \A i \in 1..horizon : Temps(Constant(level))[i] <= ceiling
        passed == {l \in PowerLevels : \A k \in PowerLevels : k <= l => Safe(k)}
    IN Constant(Max(passed \cup {0}))

\* A schedule's minutes and cost up to the target, over its whole length when it
\* never gets there.
ToTarget(s, target) ==
    LET minutes == IF Reached(s, target) = {} THEN Len(s) ELSE Min(Reached(s, target))
    IN [minutes |-> minutes, cost |-> Cost(s, minutes)]

=============================================================================
