---------------------------- MODULE PlannerProofs ----------------------------
(***************************************************************************)
(* Machine-checked proofs about the answers of the optimisers and          *)
(* advisers, for every request.                                            *)
(***************************************************************************)
EXTENDS Planner, Sums, FiniteSetTheorems, TLAPS

Made(endpoint, request, out) ==
    call = [endpoint |-> endpoint, request |-> request, out |-> out]

\* The answer in hand, if any, is one that the request's function gives.
PlannerInv ==
    \/ call = NoCall
    \/ \E r \in ChargeRequests :
         \E s \in ChargeSchedules(r.target, r.horizon, r.ceiling, r.status) : Made("charge", r, s)
    \/ \E r \in FleetRequests : \E plan \in FleetPlans(r.depot, r.status) : Made("fleet", r, plan)
    \/ \E r \in DispatchRequests : Made("dispatch", r, DispatchV2G(r.fleet, r.deficit, r.hours))
    \/ \E r \in BackupRequests :
         Made("backup", r, BackupPlan(r.load, r.fleet, r.far, r.radius, r.hours))
    \/ \E r \in GridRequests :
         Made("grid", r, SafeVehicleCount(r.capacity, r.power, r.share, r.margin))
    \/ \E r \in SolarRequests :
         Made("solar", r, RecommendedStart(r.now, r.duration, r.site, r.lookahead))
    \/ \E r \in RankRequests :
         Made("rank", r, RankCandidates(r.vehicle, r.candidates, r.hour, r.solo))
    \/ \E r \in StressRequests : Made("stress", r, StressAnswer(r))
    \/ \E r \in AllEvRequests :
         Made("all_ev", r, AllEv(r.capacity, r.count, r.power, r.share, r.adoption, r.station))
    \/ \E r \in AdviceRequests : Made("advice", r, Advisory(r.weather, r.feeders, r.hour))

\* No answer is kept from one request to the next.
THEOREM AnswersAreTheRequests == PlannerSpec => []PlannerInv
<1>1. PlannerInit => PlannerInv
  BY DEF PlannerInit, PlannerInv
<1>2. PlannerInv /\ [PlannerNext]_call => PlannerInv'
  <2>1. CASE UNCHANGED call
    BY <2>1 DEF PlannerInv, Made
  <2>2. CASE PlannerNext
    BY <2>2, Zenon DEF PlannerNext, PlannerInv, Made, Answer, ChargePlan, FleetPlan, V2GDispatch,
       BlackoutPlan, MiniGridReport, SolarSync, Recommendations, StressSweep, WhatIfAllEv,
       ChargingAdvisory, Return
  <2> QED BY <2>1, <2>2
<1> QED BY <1>1, <1>2, PTL DEF PlannerSpec

-----------------------------------------------------------------------------
(***************************************************************************)
(* The charging advisory                                                   *)
(***************************************************************************)

\* Each factor alone is a level, and lowers a level exactly to the worse of the two.
LEMMA FactorsDowngrade ==
    ASSUME NEW weather, NEW feeders, NEW hour, NEW level \in {"good", "fair", "poor"}
    PROVE  /\ WeatherFactor(weather, "good") \in {"good", "fair", "poor"}
           /\ GridFactor(feeders, "good") \in {"good", "fair", "poor"}
           /\ TariffFactor(hour, "good") \in {"good", "fair", "poor"}
           /\ WeatherFactor(weather, level) = Downgrade(level, WeatherFactor(weather, "good"))
           /\ GridFactor(feeders, level) = Downgrade(level, GridFactor(feeders, "good"))
           /\ TariffFactor(hour, level) = Downgrade(level, TariffFactor(hour, "good"))
BY DEF WeatherFactor, GridFactor, TariffFactor, Downgrade, LevelOrder

LEMMA WorstOfThree ==
    ASSUME NEW a \in {"good", "fair", "poor"}, NEW b \in {"good", "fair", "poor"},
           NEW c \in {"good", "fair", "poor"}
    PROVE  LevelOrder[Downgrade(Downgrade(a, b), c)] = Min({LevelOrder[l] : l \in {a, b, c}})
<1>1. PICK d : d = Downgrade(Downgrade(a, b), c)
  OBVIOUS
<1>2. /\ d \in {a, b, c}
      /\ \A l \in {a, b, c} : LevelOrder[d] <= LevelOrder[l]
  BY <1>1 DEF Downgrade, LevelOrder
<1>3. \A l \in {a, b, c} : LevelOrder[l] \in Int
  BY DEF LevelOrder
<1>4. PICK S : S = {LevelOrder[l] : l \in {a, b, c}}
  OBVIOUS
<1>5. LevelOrder[d] \in S /\ \A n \in S : n \in Int /\ LevelOrder[d] <= n
  BY <1>2, <1>3, <1>4
<1>6. Min(S) = LevelOrder[d]
  BY <1>5 DEF Min
<1> QED BY <1>1, <1>4, <1>6

LEMMA AdviceInHand ==
    ASSUME PlannerInv, Answered("advice")
    PROVE  \E r \in AdviceRequests : Made("advice", r, Advisory(r.weather, r.feeders, r.hour))
BY DEF PlannerInv, Answered, Made, NoCall

\* The advisory's level is the worst factor's, whatever the weather, the feeders and
\* the hour.
THEOREM WorstFactorIsKept == PlannerSpec => []WorstFactorDecides
<1>1. PlannerInv => WorstFactorDecides
  <2>1. SUFFICES ASSUME PlannerInv, Answered("advice") PROVE WorstFactorDecides
    BY DEF WorstFactorDecides
  <2>2. PICK r \in AdviceRequests : Made("advice", r, Advisory(r.weather, r.feeders, r.hour))
    BY <2>1, AdviceInHand
  <2>3. PICK a \in {"good", "fair", "poor"} : a = WeatherFactor(r.weather, "good")
    BY FactorsDowngrade
  <2>4. PICK b \in {"good", "fair", "poor"} : b = GridFactor(r.feeders, "good")
    BY FactorsDowngrade
  <2>5. PICK c \in {"good", "fair", "poor"} : c = TariffFactor(r.hour, "good")
    BY FactorsDowngrade
  <2>6. Downgrade(a, b) \in {"good", "fair", "poor"}
    BY DEF Downgrade
  <2>7. Advisory(r.weather, r.feeders, r.hour) = Downgrade(Downgrade(a, b), c)
    BY <2>3, <2>4, <2>5, <2>6, FactorsDowngrade DEF Advisory
  <2>8. LevelOrder[Downgrade(Downgrade(a, b), c)] = Min({LevelOrder[l] : l \in {a, b, c}})
    BY WorstOfThree
  <2>9. call.request = r /\ call.out = Downgrade(Downgrade(a, b), c)
    BY <2>2, <2>7 DEF Made
  <2> QED BY <2>3, <2>4, <2>5, <2>8, <2>9 DEF WorstFactorDecides
<1> QED BY <1>1, AnswersAreTheRequests, PTL

-----------------------------------------------------------------------------
(***************************************************************************)
(* The charge controller                                                   *)
(***************************************************************************)

\* What Temps defines recursively.
Heats(s, n, T) == T = [i \in 0..n |-> IF i = 0 THEN Ambient ELSE NextTemp(T[i - 1], s[i])]

\* A schedule has a temperature before its first minute and after each of them.
LEMMA TempsExist ==
    ASSUME NEW s, NEW n \in Nat
    PROVE  \E T : Heats(s, n, T)
<1>1. PICK B : B = {m \in Nat : ~ \E T : Heats(s, m, T)}
  OBVIOUS
<1>2. SUFFICES ASSUME B # {} PROVE FALSE
  BY <1>1, <1>2
<1>3. PICK m \in B : \A k \in B : m <= k
  BY <1>1, <1>2, LeastNumber
<1>4. m # 0
  <2>1. Heats(s, 0, [i \in 0..0 |-> Ambient])
    BY DEF Heats
  <2> QED BY <1>1, <2>1
<1>5. m - 1 \in Nat /\ m - 1 \notin B
  BY <1>1, <1>3, <1>4
<1>6. PICK T : Heats(s, m - 1, T)
  BY <1>1, <1>5
<1>7. PICK U : U = [i \in 0..m |-> IF i = m THEN NextTemp(T[m - 1], s[m]) ELSE T[i]]
  OBVIOUS
<1>8. ASSUME NEW i \in 0..m
      PROVE  U[i] = IF i = 0 THEN Ambient ELSE NextTemp(U[i - 1], s[i])
  <2>1. CASE i = m
    <3>1. U[i] = NextTemp(T[i - 1], s[i]) /\ i - 1 \in 0..m /\ i - 1 # m
      BY <1>1, <1>4, <1>7, <2>1
    <3>2. U[i - 1] = T[i - 1]
      BY <1>7, <3>1
    <3> QED BY <1>4, <2>1, <3>1, <3>2
  <2>2. CASE i = 0
    <3>1. i \in 0..(m - 1)
      BY <1>5, <2>2
    <3>2. T[i] = Ambient
      BY <1>6, <2>2, <3>1 DEF Heats
    <3> QED BY <1>4, <1>7, <2>2, <3>2
  <2>3. CASE i # m /\ i # 0
    <3>1. i \in 0..(m - 1) /\ i - 1 \in 0..m /\ i - 1 # m
      BY <1>1, <2>3
    <3>2. T[i] = NextTemp(T[i - 1], s[i])
      BY <1>6, <2>3, <3>1 DEF Heats
    <3>3. U[i] = T[i] /\ U[i - 1] = T[i - 1]
      BY <1>7, <2>3, <3>1
    <3> QED BY <2>3, <3>2, <3>3
  <2> QED BY <2>1, <2>2, <2>3
<1>9. Heats(s, m, U)
  BY <1>7, <1>8 DEF Heats
<1> QED BY <1>1, <1>9

LEMMA TempsAre ==
    ASSUME NEW n \in Nat, NEW s \in [1..n -> PowerLevels]
    PROVE  /\ Len(s) = n
           /\ Heats(s, n, Temps(s))
<1>1. Len(s) = n
  OBVIOUS
<1>2. PICK T : T = Temps(s)
  OBVIOUS
<1>3. T = CHOOSE U : Heats(s, n, U)
  BY <1>1, <1>2 DEF Temps, Heats
<1> QED BY <1>1, <1>2, <1>3, TempsExist

\* A minute warms a cell that is no colder than the air, or leaves it no colder.
LEMMA NextIsNoColder ==
    ASSUME NEW t \in Int, t >= Ambient, NEW p \in Nat
    PROVE  /\ NextTemp(t, p) \in Int
           /\ NextTemp(t, p) >= Ambient
           /\ NextTemp(t, p) <= t + p \div 20
BY DEF NextTemp, Ambient

LEMMA PowersAreSmall == \A p \in PowerLevels : p \in 0..400 /\ p \in Nat
BY PowerAssumption

LEMMA TempsAreWarm ==
    ASSUME NEW n \in Nat, NEW s \in [1..n -> PowerLevels]
    PROVE  /\ Temps(s)[0] = Ambient
           /\ \A i \in 1..n : Temps(s)[i] = NextTemp(Temps(s)[i - 1], s[i])
           /\ \A i \in 0..n : Temps(s)[i] \in Int /\ Temps(s)[i] >= Ambient
<1>1. PICK T : T = Temps(s) /\ Heats(s, n, T)
  BY TempsAre
<1>2. T[0] = Ambient
  <2>1. 0 \in 0..n
    OBVIOUS
  <2> QED BY <1>1, <2>1 DEF Heats
<1>3. ASSUME NEW i \in 1..n PROVE T[i] = NextTemp(T[i - 1], s[i])
  <2>1. i \in 0..n /\ i # 0
    OBVIOUS
  <2> QED BY <1>1, <2>1 DEF Heats
<1>4. PICK B : B = {i \in 0..n : ~(T[i] \in Int /\ T[i] >= Ambient)}
  OBVIOUS
<1>5. ASSUME B # {} PROVE FALSE
  <2>0. B \in SUBSET Nat /\ \A i \in 0..n : i \notin B => T[i] \in Int /\ T[i] >= Ambient
    BY <1>4
  <2>1. PICK m \in B : \A k \in B : m <= k
    BY <1>5, <2>0, LeastNumber
  <2>2. m # 0
    BY <1>2, <1>4, <2>1 DEF Ambient
  <2>3. m - 1 \in 0..n /\ m \in 1..n /\ m - 1 \notin B
    BY <1>4, <2>1, <2>2
  <2>4. T[m - 1] \in Int /\ T[m - 1] >= Ambient
    BY <2>0, <2>3, Zenon
  <2>5. s[m] \in Nat
    <3>1. s[m] \in PowerLevels
      BY <2>3
    <3> QED BY <3>1, PowersAreSmall, Zenon
  <2>6. T[m] \in Int /\ T[m] >= Ambient
    BY <1>3, <2>3, <2>4, <2>5, NextIsNoColder
  <2> QED BY <1>4, <2>1, <2>6
<1> QED BY <1>1, <1>2, <1>3, <1>4, <1>5

\* A finite set of numbers that is not empty has a greatest and a least.
LEMMA Extremes ==
    ASSUME NEW S \in SUBSET Int, IsFiniteSet(S), S # {}
    PROVE  /\ Max(S) \in S /\ \A n \in S : n <= Max(S)
           /\ Min(S) \in S /\ \A n \in S : Min(S) <= n
<1>1. PICK P : P = {T \in SUBSET S : T # {} =>
            /\ \E m \in T : \A n \in T : n <= m
            /\ \E m \in T : \A n \in T : m <= n}
  OBVIOUS
<1>2. ASSUME NEW T \in SUBSET S, \A U \in SUBSET T : U # T => U \in P PROVE T \in P
  <2>1. SUFFICES ASSUME T # {} PROVE T \in P
    BY <1>1
  <2>2. PICK c \in T : TRUE
    BY <2>1
  <2>3. PICK U : U = T \ {c}
    OBVIOUS
  <2>4. U \in P
    BY <1>2, <2>3
  <2>5. CASE U = {}
    <3>1. \A n \in T : n = c
      BY <2>3, <2>5
    <3>2. \A n \in T : n <= c /\ c <= n
      BY <3>1
    <3> QED BY <1>1, <3>2
  <2>6. CASE U # {}
    <3>1. PICK a \in U, b \in U : \A n \in U : n <= a /\ b <= n
      BY <1>1, <2>4, <2>6
    <3>2. a \in T /\ b \in T
      BY <2>3
    <3>3. \E m \in T : \A n \in T : n <= m
      BY <2>3, <3>1, <3>2
    <3>4. \E m \in T : \A n \in T : m <= n
      BY <2>3, <3>1, <3>2
    <3> QED BY <1>1, <3>3, <3>4
  <2> QED BY <2>5, <2>6
<1>3. S \in P
  BY <1>2, BySubsets
<1>4. /\ \E m \in S : \A n \in S : m >= n
      /\ \E m \in S : \A n \in S : m <= n
  BY <1>1, <1>3
<1>5. Max(S) \in S /\ \A n \in S : Max(S) >= n
  BY <1>4 DEF Max
<1>6. Min(S) \in S /\ \A n \in S : Min(S) <= n
  BY <1>4 DEF Min
<1> QED BY <1>5, <1>6

LEMMA LevelsAreFew ==
    /\ PowerLevels \in SUBSET Int /\ 0 \in PowerLevels
    /\ IsFiniteSet(PowerLevels)
<1>1. PICK S : S = PowerLevels
  OBVIOUS
<1>2. S \in SUBSET (0..400) /\ 0 \in S
  <2>1. 0 \in S
    BY <1>1, PowerAssumption, Zenon
  <2>2. \A p \in S : p \in 0..400
    BY <1>1, PowersAreSmall, Zenon
  <2> QED BY <2>1, <2>2
<1>3. IsFiniteSet(0..400)
  <2>1. PICK a \in Int, b \in Int : a = 0 /\ b = 400
    OBVIOUS
  <2>2. IsFiniteSet(a..b)
    BY FS_Interval
  <2> QED BY <2>1, <2>2
<1>4. IsFiniteSet(S)
  BY <1>2, <1>3, FS_Subset, ZenonT(30)
<1>5. S \in SUBSET Int
  BY <1>2
<1> QED BY <1>1, <1>2, <1>4, <1>5

LEMMA MostPower ==
    /\ Max(PowerLevels) \in 0..400
    /\ \A p \in PowerLevels : p <= Max(PowerLevels)
<1>1. PICK S : S = PowerLevels
  OBVIOUS
<1>2. S \in SUBSET Int /\ S # {} /\ IsFiniteSet(S)
  BY <1>1, LevelsAreFew
<1>3. Max(S) \in S /\ \A n \in S : n <= Max(S)
  BY <1>2, Extremes
<1>4. Max(S) \in 0..400
  BY <1>1, <1>3, PowersAreSmall
<1> QED BY <1>1, <1>3, <1>4

LEMMA ChargeInHand ==
    ASSUME PlannerInv, Answered("charge")
    PROVE  \E r \in ChargeRequests :
             /\ \E s \in ChargeSchedules(r.target, r.horizon, r.ceiling, r.status) :
                    Made("charge", r, s)
             /\ r.horizon \in Nat \ {0} /\ r.target \in Nat /\ r.ceiling \in Int
BY ChargeAssumption DEF PlannerInv, Answered, Made, NoCall

\* Whether it is optimal or not, a schedule is one the constraints allow.
LEMMA SchedulesAreFeasible ==
    ASSUME NEW r \in ChargeRequests
    PROVE  ChargeSchedules(r.target, r.horizon, r.ceiling, r.status)
             \subseteq Feasible(r.target, r.horizon, r.ceiling)
<1>1. r.status = "OPTIMAL" \/ r.status = "FEASIBLE"
  BY ChargeAssumption
<1>2. CASE r.status = "OPTIMAL"
  BY <1>2 DEF ChargeSchedules, OptimalSchedules
<1>3. CASE r.status = "FEASIBLE"
  BY <1>3 DEF ChargeSchedules
<1> QED BY <1>1, <1>2, <1>3

\* Whatever the solver answers with, the ceiling is exceeded by the last minute only,
\* and by no more than that minute's heat at full power.
THEOREM CeilingIsKept == PlannerSpec => []CeilingHoldsToTheLastMinute
<1>1. PlannerInv => CeilingHoldsToTheLastMinute
  <2>1. SUFFICES ASSUME PlannerInv, Answered("charge") PROVE CeilingHoldsToTheLastMinute
    BY DEF CeilingHoldsToTheLastMinute
  <2>2. PICK r \in ChargeRequests :
          /\ \E s \in ChargeSchedules(r.target, r.horizon, r.ceiling, r.status) :
                Made("charge", r, s)
          /\ r.horizon \in Nat \ {0} /\ r.target \in Nat /\ r.ceiling \in Int
    BY <2>1, ChargeInHand
  <2>3. PICK s \in Feasible(r.target, r.horizon, r.ceiling) : Made("charge", r, s)
    BY <2>2, SchedulesAreFeasible
  <2>4. PICK h \in Nat \ {0} : h = r.horizon
    BY <2>2
  <2>5. s \in [1..h -> PowerLevels] /\ \A i \in 0..(h - 1) : Temps(s)[i] <= r.ceiling
    BY <2>3, <2>4 DEF Feasible
  <2>6. PICK T : T = Temps(s)
    OBVIOUS
  <2>7. /\ \A i \in 1..h : T[i] = NextTemp(T[i - 1], s[i])
        /\ \A i \in 0..h : T[i] \in Int /\ T[i] >= Ambient
    BY <2>5, <2>6, TempsAreWarm
  <2>8. T[h] <= r.ceiling + Max(PowerLevels) \div 20
    <3>1. h \in 1..h /\ h - 1 \in 0..(h - 1) /\ h - 1 \in 0..h
      OBVIOUS
    <3>2. T[h - 1] <= r.ceiling /\ T[h - 1] \in Int /\ T[h - 1] >= Ambient
      BY <2>5, <2>6, <2>7, <3>1
    <3>3. s[h] \in PowerLevels
      BY <2>5, <3>1
    <3>4. s[h] \in 0..400
      BY <3>3, PowersAreSmall
    <3>5. PICK M \in 0..400 : M = Max(PowerLevels) /\ s[h] <= M
      BY <3>3, MostPower
    <3>6. T[h] = NextTemp(T[h - 1], s[h])
      BY <2>7, <3>1
    <3>7. PICK t, p : t = T[h - 1] /\ p = s[h]
      OBVIOUS
    <3>70. t \in Int /\ t >= Ambient /\ p \in 0..400
      BY <3>2, <3>4, <3>7, Zenon
    <3>8. T[h] \in Int /\ T[h] <= t + p \div 20
      <4>1. p \in Nat
        BY <3>70
      <4>2. NextTemp(t, p) \in Int /\ NextTemp(t, p) <= t + p \div 20
        BY <3>70, <4>1, NextIsNoColder
      <4> QED BY <3>6, <3>7, <4>2, Zenon
    <3>9. p \div 20 <= M \div 20
      BY <3>5, <3>7, <3>70
    <3>10. t <= r.ceiling
      BY <3>2, <3>7, Zenon
    <3> QED BY <2>2, <3>5, <3>7, <3>70, <3>8, <3>9, <3>10
  <2>9. call.request = r /\ call.out = s
    BY <2>3 DEF Made
  <2> QED BY <2>4, <2>5, <2>6, <2>7, <2>8, <2>9 DEF CeilingHoldsToTheLastMinute
<1> QED BY <1>1, AnswersAreTheRequests, PTL

\* A minute's power is a natural number, and costs nothing exactly when it is none.
LEMMA StepCosts ==
    ASSUME NEW t \in Int, NEW p \in PowerLevels
    PROVE  /\ StepCost(t, p) \in Nat /\ StepCost(t, p) <= 1200
           /\ StepCost(t, p) = 0 => p = 0
           /\ p = 0 => StepCost(t, p) = 0
<1>1. p \in {0, 50, 100, 150, 200, 250, 300, 350, 400}
  BY PowerAssumption
<1>2. PICK q : q = (p * p) \div 400
  OBVIOUS
<1>3. q \in 0..400 /\ (q = 0 <=> p = 0)
  BY <1>1, <1>2
<1>4. StepCost(t, p) = q * (IF t > HotThreshold THEN 3 ELSE 1)
  BY <1>2 DEF StepCost
<1>5. StepCost(t, p) = q * 3 \/ StepCost(t, p) = q
  BY <1>3, <1>4
<1> QED BY <1>3, <1>5

Costs(s, n) == [i \in 1..n |-> StepCost(Temps(s)[i - 1], s[i])]

LEMMA CostsAre ==
    ASSUME NEW n \in Nat, NEW s \in [1..n -> PowerLevels]
    PROVE  /\ \A i \in 1..n : Costs(s, n)[i] \in Nat /\ Costs(s, n)[i] <= 1200
           /\ \A i \in 1..n : Costs(s, n)[i] = 0 => s[i] = 0
           /\ \A i \in 1..n : s[i] = 0 => Costs(s, n)[i] = 0
<1>1. PICK T, c : T = Temps(s) /\ c = Costs(s, n)
  OBVIOUS
<1>2. \A i \in 0..n : T[i] \in Int
  BY <1>1, TempsAreWarm
<1>3. ASSUME NEW i \in 1..n
      PROVE  /\ c[i] \in Nat /\ c[i] <= 1200
             /\ (c[i] = 0 => s[i] = 0) /\ (s[i] = 0 => c[i] = 0)
  <2>1. i - 1 \in 0..n
    OBVIOUS
  <2>2. T[i - 1] \in Int /\ s[i] \in PowerLevels
    BY <1>2, <2>1
  <2>3. c[i] = StepCost(T[i - 1], s[i])
    BY <1>1 DEF Costs
  <2>4. PICK t \in Int, q \in PowerLevels : t = T[i - 1] /\ q = s[i]
    BY <2>2
  <2>5. PICK w : w = StepCost(t, q)
    OBVIOUS
  <2>6. w \in Nat /\ w <= 1200
    BY <2>5, StepCosts
  <2>7. (w = 0 => q = 0) /\ (q = 0 => w = 0)
    BY <2>5, StepCosts
  <2>9. c[i] = w
    BY <2>3, <2>4, <2>5
  <2> QED BY <2>4, <2>6, <2>7, <2>9, ZenonT(30)
<1> QED BY <1>1, <1>3

LEMMA CostsAreSums ==
    ASSUME NEW n \in Nat, NEW s \in [1..n -> PowerLevels], NEW k \in 0..n
    PROVE  /\ Cost(s, k) = SumFunctionOnSet(Costs(s, n), 1..k)
           /\ Cost(s, k) \in Nat /\ Cost(s, k) <= 1200 * k
<1>1. PICK T, c : T = Temps(s) /\ c = Costs(s, n)
  OBVIOUS
<1>2. \A i \in 1..n : c[i] = StepCost(T[i - 1], s[i])
  BY <1>1 DEF Costs
<1>3. \A i \in 1..n : c[i] \in Nat /\ c[i] <= 1200
  BY <1>1, CostsAre
<1>4. PICK d : d = [i \in 1..k |-> StepCost(T[i - 1], s[i])]
  OBVIOUS
<1>5. DOMAIN d = 1..k
  BY <1>4
<1>6. Cost(s, k) = SumFunctionOnSet(d, 1..k)
  BY <1>1, <1>4, <1>5 DEF Cost, SumFunction
<1>7. \A i \in 1..k : d[i] = c[i]
  BY <1>2, <1>4
<1>8. IsFiniteSet(1..k) /\ Cardinality(1..k) = k
  <2>1. PICK a \in Int, b \in Int : a = 1 /\ b = k
    OBVIOUS
  <2>2. IsFiniteSet(a..b) /\ Cardinality(a..b) = IF a > b THEN 0 ELSE b - a + 1
    BY FS_Interval
  <2> QED BY <2>1, <2>2
<1>9. SumFunctionOnSet(d, 1..k) = SumFunctionOnSet(c, 1..k)
  BY <1>7, <1>8, SumOfSame
<1>10. PICK most \in Nat : most = 1200
  OBVIOUS
<1>11. \A i \in 1..k : c[i] \in 0..most
  <2>1. SUFFICES ASSUME NEW i \in 1..k PROVE c[i] \in 0..most
    OBVIOUS
  <2>2. PICK x \in Nat : x = c[i] /\ x <= most
    BY <1>3, <1>10
  <2> QED BY <2>2
<1>12. SumFunctionOnSet(c, 1..k) \in Nat /\ SumFunctionOnSet(c, 1..k) <= most * Cardinality(1..k)
  BY <1>8, <1>11, SumAtMost
<1> QED BY <1>1, <1>6, <1>8, <1>9, <1>10, <1>12

\* What has been delivered grows, so the minutes that have reached a target are the
\* last ones of the horizon.
LEMMA DeliveredGrows ==
    ASSUME NEW n \in Nat, NEW s \in [1..n -> PowerLevels]
    PROVE  /\ \A k \in 0..n : Cumulative(s, k) \in Nat
           /\ \A k \in 1..n : Cumulative(s, k) = s[k] + Cumulative(s, k - 1)
           /\ \A j, k \in 0..n : j <= k => Cumulative(s, j) <= Cumulative(s, k)
           /\ Cumulative(s, 0) = 0
<1>1. \A i \in 1..n : s[i] \in Nat
  BY PowersAreSmall
<1> QED BY <1>1, SumUpTo DEF Cumulative

LEMMA ReachedIsATail ==
    ASSUME NEW n \in Nat, NEW s \in [1..n -> PowerLevels], NEW target \in Nat
    PROVE  /\ Cardinality(Reached(s, target)) \in Nat
           /\ Reached(s, target) # {} =>
                /\ Min(Reached(s, target)) \in 1..n
                /\ Reached(s, target) = Min(Reached(s, target))..n
                /\ Cardinality(Reached(s, target)) = n - Min(Reached(s, target)) + 1
<1>1. Len(s) = n
  BY TempsAre
<1>3. /\ \A k \in 0..n : Cumulative(s, k) \in Nat
      /\ \A j, k \in 0..n : j <= k => Cumulative(s, j) <= Cumulative(s, k)
  BY DeliveredGrows
<1>4. PICK R : R = Reached(s, target)
  OBVIOUS
<1>5. R = {i \in 1..n : Cumulative(s, i) >= target}
  BY <1>1, <1>4 DEF Reached
<1>6. IsFiniteSet(1..n)
  <2>1. PICK a \in Int, b \in Int : a = 1 /\ b = n
    OBVIOUS
  <2>2. IsFiniteSet(a..b)
    BY FS_Interval
  <2> QED BY <2>1, <2>2
<1>7. IsFiniteSet(R)
  BY <1>5, <1>6, FS_Subset
<1>8. Cardinality(R) \in Nat
  BY <1>7, FS_CardinalityType
<1>9. ASSUME R # {}
      PROVE  Min(R) \in 1..n /\ R = Min(R)..n /\ Cardinality(R) = n - Min(R) + 1
  <2>1. R \in SUBSET Int
    BY <1>5
  <2>2. PICK m : m = Min(R) /\ m \in R /\ \A i \in R : m <= i
    BY <1>7, <1>9, <2>1, Extremes
  <2>3. m \in 1..n /\ Cumulative(s, m) >= target
    BY <1>5, <2>2
  <2>4. ASSUME NEW i \in m..n PROVE i \in R
    <3>1. i \in 1..n /\ i \in 0..n /\ m \in 0..n /\ m <= i
      BY <2>3
    <3>2. Cumulative(s, m) <= Cumulative(s, i) /\ Cumulative(s, m) \in Nat /\ Cumulative(s, i) \in Nat
      BY <1>3, <3>1
    <3> QED BY <1>5, <2>3, <3>1, <3>2
  <2>5. \A i \in R : i \in m..n
    BY <1>5, <2>2, <2>3
  <2>6. R = m..n
    BY <2>4, <2>5
  <2>7. Cardinality(m..n) = n - m + 1
    <3>1. PICK a \in Int, b \in Int : a = m /\ b = n
      BY <2>3
    <3>2. Cardinality(a..b) = IF a > b THEN 0 ELSE b - a + 1
      BY FS_Interval
    <3> QED BY <2>3, <3>1, <3>2
  <2> QED BY <2>2, <2>3, <2>6, <2>7
<1> QED BY <1>4, <1>8, <1>9

\* A schedule that stops at a minute.
Cut(s, n, m) == [i \in 1..n |-> IF i <= m THEN s[i] ELSE 0]

LEMMA CellsCool ==
    ASSUME NEW t \in Int, t >= Ambient
    PROVE  NextTemp(t, 0) <= t
BY DEF NextTemp, Ambient

\* It is as warm, and has delivered as much, up to there; after that the cell cools,
\* and nothing is delivered or worn.
LEMMA CutIs ==
    ASSUME NEW n \in Nat, NEW s \in [1..n -> PowerLevels], NEW m \in 0..n
    PROVE  /\ Cut(s, n, m) \in [1..n -> PowerLevels]
           /\ \A i \in 0..m : Temps(Cut(s, n, m))[i] = Temps(s)[i]
           /\ \A i \in m..n : Temps(Cut(s, n, m))[i] <= Temps(s)[m]
           /\ \A i \in 0..m : Cumulative(Cut(s, n, m), i) = Cumulative(s, i)
           /\ \A i \in m..n : Cumulative(Cut(s, n, m), i) = Cumulative(s, m)
           /\ Cost(Cut(s, n, m), n) = Cost(s, m)
<1>1. PICK c : c = Cut(s, n, m)
  OBVIOUS
<1>2. /\ c \in [1..n -> PowerLevels]
      /\ \A i \in 1..n : i <= m => c[i] = s[i]
      /\ \A i \in 1..n : ~(i <= m) => c[i] = 0
  BY <1>1, PowerAssumption DEF Cut
<1>3. PICK T, U : T = Temps(s) /\ U = Temps(c)
  OBVIOUS
<1>4. /\ T[0] = Ambient /\ U[0] = Ambient
      /\ \A i \in 1..n : T[i] = NextTemp(T[i - 1], s[i])
      /\ \A i \in 1..n : U[i] = NextTemp(U[i - 1], c[i])
      /\ \A i \in 0..n : U[i] \in Int /\ U[i] >= Ambient
      /\ \A i \in 0..n : T[i] \in Int
  BY <1>2, <1>3, TempsAreWarm
<1>5. \A i \in 0..m : U[i] = T[i]
  <2>1. PICK B : B = {i \in 0..m : U[i] # T[i]}
    OBVIOUS
  <2>2. SUFFICES ASSUME B # {} PROVE FALSE
    BY <2>1
  <2>3. B \in SUBSET Nat
    BY <2>1
  <2>4. PICK k \in B : \A j \in B : k <= j
    BY <2>2, <2>3, LeastNumber
  <2>5. k \in 1..n /\ k <= m /\ k - 1 \in 0..m
    BY <1>4, <2>1, <2>4
  <2>6. k - 1 \notin B
    BY <2>1, <2>4, <2>5
  <2>7. U[k - 1] = T[k - 1] /\ c[k] = s[k]
    BY <1>2, <2>1, <2>5, <2>6
  <2>8. U[k] = T[k]
    BY <1>4, <2>5, <2>7
  <2> QED BY <2>1, <2>4, <2>8
<1>6. \A i \in m..n : U[i] <= T[m]
  <2>1. PICK B : B = {i \in m..n : ~(U[i] <= T[m])}
    OBVIOUS
  <2>2. SUFFICES ASSUME B # {} PROVE FALSE
    BY <2>1
  <2>3. B \in SUBSET Nat
    BY <2>1
  <2>4. PICK k \in B : \A j \in B : k <= j
    BY <2>2, <2>3, LeastNumber
  <2>5. m \in 0..m /\ m \in 0..n /\ T[m] \in Int
    BY <1>4
  <2>6. k # m
    BY <1>5, <2>1, <2>4, <2>5
  <2>7. k \in 1..n /\ ~(k <= m) /\ k - 1 \in m..n /\ k - 1 \in 0..n
    BY <2>1, <2>4, <2>6
  <2>8. k - 1 \notin B
    BY <2>1, <2>4, <2>7
  <2>9. PICK t \in Int : t = U[k - 1] /\ t >= Ambient
    BY <1>4, <2>7
  <2>10. t <= T[m]
    BY <2>1, <2>7, <2>8, <2>9
  <2>11. U[k] = NextTemp(t, 0) /\ U[k] \in Int
    <3>1. c[k] = 0 /\ k \in 0..n
      BY <1>2, <2>7
    <3> QED BY <1>4, <2>7, <2>9, <3>1
  <2>12. NextTemp(t, 0) <= t
    BY <2>9, CellsCool
  <2> QED BY <2>1, <2>4, <2>5, <2>9, <2>10, <2>11, <2>12
<1>7. /\ \A i \in 1..n : s[i] \in Nat
      /\ \A i \in 1..n : c[i] \in Nat
  BY <1>2, PowersAreSmall
<1>8. \A i \in 0..n : IsFiniteSet(1..i)
  BY <1>7, SumUpTo
<1>9. \A i \in 0..m : Cumulative(c, i) = Cumulative(s, i)
  <2>1. SUFFICES ASSUME NEW i \in 0..m PROVE Cumulative(c, i) = Cumulative(s, i)
    OBVIOUS
  <2>2. IsFiniteSet(1..i) /\ \A j \in 1..i : c[j] = s[j]
    BY <1>2, <1>8
  <2> QED BY <2>2, SumOfSame DEF Cumulative
<1>10. \A i \in m..n : Cumulative(c, i) = Cumulative(s, m)
  <2>1. SUFFICES ASSUME NEW i \in m..n PROVE Cumulative(c, i) = Cumulative(c, m)
    BY <1>9
  <2>2. /\ IsFiniteSet(1..i) /\ 1..m \in SUBSET (1..i)
        /\ \A j \in 1..i : c[j] \in Nat
        /\ \A j \in (1..i) \ (1..m) : c[j] = 0
    BY <1>2, <1>7, <1>8
  <2> QED BY <2>2, SumOfPart DEF Cumulative
<1>11. Cost(c, n) = Cost(s, m)
  <2>1. PICK d, e : d = Costs(c, n) /\ e = Costs(s, n)
    OBVIOUS
  <2>2. n \in 0..n
    OBVIOUS
  <2>3. Cost(c, n) = SumFunctionOnSet(d, 1..n)
    BY <1>2, <2>1, <2>2, CostsAreSums
  <2>4. Cost(s, m) = SumFunctionOnSet(e, 1..m)
    BY <2>1, CostsAreSums
  <2>5. \A i \in 1..n : d[i] \in Nat /\ d[i] = StepCost(U[i - 1], c[i]) /\ (c[i] = 0 => d[i] = 0)
    <3>1. c \in [1..n -> PowerLevels]
      BY <1>2
    <3>2. \A i \in 1..n : Costs(c, n)[i] = StepCost(Temps(c)[i - 1], c[i])
      BY DEF Costs
    <3>3. \A i \in 1..n : Costs(c, n)[i] \in Nat
      BY <3>1, CostsAre
    <3>4. \A i \in 1..n : c[i] = 0 => Costs(c, n)[i] = 0
      BY <3>1, CostsAre
    <3> QED BY <1>3, <2>1, <3>2, <3>3, <3>4
  <2>6. \A i \in 1..n : e[i] = StepCost(T[i - 1], s[i])
    <3>1. \A i \in 1..n : Costs(s, n)[i] = StepCost(Temps(s)[i - 1], s[i])
      BY DEF Costs
    <3> QED BY <1>3, <2>1, <3>1
  <2>7. \A i \in 1..m : d[i] = e[i]
    <3>1. SUFFICES ASSUME NEW i \in 1..m PROVE d[i] = e[i]
      OBVIOUS
    <3>2. i \in 1..n /\ i - 1 \in 0..m /\ i <= m
      OBVIOUS
    <3> QED BY <1>2, <1>5, <2>5, <2>6, <3>2
  <2>8. IsFiniteSet(1..m) /\ IsFiniteSet(1..n) /\ 1..m \in SUBSET (1..n)
    BY <1>8, <2>2
  <2>9. SumFunctionOnSet(d, 1..m) = SumFunctionOnSet(e, 1..m)
    BY <2>7, <2>8, SumOfSame
  <2>10. \A i \in 1..n : d[i] \in Nat
    BY <2>5
  <2>11. \A i \in (1..n) \ (1..m) : d[i] = 0
    <3>1. \A i \in (1..n) \ (1..m) : i \in 1..n /\ ~(i <= m)
      OBVIOUS
    <3> QED BY <1>2, <2>5, <3>1
  <2>12. SumFunctionOnSet(d, 1..m) = SumFunctionOnSet(d, 1..n)
    BY <2>8, <2>10, <2>11, SumOfPart
  <2> QED BY <2>3, <2>4, <2>9, <2>12
<1> QED BY <1>1, <1>2, <1>3, <1>5, <1>6, <1>9, <1>10, <1>11

\* The first minutes cost no more than all of them, and as much only if nothing is
\* drawn after them.
LEMMA CostsGrow ==
    ASSUME NEW n \in Nat, NEW s \in [1..n -> PowerLevels], NEW k \in 0..n
    PROVE  /\ Cost(s, k) \in Nat
           /\ Cost(s, k) <= Cost(s, n)
           /\ Cost(s, n) <= Cost(s, k) => \A i \in (k + 1)..n : s[i] = 0
<1>1. PICK c : c = Costs(s, n)
  OBVIOUS
<1>2. \A i \in 1..n : c[i] \in Nat /\ (c[i] = 0 => s[i] = 0)
  BY <1>1, CostsAre
<1>3. n \in 0..n /\ k <= n
  OBVIOUS
<1>4. Cost(s, k) = SumFunctionOnSet(c, 1..k) /\ Cost(s, n) = SumFunctionOnSet(c, 1..n)
  BY <1>1, <1>3, CostsAreSums
<1>5. PICK S : S = [i \in 0..n |-> SumFunctionOnSet(c, 1..i)]
  OBVIOUS
<1>6. /\ \A i \in 0..n : S[i] \in Nat
      /\ \A i \in 1..n : S[i] = c[i] + S[i - 1]
      /\ \A i, j \in 0..n : i <= j => S[i] <= S[j]
  <2>1. \A i \in 1..n : c[i] \in Nat
    BY <1>2
  <2>2. \A i \in 0..n : SumFunctionOnSet(c, 1..i) \in Nat
    BY <2>1, SumUpTo
  <2>3. \A i \in 1..n : SumFunctionOnSet(c, 1..i) = c[i] + SumFunctionOnSet(c, 1..(i - 1))
    BY <2>1, SumUpTo
  <2>4. \A i, j \in 0..n : i <= j => SumFunctionOnSet(c, 1..i) <= SumFunctionOnSet(c, 1..j)
    BY <2>1, SumUpTo
  <2>5. \A i \in 1..n : i \in 0..n /\ i - 1 \in 0..n
    OBVIOUS
  <2> QED BY <1>5, <2>2, <2>3, <2>4, <2>5
<1>7. Cost(s, k) = S[k] /\ Cost(s, n) = S[n]
  BY <1>3, <1>4, <1>5
<1>8. ASSUME S[n] <= S[k], NEW i \in (k + 1)..n PROVE s[i] = 0
  <2>1. i \in 1..n /\ i \in 0..n /\ i - 1 \in 0..n /\ k <= i - 1 /\ i <= n
    OBVIOUS
  <2>2. S[k] <= S[i - 1] /\ S[i] <= S[n] /\ S[i] = c[i] + S[i - 1]
    BY <1>3, <1>6, <2>1
  <2>3. S[k] \in Nat /\ S[i - 1] \in Nat /\ S[i] \in Nat /\ S[n] \in Nat /\ c[i] \in Nat
    BY <1>2, <1>3, <1>6, <2>1
  <2>4. c[i] = 0
    BY <1>8, <2>2, <2>3
  <2> QED BY <1>2, <2>1, <2>4
<1>9. S[k] \in Nat /\ S[k] <= S[n]
  BY <1>3, <1>6
<1> QED BY <1>7, <1>8, <1>9

LEMMA CutIsFeasible ==
    ASSUME NEW n \in Nat \ {0}, NEW s \in [1..n -> PowerLevels], NEW m \in 1..n,
           NEW target \in Nat, NEW ceiling \in Int,
           \A i \in 0..(n - 1) : i <= m => Temps(s)[i] <= ceiling,
           Cumulative(s, m) <= 2 * target + 1000
    PROVE  Cut(s, n, m) \in Feasible(target, n, ceiling)
<1>1. PICK c : c = Cut(s, n, m)
  OBVIOUS
<1>2. n \in Nat /\ m \in 0..n
  OBVIOUS
<1>3. c \in [1..n -> PowerLevels]
  BY <1>1, <1>2, CutIs
<1>4. ASSUME NEW i \in 0..(n - 1) PROVE Temps(c)[i] <= ceiling
  <2>1. PICK t \in Int, u \in Int, v \in Int : t = Temps(s)[i] /\ u = Temps(s)[m] /\ v = Temps(c)[i]
    <3>1. i \in 0..n
      OBVIOUS
    <3>2. Temps(s)[i] \in Int /\ Temps(s)[m] \in Int
      BY <1>2, <3>1, TempsAreWarm
    <3>3. Temps(c)[i] \in Int
      BY <1>2, <1>3, <3>1, TempsAreWarm
    <3> QED BY <3>2, <3>3
  <2>2. CASE i <= m
    <3>1. i \in 0..m
      BY <2>2
    <3>2. v = t
      BY <1>1, <1>2, <2>1, <3>1, CutIs
    <3> QED BY <2>1, <2>2, <3>2
  <2>3. CASE ~(i <= m)
    <3>1. i \in m..n /\ m \in 0..(n - 1)
      BY <2>3
    <3>2. v <= u
      BY <1>1, <1>2, <2>1, <3>1, CutIs
    <3>3. u <= ceiling
      BY <2>1, <3>1
    <3> QED BY <2>1, <3>2, <3>3
  <2> QED BY <2>2, <2>3
<1>5. Cumulative(c, n) = Cumulative(s, m)
  <2>1. n \in m..n
    OBVIOUS
  <2> QED BY <1>1, <1>2, <2>1, CutIs
<1>6. Cumulative(c, n) <= 2 * target + 1000
  BY <1>5
<1> QED BY <1>1, <1>3, <1>4, <1>6 DEF Feasible

\* A schedule that stops when it has reached the target reaches it as early.
LEMMA CutReaches ==
    ASSUME NEW n \in Nat, NEW s \in [1..n -> PowerLevels], NEW target \in Nat,
           Reached(s, target) # {}, NEW m \in 1..n, m = Min(Reached(s, target))
    PROVE  Reached(Cut(s, n, m), target) = Reached(s, target)
<1>1. PICK c : c = Cut(s, n, m)
  OBVIOUS
<1>2. m \in 0..n
  OBVIOUS
<1>3. c \in [1..n -> PowerLevels]
  BY <1>1, <1>2, CutIs
<1>4. Len(s) = n /\ Len(c) = n
  BY <1>3, TempsAre
<1>5. Reached(s, target) = m..n
  BY ReachedIsATail
<1>6. ASSUME NEW i \in 1..n PROVE Cumulative(c, i) >= target <=> Cumulative(s, i) >= target
  <2>1. CASE i <= m
    <3>1. i \in 0..m
      BY <2>1
    <3>2. Cumulative(c, i) = Cumulative(s, i)
      BY <1>1, <1>2, <3>1, CutIs
    <3> QED BY <3>2
  <2>2. CASE ~(i <= m)
    <3>1. i \in m..n /\ m \in m..n
      BY <2>2
    <3>2. Cumulative(c, i) = Cumulative(s, m)
      BY <1>1, <1>2, <3>1, CutIs
    <3>3. Cumulative(s, m) >= target /\ Cumulative(s, i) >= target
      BY <1>4, <1>5, <3>1 DEF Reached
    <3> QED BY <3>2, <3>3
  <2> QED BY <2>1, <2>2
<1>7. /\ Reached(s, target) = {i \in 1..n : Cumulative(s, i) >= target}
      /\ Reached(c, target) = {i \in 1..n : Cumulative(c, i) >= target}
  BY <1>4 DEF Reached
<1> QED BY <1>1, <1>6, <1>7

\* A schedule's objective: the minutes before the target is reached, then the cost.
LEMMA Objectives ==
    ASSUME NEW n \in Nat, NEW s \in [1..n -> PowerLevels], NEW target \in Nat
    PROVE  /\ Objective(s, target) \in Nat
           /\ Cost(s, n) \in Nat /\ Cost(s, n) <= 1200 * n
           /\ Reached(s, target) = {} => Objective(s, target) = TargetWeight * n + Cost(s, n)
           /\ Reached(s, target) # {} =>
                Objective(s, target) = TargetWeight * (Min(Reached(s, target)) - 1) + Cost(s, n)
<1>1. PICK R : R = Reached(s, target)
  OBVIOUS
<1>2. PICK w \in Nat : w = TargetWeight
  BY DEF TargetWeight
<1>3. n \in 0..n
  OBVIOUS
<1>4. PICK c \in Nat : c = Cost(s, n) /\ c <= 1200 * n
  BY <1>3, CostsAreSums
<1>5. Len(s) = n
  BY TempsAre
<1>6. Objective(s, target) = w * (n - Cardinality(R)) + c
  BY <1>1, <1>2, <1>4, <1>5 DEF Objective
<1>7. CASE R = {}
  <2>1. Cardinality(R) = 0
    BY <1>7, FS_EmptySet
  <2>2. w * n + c \in Nat
    OBVIOUS
  <2> QED BY <1>1, <1>2, <1>4, <1>6, <1>7, <2>1, <2>2
<1>8. CASE R # {}
  <2>1. PICK m \in 1..n : m = Min(R) /\ Cardinality(R) = n - m + 1
    BY <1>1, <1>8, ReachedIsATail
  <2>2. n - Cardinality(R) = m - 1 /\ m - 1 \in Nat
    BY <2>1
  <2>3. w * (m - 1) + c \in Nat
    BY <2>2
  <2> QED BY <1>1, <1>2, <1>4, <1>6, <1>8, <2>1, <2>2, <2>3
<1> QED BY <1>7, <1>8

\* No feasible schedule is better than one the solver proved optimal.
LEMMA NoneIsBetter ==
    ASSUME NEW n \in Nat, NEW target \in Nat, NEW ceiling \in Int,
           NEW s \in OptimalSchedules(target, n, ceiling)
    PROVE  /\ s \in Feasible(target, n, ceiling)
           /\ \A q \in Feasible(target, n, ceiling) : Objective(s, target) <= Objective(q, target)
<1>1. PICK all : all = Feasible(target, n, ceiling)
  OBVIOUS
<1>2. PICK O : O = {Objective(q, target) : q \in all}
  OBVIOUS
<1>3. s \in all /\ Objective(s, target) = Min(O)
  BY <1>1, <1>2 DEF OptimalSchedules
<1>4. \A q \in all : Objective(q, target) \in Nat
  BY <1>1, Objectives DEF Feasible
<1>5. O \in SUBSET Nat /\ O # {}
  BY <1>2, <1>3, <1>4
<1>6. \E m \in O : \A k \in O : m <= k
  BY <1>5, LeastNumber
<1>7. \A k \in O : Min(O) <= k
  BY <1>6 DEF Min
<1> QED BY <1>1, <1>2, <1>3, <1>7

\* The naive schedule keeps one level, and under the ceiling where there is one to keep.
LEMMA NaiveIs ==
    ASSUME NEW n \in Nat, NEW ceiling \in Int, Ambient <= ceiling
    PROVE  /\ NaiveSchedule(n, ceiling) \in [1..n -> PowerLevels]
           /\ \A i \in 0..n : Temps(NaiveSchedule(n, ceiling))[i] <= ceiling
<1> DEFINE Constant(level) == [i \in 1..n |-> level]
           Safe(level) == \A i \in 1..n : Temps(Constant(level))[i] <= ceiling
           passed == {l \in PowerLevels : \A k \in PowerLevels : k <= l => Safe(k)}
<1>0. passed \subseteq PowerLevels
  OBVIOUS
<1>1. PICK P : P = passed \cup {0}
  OBVIOUS
<1>2. PICK S : S = PowerLevels
  OBVIOUS
<1>3. S \in SUBSET Int /\ 0 \in S
  BY <1>2, LevelsAreFew
<1>4. IsFiniteSet(S)
  BY <1>2, LevelsAreFew
<1>5. P \in SUBSET S /\ P # {} /\ P \in SUBSET Int
  <2> HIDE DEF passed
  <2> QED BY <1>0, <1>1, <1>2, <1>3
<1>6. IsFiniteSet(P)
  BY <1>4, <1>5, FS_Subset
<1>7. PICK l \in P : l = Max(P)
  BY <1>5, <1>6, Extremes
<1>8. PICK s : s = Constant(l)
  OBVIOUS
<1>9. s = NaiveSchedule(n, ceiling)
  BY <1>1, <1>7, <1>8 DEF NaiveSchedule
<1>10. l \in PowerLevels
  BY <1>2, <1>5
<1>11. s \in [1..n -> PowerLevels]
  BY <1>8, <1>10
<1>12. Temps(s)[0] = Ambient
  BY <1>11, TempsAreWarm
<1>13. ASSUME NEW i \in 0..n PROVE Temps(s)[i] <= ceiling
  <2>1. CASE i = 0
    BY <1>12, <2>1
  <2>2. CASE i # 0 /\ l \in passed
    <3>1. l \in Int
      BY <1>5
    <3>2. Safe(l)
      <4>1. l <= l
        BY <3>1
      <4>2. l \in passed
        BY <2>2
      <4> HIDE DEF Safe
      <4>3. \A k \in PowerLevels : k <= l => Safe(k)
        BY <4>2
      <4> QED BY <1>10, <4>1, <4>3, Zenon
    <3>3. i \in 1..n
      BY <2>2
    <3> QED BY <1>8, <3>2, <3>3
  <2>3. CASE i # 0 /\ l = 0
    <3>1. PICK z \in 0..n : z = 0
      OBVIOUS
    <3>2. s = Cut(s, n, z)
      <4>1. \A j \in 1..n : ~(j <= z)
        BY <3>1
      <4> QED BY <1>8, <2>3, <4>1 DEF Cut
    <3>3. i \in z..n
      BY <3>1
    <3>4. Temps(Cut(s, n, z))[i] <= Temps(s)[z]
      BY <1>11, <3>3, CutIs
    <3>5. Temps(s)[i] <= Temps(s)[z]
      BY <3>2, <3>4
    <3>6. Temps(s)[z] = Ambient /\ Temps(s)[i] \in Int /\ Ambient \in Int
      BY <1>11, <1>12, <3>1, TempsAreWarm DEF Ambient
    <3> QED BY <3>5, <3>6
  <2> QED BY <1>1, <2>1, <2>2, <2>3
<1> QED BY <1>9, <1>11, <1>13

\* A schedule the solver proved optimal reaches the target no later than the naive
\* constant current, wears the battery no more when it is as fast, and draws nothing
\* afterwards, as long as no schedule's cost over the horizon comes to the weight of
\* one minute: the objective adds the two up (TARGET_REACHED_WEIGHT).
THEOREM OptimalIsBest ==
    ASSUME \A r \in ChargeRequests : 1200 * r.horizon < TargetWeight
    PROVE  PlannerSpec => []OptimalBeatsConstantCurrent
<1>1. PlannerInv => OptimalBeatsConstantCurrent
  <2>1. SUFFICES ASSUME PlannerInv, Answered("charge"), call.request.status = "OPTIMAL"
                 PROVE  OptimalBeatsConstantCurrent
    BY DEF OptimalBeatsConstantCurrent
  <2>2. PICK r \in ChargeRequests :
          /\ \E s \in ChargeSchedules(r.target, r.horizon, r.ceiling, r.status) :
                Made("charge", r, s)
          /\ r.horizon \in Nat \ {0} /\ r.target \in Nat /\ r.ceiling \in Int
    BY <2>1, ChargeInHand
  <2>3. PICK s \in ChargeSchedules(r.target, r.horizon, r.ceiling, r.status) :
          Made("charge", r, s)
    BY <2>2
  <2>4. call.request = r /\ call.out = s
    BY <2>3 DEF Made
  <2>5. PICK n \in Nat \ {0}, target \in Nat, ceiling \in Int :
          n = r.horizon /\ target = r.target /\ ceiling = r.ceiling
    BY <2>2
  <2>6. s \in OptimalSchedules(target, n, ceiling)
    BY <2>1, <2>3, <2>4, <2>5 DEF ChargeSchedules
  <2>7. PICK w \in Nat : w = TargetWeight /\ 1200 * n < w
    BY <2>5 DEF TargetWeight
  <2>8. n \in Nat
    BY <2>5
  <2>9. /\ s \in Feasible(target, n, ceiling)
        /\ \A q \in Feasible(target, n, ceiling) : Objective(s, target) <= Objective(q, target)
    BY <2>6, <2>8, NoneIsBetter
  <2>10. /\ s \in [1..n -> PowerLevels]
         /\ \A i \in 0..(n - 1) : Temps(s)[i] <= ceiling
         /\ Cumulative(s, n) <= 2 * target + 1000
    BY <2>9 DEF Feasible
  <2>11. Ambient <= ceiling
    <3>1. 0 \in 0..(n - 1)
      OBVIOUS
    <3>2. Temps(s)[0] = Ambient
      BY <2>8, <2>10, TempsAreWarm
    <3> QED BY <2>10, <3>1, <3>2
  <2>12. PICK q : q = NaiveSchedule(n, ceiling)
    OBVIOUS
  <2>13. q \in [1..n -> PowerLevels] /\ \A i \in 0..n : Temps(q)[i] <= ceiling
    BY <2>8, <2>11, <2>12, NaiveIs
  <2>14. Len(s) = n /\ Len(q) = n
    BY <2>8, <2>10, <2>13, TempsAre
  <2>19. s \in [1..n -> PowerLevels]
    BY <2>10
  <2>20. q \in [1..n -> PowerLevels]
    BY <2>13
  <2>15. PICK cost \in Nat : cost = Cost(s, n) /\ cost <= 1200 * n
    BY <2>8, <2>10, Objectives
  <2>16. ASSUME Reached(q, target) # {}
         PROVE  /\ Reached(s, target) # {}
                /\ Min(Reached(s, target)) <= Min(Reached(q, target))
                /\ Min(Reached(s, target)) = Min(Reached(q, target)) =>
                     Cost(s, Min(Reached(s, target))) <= Cost(q, Min(Reached(q, target)))
    <3>1. PICK m \in 1..n : m = Min(Reached(q, target))
      <4>1. PICK R : R = Reached(q, target)
        OBVIOUS
      <4>2. R # {}
        BY <2>16, <4>1
      <4>3. R # {} => Min(R) \in 1..n
        BY <2>8, <2>20, <4>1, ReachedIsATail
      <4>4. PICK m : m = Min(R)
        OBVIOUS
      <4> QED BY <4>1, <4>2, <4>3, <4>4
    <3>2. PICK c : c = Cut(q, n, m)
      OBVIOUS
    <3>3. m \in 0..n
      OBVIOUS
    <3>4. Cumulative(q, m) <= 2 * target + 1000
      <4>1. Reached(q, target) = m..n
        BY <2>8, <2>16, <2>20, <3>1, ReachedIsATail
      <4>2. m - 1 \notin Reached(q, target)
        BY <4>1
      <4>3. m - 1 = 0 \/ Cumulative(q, m - 1) < target
        <5>1. PICK x \in Nat : x = Cumulative(q, m - 1)
          <6>1. m - 1 \in 0..n
            OBVIOUS
          <6> QED BY <2>8, <2>20, <6>1, DeliveredGrows
        <5>2. m - 1 # 0 => m - 1 \in 1..n
          OBVIOUS
        <5> QED BY <2>14, <4>2, <5>1, <5>2 DEF Reached
      <4>4. PICK x \in Nat : x = Cumulative(q, m - 1) /\ x <= target
        <5>1. m - 1 \in 0..n
          OBVIOUS
        <5>2. Cumulative(q, m - 1) \in Nat /\ Cumulative(q, 0) = 0
          BY <2>8, <2>20, <5>1, DeliveredGrows
        <5> QED BY <4>3, <5>2
      <4>5. Cumulative(q, m) = q[m] + x
        <5>1. Cumulative(q, m) = q[m] + Cumulative(q, m - 1)
          BY <2>8, <2>20, DeliveredGrows, SMTT(30)
        <5> QED BY <4>4, <5>1
      <4>6. q[m] \in Nat /\ q[m] <= 400
        <5>1. q[m] \in PowerLevels
          BY <2>13
        <5> QED BY <5>1, PowersAreSmall
      <4> QED BY <4>4, <4>5, <4>6
    <3>5. c \in Feasible(target, n, ceiling)
      <4>1. \A i \in 0..(n - 1) : i <= m => Temps(q)[i] <= ceiling
        BY <2>13
      <4> QED BY <2>13, <3>2, <3>4, <4>1, CutIsFeasible
    <3>6. c \in [1..n -> PowerLevels] /\ Cost(c, n) = Cost(q, m)
      BY <2>8, <2>13, <3>2, <3>3, CutIs
    <3>7. Reached(c, target) = Reached(q, target)
      BY <2>8, <2>13, <2>16, <3>1, <3>2, CutReaches
    <3>8. Objective(c, target) = w * (m - 1) + Cost(q, m)
      BY <2>7, <2>8, <2>16, <3>1, <3>6, <3>7, Objectives
    <3>9. PICK d \in Nat : d = Cost(q, m) /\ d <= 1200 * n
      BY <2>8, <3>6, Objectives
    <3>10. Objective(s, target) <= w * (m - 1) + d
      BY <2>9, <3>5, <3>8, <3>9
    <3>11. Reached(s, target) # {}
      <4>1. SUFFICES ASSUME Reached(s, target) = {} PROVE FALSE
        OBVIOUS
      <4>2. Objective(s, target) = w * n + cost
        BY <2>7, <2>8, <2>10, <2>15, <4>1, Objectives
      <4>3. w * n + cost <= w * (m - 1) + d
        BY <3>10, <4>2
      <4>4. w * (m - 1) + w <= w * n
        <5>1. PICK e \in Nat : n = m + e
          <6>1. n - m \in Nat /\ n = m + (n - m)
            OBVIOUS
          <6> QED BY <6>1
        <5>2. w * n = w * (m - 1) + w + w * e
          BY <5>1
        <5>3. w * e \in Nat
          BY <5>1
        <5> QED BY <5>2, <5>3
      <4> QED BY <2>7, <3>9, <4>3, <4>4
    <3>12. PICK k \in 1..n : k = Min(Reached(s, target))
      BY <2>8, <2>19, <3>11, ReachedIsATail, SMTT(30)
    <3>13. Objective(s, target) = w * (k - 1) + cost
      <4>1. s \in [1..n -> PowerLevels]
        BY <2>10
      <4>2. Objective(s, target) = TargetWeight * (Min(Reached(s, target)) - 1) + Cost(s, n)
        BY <2>8, <3>11, <4>1, Objectives
      <4> QED BY <2>7, <2>15, <3>12, <4>2
    <3>14. w * (k - 1) + cost <= w * (m - 1) + d
      BY <3>10, <3>13
    <3>15. k <= m
      <4>1. SUFFICES ASSUME ~(k <= m) PROVE FALSE
        OBVIOUS
      <4>2. w * (m - 1) + w <= w * (k - 1)
        <5>1. PICK e \in Nat : k = m + 1 + e
          <6>1. k - m - 1 \in Nat /\ k = m + 1 + (k - m - 1)
            BY <4>1
          <6> QED BY <6>1
        <5>2. w * (k - 1) = w * (m - 1) + w + w * e
          BY <5>1
        <5>3. w * e \in Nat
          BY <5>1
        <5> QED BY <5>2, <5>3
      <4> QED BY <2>7, <3>9, <3>14, <4>2
    <3>16. ASSUME k = m PROVE Cost(s, k) <= d
      <4>1. cost <= d
        BY <3>14, <3>16
      <4>2. Cost(s, k) \in Nat /\ Cost(s, k) <= cost
        BY <2>8, <2>10, <2>15, CostsGrow
      <4> QED BY <4>1, <4>2
    <3> QED BY <3>1, <3>9, <3>11, <3>12, <3>15, <3>16
  <2>17. ASSUME Reached(s, target) # {}
         PROVE  \A i \in (Min(Reached(s, target)) + 1)..n : s[i] = 0
    <3>1. PICK k \in 1..n : k = Min(Reached(s, target))
      BY <2>8, <2>19, <2>17, ReachedIsATail, SMTT(30)
    <3>2. PICK c : c = Cut(s, n, k)
      OBVIOUS
    <3>3. k \in 0..n /\ n \in 0..n /\ k <= n
      OBVIOUS
    <3>4. Cumulative(s, k) <= 2 * target + 1000
      <4>1. s \in [1..n -> PowerLevels]
        BY <2>10
      <4>2. \A j, i \in 0..n : j <= i => Cumulative(s, j) <= Cumulative(s, i)
        BY <2>8, <4>1, DeliveredGrows, SMTT(30)
      <4>3. Cumulative(s, k) \in Nat /\ Cumulative(s, n) \in Nat
        BY <2>8, <3>3, <4>1, DeliveredGrows
      <4>4. Cumulative(s, k) <= Cumulative(s, n)
        BY <3>3, <4>2
      <4> QED BY <2>10, <4>3, <4>4
    <3>5. c \in Feasible(target, n, ceiling)
      <4>1. \A i \in 0..(n - 1) : i <= k => Temps(s)[i] <= ceiling
        BY <2>10
      <4> QED BY <2>10, <3>2, <3>4, <4>1, CutIsFeasible
    <3>6. c \in [1..n -> PowerLevels] /\ Cost(c, n) = Cost(s, k)
      BY <2>8, <2>10, <3>2, <3>3, CutIs
    <3>7. Reached(c, target) = Reached(s, target)
      BY <2>8, <2>10, <2>17, <3>1, <3>2, CutReaches
    <3>8. PICK d \in Nat : d = Cost(s, k)
      BY <2>8, <2>10, <2>15, CostsGrow
    <3>9. Objective(c, target) = w * (k - 1) + d
      BY <2>7, <2>8, <2>17, <3>1, <3>6, <3>7, <3>8, Objectives
    <3>10. Objective(s, target) = w * (k - 1) + cost
      <4>1. s \in [1..n -> PowerLevels]
        BY <2>10
      <4>2. Objective(s, target) = TargetWeight * (Min(Reached(s, target)) - 1) + Cost(s, n)
        BY <2>8, <2>17, <4>1, Objectives
      <4> QED BY <2>7, <2>15, <3>1, <4>2
    <3>11. cost <= d
      <4>1. w * (k - 1) + cost <= w * (k - 1) + d
        BY <2>9, <3>5, <3>9, <3>10
      <4>2. PICK z \in Nat : z = w * (k - 1)
        OBVIOUS
      <4> QED BY <4>1, <4>2
    <3>12. \A i \in (k + 1)..n : s[i] = 0
      BY <2>8, <2>10, <2>15, <3>8, <3>11, CostsGrow
    <3> QED BY <3>1, <3>12
  <2>18. OptimalBeatsConstantCurrent
    <3>1. PICK mine, naive : mine = ToTarget(s, target) /\ naive = ToTarget(q, target)
      OBVIOUS
    <3>2. Reached(s, target) # {} => mine.minutes = Min(Reached(s, target))
                                      /\ mine.cost = Cost(s, Min(Reached(s, target)))
      BY <3>1 DEF ToTarget
    <3>3. Reached(q, target) # {} => naive.minutes = Min(Reached(q, target))
                                      /\ naive.cost = Cost(q, Min(Reached(q, target)))
      BY <3>1 DEF ToTarget
    <3>4. Reached(q, target) # {} => /\ Reached(s, target) # {}
                                     /\ mine.minutes <= naive.minutes
                                     /\ mine.minutes = naive.minutes => mine.cost <= naive.cost
      BY <2>16, <3>2, <3>3
    <3>5. Reached(s, target) # {} => \A i \in (mine.minutes + 1)..n : s[i] = 0
      BY <2>17, <3>2
    <3> QED BY <2>4, <2>5, <2>12, <3>1, <3>4, <3>5 DEF OptimalBeatsConstantCurrent
  <2> QED BY <2>18
<1> QED BY <1>1, AnswersAreTheRequests, PTL

-----------------------------------------------------------------------------
(***************************************************************************)
(* Solar-synced charging                                                   *)
(***************************************************************************)

\* The values of a function on a finite set are finitely many.
LEMMA ValuesAreFinite ==
    ASSUME NEW S, IsFiniteSet(S), NEW f
    PROVE  IsFiniteSet({f[x] : x \in S})
<1>1. PICK g : g = [x \in S |-> f[x]]
  OBVIOUS
<1>2. g \in Surjection(S, {f[x] : x \in S})
  BY <1>1 DEF Surjection
<1> QED BY <1>2, FS_Surjection

LEMMA LesserOfTwo ==
    ASSUME NEW a \in Int, NEW b \in Int
    PROVE  /\ Min({a, b}) = IF a <= b THEN a ELSE b
           /\ Max({a, b}) = IF a <= b THEN b ELSE a
<1>1. PICK S : S = {a, b}
  OBVIOUS
<1>2. Min(S) = IF a <= b THEN a ELSE b
  BY <1>1 DEF Min
<1>3. Max(S) = IF a <= b THEN b ELSE a
  BY <1>1 DEF Max
<1> QED BY <1>1, <1>2, <1>3

\* The first of the least values of a function on 0..(n - 1).
LEMMA FirstOfLeast ==
    ASSUME NEW n \in Nat \ {0}, NEW f, \A o \in 0..(n - 1) : f[o] \in Int,
           NEW m, m = Min({f[o] : o \in 0..(n - 1)}),
           NEW k, k = Min({o \in 0..(n - 1) : f[o] = m})
    PROVE  /\ k \in 0..(n - 1)
           /\ f[k] = m
           /\ \A o \in 0..(n - 1) : f[k] <= f[o] /\ (o < k => f[k] < f[o])
<1>1. PICK V, D : V = {f[o] : o \in 0..(n - 1)} /\ D = {o \in 0..(n - 1) : f[o] = m}
  OBVIOUS
<1>2. n - 1 \in Int /\ 0 \in Int
  OBVIOUS
<1>3. IsFiniteSet(0..(n - 1))
  BY <1>2, FS_Interval
<1>4. IsFiniteSet(V)
  BY <1>1, <1>3, ValuesAreFinite
<1>5. V \in SUBSET Int /\ V # {}
  <2>1. 0 \in 0..(n - 1)
    OBVIOUS
  <2>2. f[0] \in V
    BY <1>1, <2>1
  <2> QED BY <1>1, <2>2
<1>6. m \in V /\ \A v \in V : m <= v
  BY <1>1, <1>4, <1>5, Extremes
<1>7. D \in SUBSET (0..(n - 1)) /\ D # {}
  BY <1>1, <1>6
<1>8. IsFiniteSet(D)
  BY <1>3, <1>7, FS_Subset
<1>9. D \in SUBSET Int
  BY <1>7
<1>10. k \in D /\ \A o \in D : k <= o
  BY <1>1, <1>7, <1>8, <1>9, Extremes
<1>11. k \in 0..(n - 1) /\ f[k] = m
  BY <1>1, <1>10
<1>12. ASSUME NEW o \in 0..(n - 1) PROVE f[k] <= f[o] /\ (o < k => f[k] < f[o])
  <2>1. f[o] \in V /\ f[o] \in Int /\ f[k] \in Int
    BY <1>1, <1>11
  <2>2. f[k] <= f[o]
    BY <1>6, <1>11, <2>1
  <2>3. ASSUME o < k PROVE f[k] # f[o]
    <3>1. k \in Int /\ o \in Int
      BY <1>11
    <3>2. ASSUME o \in D PROVE FALSE
      <4>1. k <= o
        BY <1>10, <3>2
      <4> QED BY <2>3, <3>1, <4>1
    <3> QED BY <1>1, <1>11, <3>2
  <2> QED BY <2>1, <2>2, <2>3
<1> QED BY <1>11, <1>12

\* The sun gives nothing outside the day and, at noon, everything.
LEMMA SunIsUpByDay ==
    ASSUME NEW hour \in 0..23, NEW peak \in Nat
    PROVE  /\ SolarGeneration(hour, peak) \in Nat
           /\ hour \notin 7..17 => SolarGeneration(hour, peak) = 0
           /\ SolarGeneration(12, peak) = peak
<1>1. SolarShape \in [1..11 -> Nat] /\ SolarShape[6] = 1000
  BY DEF SolarShape
<1>2. SolarGeneration(12, peak) = peak
  <2>1. (peak * 1000) \div 1000 = peak
    OBVIOUS
  <2> QED BY <1>1, <2>1 DEF SolarGeneration, Sunrise, Sunset
<1>3. CASE hour \notin 7..17
  BY <1>2, <1>3 DEF SolarGeneration, Sunrise, Sunset
<1>4. CASE hour \in 7..17
  <2>1. PICK g : g = SolarShape[hour - 6]
    OBVIOUS
  <2>2. g \in Nat
    BY <1>1, <1>4, <2>1
  <2>3. peak * g \in Nat
    BY <2>2
  <2>4. (peak * g) \div 1000 \in Nat
    BY <2>3
  <2>5. SolarGeneration(hour, peak) = (peak * g) \div 1000
    BY <1>4, <2>1 DEF SolarGeneration, Sunrise, Sunset
  <2> QED BY <1>2, <1>4, <2>4, <2>5
<1> QED BY <1>3, <1>4

LEMMA CostsAreNumbers ==
    ASSUME NEW hour \in 0..23, NEW site, site.peak \in Nat, site.load \in Int
    PROVE  /\ EffectiveCost(hour, site) \in Nat
           /\ hour \notin 7..17 => EffectiveCost(hour, site) > 0
           /\ site.solar /\ site.load > 0 /\ site.peak >= site.load => EffectiveCost(12, site) = 0
<1>1. PICK peak \in Nat, load \in Int : peak = site.peak /\ load = site.load
  OBVIOUS
<1>2. PICK tariff : tariff = TariffAt(hour)
  OBVIOUS
<1>3. tariff \in Nat /\ tariff \in {500, 800, 950}
  BY <1>2 DEF TariffAt
<1>4. PICK gen : gen = SolarGeneration(hour, peak)
  OBVIOUS
<1>5. gen \in Nat /\ (hour \notin 7..17 => gen = 0)
  BY <1>4, SunIsUpByDay
<1>6. CASE site.solar /\ site.load > 0
  <2>1. PICK q : q = (gen * 1000) \div load
    OBVIOUS
  <2>2. load \in Nat \ {0} /\ gen * 1000 \in Nat
    BY <1>1, <1>5, <1>6
  <2>3. q \in Nat
    BY <2>1, <2>2
  <2>4. hour \notin 7..17 => q = 0
    <3>1. ASSUME gen = 0 PROVE q = 0
      <4>1. gen * 1000 = 0
        BY <3>1
      <4>2. 0 \div load = 0
        BY <2>2
      <4> QED BY <2>1, <4>1, <4>2
    <3> QED BY <1>5, <3>1
  <2>5. PICK m : m = Min({1000, q})
    OBVIOUS
  <2>6. m = IF 1000 <= q THEN 1000 ELSE q
    BY <2>3, <2>5, LesserOfTwo
  <2>7. EffectiveCost(hour, site) = tariff * (1000 - m)
    BY <1>1, <1>2, <1>4, <1>6, <2>1, <2>5 DEF EffectiveCost
  <2>8. 1000 - m \in Nat /\ (hour \notin 7..17 => 1000 - m = 1000)
    BY <2>3, <2>4, <2>6
  <2>9. EffectiveCost(hour, site) \in Nat /\ (hour \notin 7..17 => EffectiveCost(hour, site) > 0)
    BY <1>3, <2>7, <2>8
  <2>10. ASSUME peak >= load PROVE EffectiveCost(12, site) = 0
    <3>1. SolarGeneration(12, peak) = peak
      BY SunIsUpByDay
    <3>2. PICK d : d = (peak * 1000) \div load
      OBVIOUS
    <3>3. d \in Nat /\ d >= 1000
      <4>1. peak * 1000 \in Nat /\ peak * 1000 >= load * 1000
        BY <1>1, <2>2, <2>10
      <4>2. PICK p \in Nat : p = peak * 1000
        BY <4>1
      <4>3. d = p \div load /\ p >= load * 1000
        BY <3>2, <4>1, <4>2
      <4>4. p \div load \in Nat /\ p < load * (p \div load) + load
        BY <2>2, <4>2
      <4>5. ASSUME d < 1000 PROVE FALSE
        <5>1. d + 1 <= 1000 /\ d + 1 \in Nat
          BY <4>3, <4>4, <4>5
        <5>2. load * (d + 1) <= load * 1000
          BY <2>2, <5>1
        <5>3. load * (d + 1) = load * d + load
          BY <2>2, <4>3, <4>4
        <5> QED BY <2>2, <4>2, <4>3, <4>4, <5>1, <5>2, <5>3
      <4> QED BY <4>3, <4>4, <4>5
    <3>4. Min({1000, d}) = 1000
      BY <3>3, LesserOfTwo
    <3>5. EffectiveCost(12, site) = TariffAt(12) * (1000 - 1000)
      <4>1. EffectiveCost(12, site)
              = TariffAt(12) * (1000 - Min({1000, (SolarGeneration(12, peak) * 1000) \div load}))
        BY <1>1, <1>6 DEF EffectiveCost
      <4>2. (SolarGeneration(12, peak) * 1000) \div load = d
        BY <3>1, <3>2
      <4> QED BY <3>4, <4>1, <4>2
    <3>6. TariffAt(12) = 800
      BY DEF TariffAt
    <3> QED BY <3>5, <3>6
  <2> QED BY <1>1, <2>9, <2>10
<1>7. CASE ~(site.solar /\ site.load > 0)
  <2>1. EffectiveCost(hour, site) = tariff * 1000
    BY <1>2, <1>7 DEF EffectiveCost
  <2> QED BY <1>3, <1>7, <2>1
<1> QED BY <1>6, <1>7

LEMMA WindowCosts ==
    ASSUME NEW start \in 0..23, NEW duration \in Int, NEW site, site.peak \in Nat, site.load \in Int
    PROVE  /\ WindowCost(start, duration, site) \in Nat
           /\ duration = 1 => WindowCost(start, duration, site) = EffectiveCost(start, site)
<1>1. PICK f : f = [h \in 0..(duration - 1) |-> EffectiveCost((start + h) % 24, site)]
  OBVIOUS
<1>2. DOMAIN f = 0..(duration - 1)
  BY <1>1
<1>3. IsFiniteSet(DOMAIN f)
  <2>1. 0 \in Int /\ duration - 1 \in Int
    OBVIOUS
  <2> QED BY <1>2, <2>1, FS_Interval
<1>4. WindowCost(start, duration, site) = SumFunctionOnSet(f, DOMAIN f)
  BY <1>1 DEF WindowCost, SumFunction
<1>5. ASSUME NEW h \in DOMAIN f PROVE f[h] \in Nat
  <2>0. h \in 0..(duration - 1)
    BY <1>2
  <2>1. h \in Int /\ (start + h) % 24 \in 0..23
    BY <2>0
  <2>2. f[h] = EffectiveCost((start + h) % 24, site)
    BY <1>1
  <2> QED BY <2>1, <2>2, CostsAreNumbers
<1>6. SumFunctionOnSet(f, DOMAIN f) \in Nat
  BY <1>3, <1>5, SumType
<1>7. ASSUME duration = 1 PROVE SumFunctionOnSet(f, DOMAIN f) = EffectiveCost(start, site)
  <2>1. DOMAIN f = {0}
    BY <1>2, <1>7
  <2>2. (start + 0) % 24 = start
    OBVIOUS
  <2>3. f[0] = EffectiveCost(start, site)
    BY <1>1, <2>1, <2>2
  <2>4. f[0] \in Nat
    BY <1>5, <2>1
  <2>5. SumFunctionOnSet(f, DOMAIN f) = f[0] + SumFunctionOnSet(f, DOMAIN f \ {0})
    BY <1>3, <1>5, <2>1, SumWithout
  <2>6. DOMAIN f \ {0} = {}
    BY <2>1
  <2>7. SumFunctionOnSet(f, {}) = 0
    BY SumSteps
  <2> QED BY <2>3, <2>4, <2>5, <2>6, <2>7
<1> QED BY <1>4, <1>6, <1>7

LEMMA SolarInHand ==
    ASSUME PlannerInv, Answered("solar")
    PROVE  \E r \in SolarRequests :
             /\ Made("solar", r, RecommendedStart(r.now, r.duration, r.site, r.lookahead))
             /\ r.now \in Int /\ r.duration \in Int /\ r.lookahead \in 1..24
             /\ r.site.peak \in Nat /\ r.site.load \in Int
BY SolarAssumption DEF PlannerInv, Answered, Made, NoCall

\* The hours of a day are those up to a day ahead of now.
LEMMA DayAhead ==
    ASSUME NEW now \in Int
    PROVE  /\ \A o \in 0..23 : (now + o) % 24 \in 0..23 /\ (((now + o) % 24) - now + 24) % 24 = o
           /\ \A h \in 0..23 : \E o \in 0..23 : (now + o) % 24 = h
<1>1. \A o \in 0..23 : (now + o) % 24 \in 0..23 /\ (((now + o) % 24) - now + 24) % 24 = o
  OBVIOUS
<1>2. ASSUME NEW h \in 0..23 PROVE \E o \in 0..23 : (now + o) % 24 = h
  <2>1. (h - now) % 24 \in 0..23 /\ (now + ((h - now) % 24)) % 24 = h
    OBVIOUS
  <2> QED BY <2>1
<1> QED BY <1>1, <1>2

\* The recommended start is the first of the cheapest of the lookahead, for any tariff
\* and generation the model has and any session.
THEOREM CheapestWindow == PlannerSpec => []SolarWindowIsCheapest
<1>1. PlannerInv => SolarWindowIsCheapest
  <2>1. SUFFICES ASSUME PlannerInv, Answered("solar") PROVE SolarWindowIsCheapest
    BY DEF SolarWindowIsCheapest
  <2>2. PICK r \in SolarRequests :
          /\ Made("solar", r, RecommendedStart(r.now, r.duration, r.site, r.lookahead))
          /\ r.now \in Int /\ r.duration \in Int /\ r.lookahead \in 1..24
          /\ r.site.peak \in Nat /\ r.site.load \in Int
    BY <2>1, SolarInHand
  <2>a. PICK now \in Int, n \in 1..24 : now = r.now /\ n = r.lookahead
    BY <2>2
  <2>3. PICK f : /\ now = r.now /\ n = r.lookahead
                 /\ f = [o \in 0..(n - 1) |-> WindowCost((now + o) % 24, r.duration, r.site)]
    BY <2>a
  <2>4. \A o \in 0..(n - 1) : o \in 0..23 /\ f[o] = WindowCost((now + o) % 24, r.duration, r.site)
    <3>1. \A o \in 0..(n - 1) : o \in 0..23
      OBVIOUS
    <3>2. \A o \in 0..(n - 1) : f[o] = WindowCost((now + o) % 24, r.duration, r.site)
      BY <2>3, Zenon
    <3> QED BY <3>1, <3>2, Zenon
  <2>5. ASSUME NEW o \in 0..(n - 1) PROVE f[o] \in Nat /\ f[o] \in Int
    <3>1. (now + o) % 24 \in 0..23
      BY <2>4, DayAhead
    <3>2. WindowCost((now + o) % 24, r.duration, r.site) \in Nat
      BY <2>2, <3>1, WindowCosts
    <3> QED BY <2>4, <3>2
  <2>6. PICK m : m = Min({f[o] : o \in 0..(n - 1)})
    OBVIOUS
  <2>7. PICK k : k = Min({o \in 0..(n - 1) : f[o] = m})
    OBVIOUS
  <2>8. n \in Nat \ {0}
    OBVIOUS
  <2>9. /\ k \in 0..(n - 1)
        /\ \A o \in 0..(n - 1) : f[k] <= f[o] /\ (o < k => f[k] < f[o])
    BY <2>5, <2>6, <2>7, <2>8, FirstOfLeast, SMTT(60)
  <2>10. RecommendedStart(r.now, r.duration, r.site, r.lookahead) = (now + k) % 24
    <3>1. \A o \in 0..(n - 1) :
            f[o] = WindowCost((r.now + o) % 24, r.duration, r.site)
      BY <2>3, <2>4
    <3>2. m = Min({WindowCost((r.now + o) % 24, r.duration, r.site) : o \in 0..(r.lookahead - 1)})
      BY <2>3, <2>6, <3>1, Zenon
    <3>3. {o \in 0..(n - 1) : f[o] = m}
            = {o \in 0..(r.lookahead - 1) : WindowCost((r.now + o) % 24, r.duration, r.site) = m}
      BY <2>3, <3>1, Zenon
    <3> QED BY <2>3, <2>7, <3>2, <3>3, Zenon DEF RecommendedStart
  <2>11. PICK out : out = (now + k) % 24
    OBVIOUS
  <2>12. call.request = r /\ call.out = out
    BY <2>2, <2>10, <2>11 DEF Made
  <2>13. k \in 0..23 /\ out \in 0..23 /\ (out - now + 24) % 24 = k
    BY <2>4, <2>9, <2>11, DayAhead
  <2>14. f[k] = WindowCost(out, r.duration, r.site) /\ f[k] \in Int
    BY <2>4, <2>5, <2>9, <2>11
  <2>15. k < n
    BY <2>9, <2>8
  <2>16. ASSUME NEW o \in 0..(n - 1)
         PROVE  IF o < k
                THEN WindowCost((now + o) % 24, r.duration, r.site) > WindowCost(out, r.duration, r.site)
                ELSE WindowCost((now + o) % 24, r.duration, r.site) >= WindowCost(out, r.duration, r.site)
    <3>1. PICK a \in Int, b \in Int : a = f[o] /\ b = f[k]
      BY <2>5, <2>14
    <3>2. b <= a /\ (o < k => b < a)
      BY <2>9, <3>1
    <3>3. a = WindowCost((now + o) % 24, r.duration, r.site) /\ b = WindowCost(out, r.duration, r.site)
      BY <2>4, <2>14, <3>1
    <3>4. IF o < k THEN a > b ELSE a >= b
      BY <3>1, <3>2
    <3> QED BY <3>3, <3>4
  <2>17. ASSUME r.lookahead = 24, r.duration = 1, r.site.solar, r.site.load > 0,
                r.site.peak >= r.site.load
         PROVE  out \in 7..17
    <3>1. PICK o \in 0..23 : (now + o) % 24 = 12
      BY DayAhead
    <3>2. o \in 0..(n - 1)
      BY <2>3, <2>17
    <3>3. 12 \in 0..23 /\ EffectiveCost(12, r.site) = 0
      BY <2>2, <2>17, CostsAreNumbers
    <3>4. WindowCost(12, r.duration, r.site) = 0
      BY <2>2, <2>17, <3>3, WindowCosts
    <3>5. f[o] = 0
      BY <2>4, <3>1, <3>2, <3>4
    <3>6. f[k] <= 0
      BY <2>9, <3>2, <3>5
    <3>7. f[k] = EffectiveCost(out, r.site)
      BY <2>2, <2>13, <2>14, <2>17, WindowCosts
    <3>8. out \notin 7..17 => EffectiveCost(out, r.site) > 0 /\ EffectiveCost(out, r.site) \in Nat
      BY <2>2, <2>13, CostsAreNumbers
    <3> QED BY <3>6, <3>7, <3>8
  <2>18. (call.out - call.request.now + 24) % 24 = k
    BY <2>3, <2>12, <2>13
  <2> QED BY <2>3, <2>12, <2>15, <2>16, <2>17, <2>18, Zenon DEF SolarWindowIsCheapest
<1> QED BY <1>1, AnswersAreTheRequests, PTL

-----------------------------------------------------------------------------
(***************************************************************************)
(* The fleet scheduler                                                     *)
(***************************************************************************)

\* Tenths cut off one by one come to less than a whole each.
LEMMA TruncatedSum ==
    ASSUME NEW f, NEW h, NEW S, IsFiniteSet(S), \A x \in S : f[x] \in Nat /\ h[x] = f[x] \div 10
    PROVE  /\ SumFunctionOnSet(f, S) \in Nat
           /\ SumFunctionOnSet(h, S) \in Nat
           /\ SumFunctionOnSet(f, S) <= 10 * SumFunctionOnSet(h, S) + 9 * Cardinality(S)
<1>1. PICK P : P = {T \in SUBSET S :
            SumFunctionOnSet(f, T) <= 10 * SumFunctionOnSet(h, T) + 9 * Cardinality(T)}
  OBVIOUS
<1>2. \A x \in S : f[x] \in Nat /\ h[x] \in Nat /\ f[x] \in Int /\ h[x] \in Int
                  /\ f[x] <= 10 * h[x] + 9
  OBVIOUS
<1>3. ASSUME NEW T \in SUBSET S, \A U \in SUBSET T : U # T => U \in P PROVE T \in P
  <2>1. CASE T = {}
    <3>1. SumFunctionOnSet(f, T) = 0 /\ SumFunctionOnSet(h, T) = 0 /\ Cardinality(T) = 0
      BY <2>1, SumSteps, FS_EmptySet
    <3> QED BY <1>1, <3>1
  <2>2. CASE T # {}
    <3>c. PICK c \in T : TRUE
      BY <2>2
    <3>1. PICK U : U = T \ {c}
      OBVIOUS
    <3>2. IsFiniteSet(T) /\ IsFiniteSet(U)
      BY <3>1, FS_Subset
    <3>3. PICK a, b, n : /\ a = SumFunctionOnSet(f, U) /\ b = SumFunctionOnSet(h, U)
                         /\ n = Cardinality(U)
      OBVIOUS
    <3>4. /\ SumFunctionOnSet(f, T) = f[c] + a
          /\ SumFunctionOnSet(h, T) = h[c] + b
      BY <1>2, <3>1, <3>2, <3>3, SumWithout
    <3>5. a \in Nat /\ b \in Nat
      BY <1>2, <3>1, <3>2, <3>3, SumType
    <3>6. n \in Nat /\ Cardinality(T) = n + 1
      BY <3>1, <3>2, <3>3, FS_CardinalityType, FS_RemoveElement
    <3>7. U \in SUBSET T /\ U # T
      BY <3>1
    <3>8. U \in P
      BY <1>3, <3>7
    <3>9. a <= 10 * b + 9 * n
      BY <1>1, <3>3, <3>8
    <3>10. PICK x \in Nat, y \in Nat : x = f[c] /\ y = h[c] /\ x <= 10 * y + 9
      BY <1>2, <3>1
    <3>11. x + a <= 10 * (y + b) + 9 * (n + 1)
      BY <3>5, <3>6, <3>9, <3>10
    <3> QED BY <1>1, <3>4, <3>6, <3>10, <3>11
  <2> QED BY <2>1, <2>2
<1>4. S \in P
  BY <1>3, BySubsets
<1>5. SumFunctionOnSet(f, S) \in Nat /\ SumFunctionOnSet(h, S) \in Nat
  BY <1>2, SumType
<1> QED BY <1>1, <1>4, <1>5

LEMMA FleetInHand ==
    ASSUME PlannerInv, Answered("fleet")
    PROVE  \E r \in FleetRequests : \E plan \in FleetPlans(r.depot, r.status) : Made("fleet", r, plan)
BY DEF PlannerInv, Answered, Made, NoCall

LEMMA PlansAreFeasible ==
    ASSUME NEW r \in FleetRequests
    PROVE  FleetPlans(r.depot, r.status) \subseteq FeasiblePlans(r.depot)
<1>1. r.status = "OPTIMAL" \/ r.status = "FEASIBLE"
  BY FleetAssumption
<1>2. CASE r.status = "OPTIMAL"
  BY <1>2 DEF FleetPlans, OptimalPlans
<1>3. CASE r.status = "FEASIBLE"
  BY <1>3 DEF FleetPlans
<1> QED BY <1>1, <1>2, <1>3

LEMMA VehiclesAreFinite ==
    ASSUME NEW r \in FleetRequests
    PROVE  IsFiniteSet(Vehicles(r.depot))
<1>1. PICK s \in Seq([energy : Nat, emergency : BOOLEAN]) : s = r.depot.vehicles
  BY FleetAssumption
<1>2. DOMAIN s = 1..Len(s) /\ Len(s) \in Int /\ 1 \in Int
  OBVIOUS
<1>3. IsFiniteSet(DOMAIN s)
  BY <1>2, FS_Interval
<1> QED BY <1>1, <1>3 DEF Vehicles

\* Every vehicle is at a charger in time to finish, or goes without.
Placed(depot, plan) ==
    /\ plan \in [Vehicles(depot) -> UNION {Placements(depot, v) : v \in Vehicles(depot)}]
    /\ \A v \in Vehicles(depot) : plan[v] \in Placements(depot, v)

LEMMA FeasibleIs ==
    ASSUME NEW depot, NEW plan
    PROVE  plan \in FeasiblePlans(depot) <=>
             /\ Placed(depot, plan)
             /\ NoOverlap(depot, plan)
             /\ depot.feeder # NoFeeder => Peak(depot, plan) <= depot.feeder \div 10
BY Zenon DEF FeasiblePlans, Placed

\* A vehicle that charges is at a charger, which has a rating.
LEMMA ChargingDraws ==
    ASSUME NEW r \in FleetRequests, NEW plan, Placed(r.depot, plan), NEW t,
           NEW v \in Charging(r.depot, plan, t)
    PROVE  v \in Vehicles(r.depot) /\ r.depot.power[plan[v].charger] \in Nat
<1>1. v \in Vehicles(r.depot) /\ plan[v] # Unserved
  BY DEF Charging, Served
<1>2. plan[v] \in Placements(r.depot, v)
  BY <1>1 DEF Placed
<1>3. plan[v].charger \in Chargers(r.depot)
  BY <1>1, <1>2 DEF Placements
<1>4. PICK s \in Seq(Nat \ {0}) : s = r.depot.power
  BY FleetAssumption
<1>5. \A c \in DOMAIN s : s[c] \in Nat
  OBVIOUS
<1> QED BY <1>1, <1>3, <1>4, <1>5 DEF Chargers

LEMMA Draws ==
    ASSUME NEW r \in FleetRequests, NEW plan, Placed(r.depot, plan), NEW t
    PROVE  /\ IsFiniteSet(Charging(r.depot, plan, t))
           /\ RealDraw(r.depot, plan, t) \in Nat
           /\ WholeDraw(r.depot, plan, t) \in Nat
           /\ RealDraw(r.depot, plan, t)
                <= 10 * WholeDraw(r.depot, plan, t) + 9 * Cardinality(Charging(r.depot, plan, t))
<1>1. PICK C : C = Charging(r.depot, plan, t)
  OBVIOUS
<1>2. PICK f, h : /\ f = [v \in C |-> r.depot.power[plan[v].charger]]
                  /\ h = [v \in C |-> r.depot.power[plan[v].charger] \div 10]
  OBVIOUS
<1>3. \A v \in C : v \in Vehicles(r.depot) /\ r.depot.power[plan[v].charger] \in Nat
  BY <1>1, ChargingDraws
<1>4. \A v \in C : f[v] \in Nat /\ h[v] = f[v] \div 10
  BY <1>2, <1>3
<1>5. IsFiniteSet(C)
  BY <1>3, VehiclesAreFinite, FS_Subset
<1>6. /\ RealDraw(r.depot, plan, t) = SumFunctionOnSet(f, C)
      /\ WholeDraw(r.depot, plan, t) = SumFunctionOnSet(h, C)
  <2>1. DOMAIN f = C /\ DOMAIN h = C
    BY <1>2
  <2>2. RealDraw(r.depot, plan, t) = SumFunction(f) /\ WholeDraw(r.depot, plan, t) = SumFunction(h)
    BY <1>1, <1>2, Zenon DEF RealDraw, WholeDraw
  <2> QED BY <2>1, <2>2, Zenon DEF SumFunction
<1> QED BY <1>1, <1>4, <1>5, <1>6, TruncatedSum

LEMMA PeakIsHighest ==
    ASSUME NEW r \in FleetRequests, NEW plan, Placed(r.depot, plan)
    PROVE  /\ Peak(r.depot, plan) \in Nat
           /\ \A t \in HourSlots(r.depot) : WholeDraw(r.depot, plan, t) <= Peak(r.depot, plan)
           /\ \A b \in Nat :
                (\A t \in HourSlots(r.depot) : WholeDraw(r.depot, plan, t) <= b)
                  => Peak(r.depot, plan) <= b
<1>1. PICK H, w : H = HourSlots(r.depot) /\ w = [t \in H |-> WholeDraw(r.depot, plan, t)]
  OBVIOUS
<1>2. IsFiniteSet(H)
  <2>1. r.depot.horizon - 1 \in Int /\ 0 \in Int
    BY FleetAssumption
  <2> QED BY <1>1, <2>1, FS_Interval DEF HourSlots
<1>3. PICK S : S = {0} \cup {w[t] : t \in H}
  OBVIOUS
<1>4. \A t \in H : w[t] = WholeDraw(r.depot, plan, t) /\ w[t] \in Nat
  BY <1>1, Draws
<1>5. IsFiniteSet(S)
  <2>1. IsFiniteSet({w[t] : t \in H})
    BY <1>2, ValuesAreFinite
  <2>2. S = {w[t] : t \in H} \cup {0}
    BY <1>3
  <2> QED BY <2>1, <2>2, FS_AddElement
<1>6. S \in SUBSET Nat /\ S \in SUBSET Int /\ S # {}
  BY <1>3, <1>4
<1>7. Max(S) \in S /\ \A n \in S : n <= Max(S)
  BY <1>5, <1>6, Extremes
<1>8. Peak(r.depot, plan) = Max(S)
  <2>1. {w[t] : t \in H} = {WholeDraw(r.depot, plan, t) : t \in HourSlots(r.depot)}
    BY <1>1, <1>4, Zenon
  <2> QED BY <1>3, <2>1, Zenon DEF Peak
<1>9. ASSUME NEW t \in H PROVE WholeDraw(r.depot, plan, t) \in S
  BY <1>3, <1>4
<1>10. ASSUME NEW b \in Nat, \A t \in H : WholeDraw(r.depot, plan, t) <= b
       PROVE  Max(S) <= b
  <2>1. \A n \in S : n <= b
    BY <1>3, <1>4, <1>10
  <2> QED BY <1>7, <2>1
<1> QED BY <1>1, <1>6, <1>7, <1>8, <1>9, <1>10

\* Whatever the solver answers with, and for any depot, no charger has two vehicles at
\* a time and the feeder is exceeded by less than a kilowatt for each vehicle.
THEOREM FeederIsKept == PlannerSpec => []FeederIsExceededByTruncationOnly
<1>1. PlannerInv => FeederIsExceededByTruncationOnly
  <2>1. SUFFICES ASSUME PlannerInv, Answered("fleet") PROVE FeederIsExceededByTruncationOnly
    BY DEF FeederIsExceededByTruncationOnly
  <2>2. PICK r \in FleetRequests :
          \E plan \in FleetPlans(r.depot, r.status) : Made("fleet", r, plan)
    BY <2>1, FleetInHand
  <2>3. PICK plan \in FeasiblePlans(r.depot) : Made("fleet", r, plan)
    BY <2>2, PlansAreFeasible
  <2>7. Placed(r.depot, plan)
    BY FeasibleIs
  <2>4. ASSUME NEW t \in HourSlots(r.depot)
        PROVE  Cardinality({plan[v].charger : v \in Charging(r.depot, plan, t)})
                 = Cardinality(Charging(r.depot, plan, t))
    <3>1. PICK C, c : C = Charging(r.depot, plan, t) /\ c = [v \in C |-> plan[v].charger]
      OBVIOUS
    <3>2. PICK D : D = {plan[v].charger : v \in C}
      OBVIOUS
    <3>3. c \in Surjection(C, D)
      BY <3>1, <3>2 DEF Surjection
    <3>4. \A v, w \in C : plan[v].charger = plan[w].charger => v = w
      BY <2>4, <3>1 DEF FeasiblePlans, NoOverlap
    <3>5. c \in Injection(C, D)
      BY <3>1, <3>2, <3>4 DEF Injection, IsInjective
    <3>6. IsFiniteSet(C)
      BY <2>7, <3>1, Draws
    <3>7. Cardinality(D) = Cardinality(C)
      BY <3>3, <3>5, <3>6, FS_Surjection
    <3> QED BY <3>1, <3>2, <3>7
  <2>5. ASSUME NEW t \in HourSlots(r.depot), r.depot.feeder # NoFeeder
        PROVE  RealDraw(r.depot, plan, t)
                 <= r.depot.feeder + 9 * Cardinality(Charging(r.depot, plan, t))
    <3>1. PICK x, w, n, p, feeder :
            /\ x = RealDraw(r.depot, plan, t) /\ w = WholeDraw(r.depot, plan, t)
            /\ n = Cardinality(Charging(r.depot, plan, t)) /\ p = Peak(r.depot, plan)
            /\ feeder = r.depot.feeder
      OBVIOUS
    <3>2. x \in Nat /\ w \in Nat /\ n \in Nat /\ x <= 10 * w + 9 * n
      BY <2>7, <3>1, Draws, FS_CardinalityType
    <3>3. p \in Nat /\ w <= p
      BY <2>5, <2>7, <3>1, PeakIsHighest
    <3>4. p <= feeder \div 10
      BY <2>5, <3>1 DEF FeasiblePlans
    <3>5. feeder \in Nat
      BY <2>5, <3>1, FleetAssumption
    <3>6. x <= feeder + 9 * n
      BY <3>2, <3>3, <3>4, <3>5
    <3> QED BY <3>1, <3>6
  <2>6. call.request = r /\ call.out = plan
    BY <2>3 DEF Made
  <2> QED BY <2>4, <2>5, <2>6, Zenon DEF FeederIsExceededByTruncationOnly
<1> QED BY <1>1, AnswersAreTheRequests, PTL

-----------------------------------------------------------------------------
(***************************************************************************)
(* Capacity reports                                                        *)
(***************************************************************************)

LEMMA Division ==
    ASSUME NEW a \in Int, NEW b \in Nat \ {0}
    PROVE  a \div b \in Int /\ b * (a \div b) <= a /\ a < b * (a \div b) + b
OBVIOUS

\* A product with a larger factor is no smaller.
LEMMA Products ==
    ASSUME NEW a \in Int, NEW b \in Int, a <= b, NEW c \in Nat
    PROVE  /\ c * a \in Int /\ c * b \in Int
           /\ c * a <= c * b
OBVIOUS

\* CeilDiv is the least number of parts of b that hold a.
LEMMA CeilDivHolds ==
    ASSUME NEW a \in Nat, NEW b \in Nat \ {0}, NEW q, q = CeilDiv(a, b)
    PROVE  q \in Nat /\ b * q >= a /\ b * (q - 1) < a /\ (a = 0 => q = 0)
<1>1. PICK c : c = a + b - 1
  OBVIOUS
<1>2. c \in Nat /\ q = c \div b
  BY <1>1 DEF CeilDiv
<1>3. q \in Int /\ b * q <= c /\ c < b * q + b
  BY <1>2, Division
<1>4. q \in Nat
  <2>1. SUFFICES ASSUME q < 0 PROVE FALSE
    BY <1>3
  <2>2. q <= -1 /\ -1 \in Int
    BY <1>3, <2>1
  <2>3. b * q <= b * (-1)
    BY <1>3, <2>2, Products
  <2> QED BY <1>2, <1>3, <2>3
<1>5. b * (q - 1) = b * q - b
  BY <1>3
<1>6. b * q \in Int
  BY <1>3
<1>7. b * q >= a /\ b * (q - 1) < a
  BY <1>1, <1>3, <1>5, <1>6
<1>8. ASSUME a = 0 PROVE q = 0
  <2>1. SUFFICES ASSUME q >= 1 PROVE FALSE
    BY <1>4
  <2>2. b * 1 <= b * q
    BY <1>4, <2>1, Products
  <2> QED BY <1>1, <1>3, <1>6, <1>8, <2>2
<1> QED BY <1>4, <1>7, <1>8

\* The stations that are called for carry what is missing, none to spare.
LEMMA StationsCarry ==
    ASSUME NEW a \in Nat, NEW station \in Nat \ {0}, NEW ratio \in 1..100,
           NEW q, q = AdditionalStations(a, station, ratio)
    PROVE  /\ q \in Nat
           /\ (station * ratio) * q >= a * 100
           /\ q > 0 => (station * ratio) * (q - 1) < a * 100
<1>1. PICK b : b = station * ratio
  OBVIOUS
<1>2. b \in Nat \ {0}
  BY <1>1
<1>3. CASE a <= 0
  <2>1. q = 0 /\ a = 0
    BY <1>3 DEF AdditionalStations
  <2> QED BY <1>1, <1>2, <2>1
<1>4. CASE a > 0
  <2>1. PICK c \in Nat : c = a * 100
    OBVIOUS
  <2>2. q = CeilDiv(c, b)
    BY <1>1, <1>4, <2>1 DEF AdditionalStations
  <2>3. q \in Nat /\ b * q >= c /\ b * (q - 1) < c
    BY <1>2, <2>1, <2>2, CeilDivHolds
  <2> QED BY <1>1, <2>1, <2>3
<1> QED BY <1>3, <1>4

\* Fewer of the fleet available never calls for fewer stations.
LEMMA DeratedIsNoFewer ==
    ASSUME NEW a \in Nat, NEW station \in Nat \ {0}, NEW ratio \in 1..100
    PROVE  AdditionalStations(a, station, ratio) >= AdditionalStations(a, station, 100)
<1>1. PICK d, n : d = AdditionalStations(a, station, ratio) /\ n = AdditionalStations(a, station, 100)
  OBVIOUS
<1>2. d \in Nat /\ (station * ratio) * d >= a * 100
  BY <1>1, StationsCarry
<1>3. PICK all \in 1..100 : all = 100
  OBVIOUS
<1>4. n \in Nat /\ (n > 0 => (station * 100) * (n - 1) < a * 100)
  <2>1. n = AdditionalStations(a, station, all)
    BY <1>1, <1>3
  <2>2. n \in Nat /\ (n > 0 => (station * all) * (n - 1) < a * 100)
    BY <2>1, StationsCarry
  <2> QED BY <1>3, <2>2
<1>5. SUFFICES ASSUME d < n PROVE FALSE
  BY <1>1, <1>2, <1>4
<1>6. PICK b, c : b = station * ratio /\ c = station * 100
  OBVIOUS
<1>7. b \in Nat /\ c \in Nat /\ b <= c
  BY <1>6, Products
<1>8. d <= n - 1 /\ n > 0 /\ n - 1 \in Nat
  BY <1>2, <1>4, <1>5
<1>9. d * b <= d * c /\ d * b = b * d /\ d * c = c * d
  BY <1>2, <1>7, Products
<1>10. c * d <= c * (n - 1)
  BY <1>2, <1>7, <1>8, Products
<1>11. b * d \in Int /\ c * d \in Int /\ c * (n - 1) \in Int /\ a * 100 \in Int
  BY <1>2, <1>7, <1>8
<1>12. b * d >= a * 100 /\ c * (n - 1) < a * 100
  BY <1>2, <1>4, <1>6, <1>8
<1> QED BY <1>9, <1>10, <1>11, <1>12

LEMMA RatioIsPercent ==
    ASSUME NEW total \in Nat, NEW maintenance \in Nat
    PROVE  AvailabilityRatio(total, maintenance) \in 1..100
<1>1. CASE total = 0
  BY <1>1 DEF AvailabilityRatio
<1>2. CASE total # 0
  <2>1. PICK q, x : x = (total - maintenance) * 100 /\ q = x \div total
    OBVIOUS
  <2>2. x \in Int /\ x <= total * 100 /\ total \in Nat \ {0}
    BY <1>2, <2>1
  <2>3. q \in Int /\ total * q <= x
    BY <2>1, <2>2, Division
  <2>4. q <= 100
    <3>1. SUFFICES ASSUME q >= 101 PROVE FALSE
      BY <2>3
    <3>2. total * 101 <= total * q /\ total * q \in Int
      BY <2>3, <3>1, Products
    <3> QED BY <1>2, <2>2, <2>3, <3>2
  <2>5. Max({1, q}) = IF 1 <= q THEN q ELSE 1
    BY <2>3, LesserOfTwo
  <2>6. AvailabilityRatio(total, maintenance) = Max({1, q})
    BY <1>2, <2>1 DEF AvailabilityRatio
  <2> QED BY <2>3, <2>4, <2>5, <2>6
<1> QED BY <1>1, <1>2

LEMMA RoundToType ==
    ASSUME NEW n \in Nat
    PROVE  RoundTo(n, 10) \in Nat
BY DEF RoundTo

LEMMA LoadsAreNumbers ==
    ASSUME NEW baseline \in Nat, NEW m \in Nat, NEW power \in Nat, NEW share \in Nat,
           NEW load, load = StressLoad(CeilDiv(baseline * m, 100), power, share)
    PROVE  load \in Nat /\ (m = 0 => load = 0)
<1>1. PICK a, q : a = baseline * m /\ q = CeilDiv(a, 100)
  OBVIOUS
<1>2. a \in Nat /\ (m = 0 => a = 0) /\ 100 \in Nat \ {0}
  BY <1>1
<1>3. q \in Nat /\ (a = 0 => q = 0)
  BY <1>1, <1>2, CeilDivHolds
<1>4. PICK p, x : p = q * share /\ x = p * power
  OBVIOUS
<1>5. p \in Nat /\ (q = 0 => p = 0)
  BY <1>3, <1>4
<1>6. x \in Nat /\ (q = 0 => x = 0)
  BY <1>4, <1>5
<1>7. load = x \div 100
  BY <1>1, <1>4 DEF StressLoad
<1> QED BY <1>2, <1>3, <1>6, <1>7

AllLevelsFit(capacity, baseline, power, share, multipliers) ==
    \A m \in {multipliers[i] : i \in DOMAIN multipliers} :
        StressLoad(CeilDiv(baseline * m, 100), power, share) <= capacity

\* A sweep asks for a capacity that is not negative, and has a breaking point exactly
\* when a level overloads the feeder.
LEMMA SweepReports ==
    ASSUME NEW capacity \in Nat, NEW baseline \in Nat, NEW power \in Nat, NEW share \in Nat,
           NEW multipliers \in Seq(Nat),
           NEW o, o = SweepDensity(capacity, baseline, power, share, multipliers)
    PROVE  /\ o.additional \in Nat
           /\ o.breaking = NoBreak => AllLevelsFit(capacity, baseline, power, share, multipliers)
           /\ AllLevelsFit(capacity, baseline, power, share, multipliers) => o.breaking = NoBreak
<1>1. PICK load :
        load = [i \in DOMAIN multipliers |->
                  StressLoad(CeilDiv(baseline * multipliers[i], 100), power, share)]
  OBVIOUS
<1>2. PICK results :
        results = [i \in DOMAIN multipliers |->
                     [count |-> CeilDiv(baseline * multipliers[i], 100),
                      load |-> RoundTo(load[i], 10), overloaded |-> load[i] > capacity]]
  OBVIOUS
<1>3. PICK broken, S :
        /\ broken = {i \in DOMAIN results : results[i].overloaded}
        /\ S = {0} \cup {results[i].load : i \in DOMAIN results}
  OBVIOUS
<1>4. o = [results |-> results,
           breaking |-> IF broken = {} THEN NoBreak ELSE multipliers[Min(broken)],
           additional |-> RoundTo(Max({0, Max(S) - capacity}), 10)]
  <2>1. results = [i \in DOMAIN multipliers |->
          LET count == CeilDiv(baseline * multipliers[i], 100)
              l == StressLoad(count, power, share)
          IN [count |-> count, load |-> RoundTo(l, 10), overloaded |-> l > capacity]]
    BY <1>1, <1>2
  <2> QED BY <1>3, <2>1, ZenonT(40) DEF SweepDensity
<1>5. DOMAIN results = DOMAIN multipliers /\ DOMAIN load = DOMAIN multipliers
  BY <1>1, <1>2
<1>6. DOMAIN multipliers = 1..Len(multipliers) /\ Len(multipliers) \in Nat
  OBVIOUS
<1>7. ASSUME NEW i \in DOMAIN multipliers
      PROVE  /\ multipliers[i] \in Nat /\ load[i] \in Nat /\ (multipliers[i] = 0 => load[i] = 0)
             /\ results[i].load = RoundTo(load[i], 10) /\ results[i].load \in Nat
             /\ results[i].overloaded = (load[i] > capacity)
  <2>1. PICK m \in Nat : m = multipliers[i]
    OBVIOUS
  <2>2. load[i] = StressLoad(CeilDiv(baseline * m, 100), power, share)
    BY <1>1, <2>1
  <2>3. load[i] \in Nat /\ (m = 0 => load[i] = 0)
    BY <2>2, LoadsAreNumbers
  <2>4. results[i].load = RoundTo(load[i], 10) /\ results[i].overloaded = (load[i] > capacity)
    BY <1>2, Zenon
  <2> QED BY <2>1, <2>3, <2>4, RoundToType
<1>8. IsFiniteSet(DOMAIN multipliers)
  <2>1. 1 \in Int /\ Len(multipliers) \in Int
    BY <1>6
  <2> QED BY <1>6, <2>1, FS_Interval
<1>9. Max(S) \in Nat
  <2>1. PICK f : f = [i \in DOMAIN multipliers |-> results[i].load]
    OBVIOUS
  <2>2. S = {f[i] : i \in DOMAIN multipliers} \cup {0}
    BY <1>3, <1>5, <2>1
  <2>3. IsFiniteSet(S)
    <3>1. IsFiniteSet({f[i] : i \in DOMAIN multipliers})
      BY <1>8, ValuesAreFinite, Zenon
    <3> QED BY <2>2, <3>1, FS_AddElement, Zenon
  <2>4. S \in SUBSET Nat /\ S \in SUBSET Int /\ S # {}
    BY <1>3, <1>5, <1>7
  <2> QED BY <2>3, <2>4, Extremes
<1>10. o.additional \in Nat
  <2>1. PICK x \in Int : x = Max(S) - capacity
    BY <1>9
  <2>2. Max({0, x}) = IF 0 <= x THEN x ELSE 0
    <3>1. 0 \in Int
      OBVIOUS
    <3> QED BY <3>1, LesserOfTwo, Zenon
  <2>3. PICK y \in Nat : y = Max({0, x})
    BY <2>2
  <2>4. o.additional = RoundTo(y, 10)
    BY <1>4, <2>1, <2>3
  <2> QED BY <2>4, RoundToType
<1>11. broken \in SUBSET (DOMAIN multipliers)
       /\ \A i \in DOMAIN multipliers : i \in broken <=> load[i] > capacity
  BY <1>3, <1>5, <1>7
<1>12. (broken = {}) <=> \A i \in DOMAIN multipliers : load[i] <= capacity
  <2>1. \A i \in DOMAIN multipliers : (load[i] > capacity) <=> ~(load[i] <= capacity)
    BY <1>7
  <2> QED BY <1>11, <2>1, Zenon
<1>13. (o.breaking = NoBreak) <=> (broken = {})
  <2>1. ASSUME broken # {} PROVE multipliers[Min(broken)] # NoBreak
    <3>1. IsFiniteSet(broken)
      BY <1>8, <1>11, FS_Subset
    <3>2. broken \in SUBSET Int
      BY <1>6, <1>11
    <3>3. Min(broken) \in broken
      BY <2>1, <3>1, <3>2, Extremes
    <3>4. PICK i \in DOMAIN multipliers : i = Min(broken) /\ load[i] > capacity
      BY <1>11, <3>3
    <3>5. load[i] # 0
      BY <1>7, <3>4
    <3> QED BY <1>7, <3>4, <3>5 DEF NoBreak
  <2>2. o.breaking = IF broken = {} THEN NoBreak ELSE multipliers[Min(broken)]
    BY <1>4
  <2> QED BY <2>1, <2>2
<1>14. (\A i \in DOMAIN multipliers : load[i] <= capacity)
         <=> AllLevelsFit(capacity, baseline, power, share, multipliers)
  BY <1>1, Zenon DEF AllLevelsFit
<1> QED BY <1>10, <1>12, <1>13, <1>14, Zenon

\* Every vehicle up to the safe count finds its headroom, and one more takes the margin.
LEMMA SafeCountIsSafe ==
    ASSUME NEW capacity \in Nat, NEW power \in Nat \ {0}, NEW margin \in 0..100,
           NEW q, q = SafeVehicleCount(capacity, power, 100, margin)
    PROVE  /\ \A n \in 1..q : RespectsHeadroom((n - 1) * power, capacity, power)
           /\ (q + 1) * power * 100 > capacity * margin
<1>1. PICK b, c : b = power * 100 /\ c = capacity * margin
  OBVIOUS
<1>2. b \in Nat \ {0} /\ c \in Nat /\ c <= capacity * 100
  BY <1>1, Products
<1>3. PICK d : d = c \div b
  OBVIOUS
<1>4. d \in Int /\ b * d <= c /\ c < b * d + b
  BY <1>2, <1>3, Division
<1>5. q = IF 0 <= d THEN d ELSE 0
  <2>1. Max({0, d}) = IF 0 <= d THEN d ELSE 0
    <3>1. 0 \in Int /\ d \in Int
      BY <1>4
    <3> QED BY <3>1, LesserOfTwo, Zenon
  <2>2. q = Max({0, d})
    BY <1>1, <1>2, <1>3 DEF SafeVehicleCount
  <2> QED BY <2>1, <2>2
<1>6. d >= 0
  <2>1. SUFFICES ASSUME d <= -1 PROVE FALSE
    BY <1>4
  <2>2. b * d <= b * (-1)
    BY <1>2, <1>4, <2>1, Products
  <2> QED BY <1>2, <1>4, <2>2
<1>7. q = d
  BY <1>5, <1>6
<1>8. (q + 1) * power * 100 > capacity * margin
  <2>1. (q + 1) * power * 100 = b * d + b
    BY <1>1, <1>4, <1>7
  <2> QED BY <1>1, <1>4, <2>1
<1>9. ASSUME NEW n \in 1..q PROVE RespectsHeadroom((n - 1) * power, capacity, power)
  <2>1. n \in Nat /\ n <= d
    BY <1>4, <1>7
  <2>2. power * n <= power * d /\ power * n \in Int /\ power * d \in Int
    BY <1>4, <2>1, Products
  <2>3. b * d = (power * d) * 100
    BY <1>1, <1>4
  <2>4. power * d <= capacity
    BY <1>2, <1>4, <2>2, <2>3
  <2>5. (n - 1) * power + power = power * n
    BY <2>1
  <2> QED BY <2>2, <2>4, <2>5 DEF RespectsHeadroom
<1> QED BY <1>8, <1>9

LEMMA CapacityInHand ==
    ASSUME PlannerInv
    PROVE  /\ Answered("stress") => \E r \in StressRequests : Made("stress", r, StressAnswer(r))
           /\ Answered("grid") =>
                \E r \in GridRequests :
                  Made("grid", r, SafeVehicleCount(r.capacity, r.power, r.share, r.margin))
BY DEF PlannerInv, Answered, Made, NoCall

\* The stations called for carry what is missing and none is to spare, derating never
\* calls for fewer, and the vehicles a mini-grid allows have their headroom, whatever
\* the loads, ratings, shares and margins.
THEOREM ReportsAddUp == PlannerSpec => []CapacityReportsAddUp
<1>1. ASSUME PlannerInv, Answered("stress"),
             NEW r \in StressRequests, Made("stress", r, StressAnswer(r))
      PROVE  LET o == call.out
                 ratio == AvailabilityRatio(r.total, r.maintenance)
             IN /\ call.request = r
                /\ o.derated >= o.naive
                /\ o.naive * r.station >= o.report.additional
                /\ o.derated * r.station * ratio >= o.report.additional * 100
                /\ o.derated > 0 =>
                     (o.derated - 1) * r.station * ratio < o.report.additional * 100
                /\ (o.report.breaking = NoBreak) =
                     (\A m \in {r.multipliers[i] : i \in DOMAIN r.multipliers} :
                        StressLoad(CeilDiv(r.baseline * m, 100), r.power, r.share) <= r.capacity)
  <2>1. /\ r.capacity \in Nat /\ r.baseline \in Nat /\ r.power \in Nat /\ r.share \in Nat
        /\ r.multipliers \in Seq(Nat) /\ r.station \in Nat \ {0}
        /\ r.total \in Nat /\ r.maintenance \in Nat
    BY CapacityAssumption
  <2>2. PICK report, station, ratio :
          /\ report = SweepDensity(r.capacity, r.baseline, r.power, r.share, r.multipliers)
          /\ station = r.station /\ ratio = AvailabilityRatio(r.total, r.maintenance)
    OBVIOUS
  <2>3. PICK a : a = report.additional
    OBVIOUS
  <2>4. /\ a \in Nat
        /\ (report.breaking = NoBreak) =
             (\A m \in {r.multipliers[i] : i \in DOMAIN r.multipliers} :
                StressLoad(CeilDiv(r.baseline * m, 100), r.power, r.share) <= r.capacity)
    <3>1. /\ a \in Nat
          /\ report.breaking = NoBreak
               <=> AllLevelsFit(r.capacity, r.baseline, r.power, r.share, r.multipliers)
      <4>1. /\ r.capacity \in Nat /\ r.baseline \in Nat /\ r.power \in Nat /\ r.share \in Nat
            /\ r.multipliers \in Seq(Nat)
            /\ report = SweepDensity(r.capacity, r.baseline, r.power, r.share, r.multipliers)
        BY <2>1, <2>2
      <4>2. /\ report.additional \in Nat
            /\ report.breaking = NoBreak
                 <=> AllLevelsFit(r.capacity, r.baseline, r.power, r.share, r.multipliers)
        BY <4>1, SweepReports, Z3T(40)
      <4> QED BY <2>3, <4>2
    <3>2. (report.breaking = NoBreak)
            = AllLevelsFit(r.capacity, r.baseline, r.power, r.share, r.multipliers)
      BY <3>1 DEF AllLevelsFit
    <3> QED BY <3>1, <3>2, Zenon DEF AllLevelsFit
  <2>5. ratio \in 1..100 /\ 100 \in 1..100 /\ station \in Nat \ {0}
    <3>1. 100 \in 1..100
      OBVIOUS
    <3>2. ratio \in 1..100
      BY <2>1, <2>2, RatioIsPercent, Zenon
    <3> QED BY <2>1, <2>2, <3>1, <3>2, Zenon
  <2>6. PICK n, d : /\ n = AdditionalStations(a, station, 100)
                    /\ d = AdditionalStations(a, station, ratio)
    OBVIOUS
  <2>7. n \in Nat /\ (station * 100) * n >= a * 100
    BY <2>4, <2>5, <2>6, StationsCarry, SMTT(30)
  <2>8. /\ d \in Nat /\ (station * ratio) * d >= a * 100
        /\ d > 0 => (station * ratio) * (d - 1) < a * 100
    BY <2>4, <2>5, <2>6, StationsCarry
  <2>9. d >= n
    BY <2>4, <2>5, <2>6, DeratedIsNoFewer
  <2>10. n * station >= a
    <3>1. (station * 100) * n = (n * station) * 100 /\ n * station \in Nat
      BY <2>5, <2>7
    <3> QED BY <2>4, <2>7, <3>1
  <2>11. /\ d * station * ratio = (station * ratio) * d
         /\ (d - 1) * station * ratio = (station * ratio) * (d - 1)
    BY <2>5, <2>8
  <2>12. call.request = r /\ call.out = [report |-> report, naive |-> n, derated |-> d]
    BY <1>1, <2>2, <2>3, <2>6 DEF Made, StressAnswer
  <2>13. call.out.report = report /\ call.out.naive = n /\ call.out.derated = d
    BY <2>12
  <2> QED BY <2>2, <2>3, <2>4, <2>8, <2>9, <2>10, <2>11, <2>12, <2>13, Zenon
<1>2. ASSUME PlannerInv, Answered("grid"), NEW r \in GridRequests,
             Made("grid", r, SafeVehicleCount(r.capacity, r.power, r.share, r.margin)),
             r.share = 100, r.power > 0
      PROVE  /\ \A n \in 1..call.out : RespectsHeadroom((n - 1) * r.power, r.capacity, r.power)
             /\ (call.out + 1) * r.power * 100 > r.capacity * r.margin
  <2>1. r.capacity \in Nat /\ r.power \in Nat \ {0} /\ r.margin \in 0..100
    BY <1>2, CapacityAssumption
  <2>2. call.out = SafeVehicleCount(r.capacity, r.power, 100, r.margin)
    BY <1>2 DEF Made
  <2> QED BY <2>1, <2>2, SafeCountIsSafe
<1>3. PlannerInv => CapacityReportsAddUp
  <2>1. ASSUME PlannerInv, Answered("grid"), call.request.share = 100, call.request.power > 0
        PROVE  LET r == call.request
               IN /\ \A n \in 1..call.out : RespectsHeadroom((n - 1) * r.power, r.capacity, r.power)
                  /\ (call.out + 1) * r.power * 100 > r.capacity * r.margin
    <3>1. PICK r \in GridRequests :
            Made("grid", r, SafeVehicleCount(r.capacity, r.power, r.share, r.margin))
      BY <2>1, CapacityInHand
    <3>2. call.request = r
      BY <3>1 DEF Made
    <3> QED BY <1>2, <2>1, <3>1, <3>2, Zenon
  <2>2. ASSUME PlannerInv, Answered("stress")
        PROVE  LET r == call.request
                   o == call.out
                   ratio == AvailabilityRatio(r.total, r.maintenance)
               IN /\ o.derated >= o.naive
                  /\ o.naive * r.station >= o.report.additional
                  /\ o.derated * r.station * ratio >= o.report.additional * 100
                  /\ o.derated > 0 =>
                       (o.derated - 1) * r.station * ratio < o.report.additional * 100
                  /\ (o.report.breaking = NoBreak) =
                       (\A m \in {r.multipliers[i] : i \in DOMAIN r.multipliers} :
                          StressLoad(CeilDiv(r.baseline * m, 100), r.power, r.share) <= r.capacity)
    <3>1. PICK r \in StressRequests : Made("stress", r, StressAnswer(r))
      BY <2>2, CapacityInHand
    <3>2. call.request = r
      BY <3>1 DEF Made
    <3> QED BY <1>1, <2>2, <3>1, <3>2, Zenon
  <2> QED BY <2>1, <2>2, Zenon DEF CapacityReportsAddUp
<1> QED BY <1>3, AnswersAreTheRequests, PTL

-----------------------------------------------------------------------------
\* A sorted list: what InOrder chooses exists, and is the set in its order.

\* R is a strict total order on S.
TotalOrder(R, S) ==
    /\ \A x \in S : <<x, x>> \notin R
    /\ \A x, y \in S : x # y => <<x, y>> \in R \/ <<y, x>> \in R
    /\ \A x, y, z \in S : <<x, y>> \in R /\ <<y, z>> \in R => <<x, z>> \in R

\* A finite set that is not empty has a last element.
LEMMA LastExists ==
    ASSUME NEW S, IsFiniteSet(S), NEW R, TotalOrder(R, S), S # {}
    PROVE  \E c \in S : \A x \in S \ {c} : <<x, c>> \in R
<1>1. PICK P : P = {T \in SUBSET S : T # {} => \E c \in T : \A x \in T \ {c} : <<x, c>> \in R}
  OBVIOUS
<1>2. ASSUME NEW T \in SUBSET S, \A U \in SUBSET T : U # T => U \in P PROVE T \in P
  <2>1. SUFFICES ASSUME T # {} PROVE \E c \in T : \A x \in T \ {c} : <<x, c>> \in R
    BY <1>1
  <2>2. PICK d \in T : TRUE
    BY <2>1
  <2>3. PICK U : U = T \ {d}
    OBVIOUS
  <2>4. CASE U = {}
    BY <2>3, <2>4
  <2>5. CASE U # {}
    <3>1. PICK c \in U : \A x \in U \ {c} : <<x, c>> \in R
      BY <1>1, <1>2, <2>3, <2>5
    <3>2. c \in T /\ c # d /\ c \in S /\ d \in S
      BY <2>3, <3>1
    <3>3. CASE <<d, c>> \in R
      <4>1. \A x \in T \ {c} : <<x, c>> \in R
        BY <2>3, <3>1, <3>3
      <4> QED BY <3>2, <4>1
    <3>4. CASE <<c, d>> \in R
      <4>1. \A x \in T \ {d} : <<x, d>> \in R
        BY <2>3, <3>1, <3>2, <3>4 DEF TotalOrder
      <4> QED BY <4>1
    <3> QED BY <3>2, <3>3, <3>4 DEF TotalOrder
  <2> QED BY <2>4, <2>5
<1>3. S \in P
  BY <1>2, BySubsets
<1> QED BY <1>1, <1>3

Sorted(s, S, R) ==
    /\ s \in [1..Cardinality(S) -> S]
    /\ \A m, n \in DOMAIN s : m < n => <<s[m], s[n]>> \in R

LEMMA SortedExists ==
    ASSUME NEW S, IsFiniteSet(S), NEW R, TotalOrder(R, S)
    PROVE  \E s : Sorted(s, S, R)
<1>1. PICK P : P = {T \in SUBSET S : \E s : Sorted(s, T, R)}
  OBVIOUS
<1>2. ASSUME NEW T \in SUBSET S, \A U \in SUBSET T : U # T => U \in P PROVE T \in P
  <2>1. CASE T = {}
    <3>1. 1..Cardinality(T) = {}
      BY <2>1, FS_EmptySet
    <3>2. Sorted([i \in 1..Cardinality(T) |-> i], T, R)
      BY <3>1 DEF Sorted
    <3> QED BY <1>1, <3>2
  <2>2. CASE T # {}
    <3>1. IsFiniteSet(T) /\ TotalOrder(R, T)
      BY FS_Subset DEF TotalOrder
    <3>2. PICK c \in T : \A x \in T \ {c} : <<x, c>> \in R
      BY <2>2, <3>1, LastExists
    <3>3. PICK U : U = T \ {c}
      OBVIOUS
    <3>4. PICK s : Sorted(s, U, R)
      BY <1>1, <1>2, <3>3
    <3>5. PICK n : n = Cardinality(U)
      OBVIOUS
    <3>6. n \in Nat /\ Cardinality(T) = n + 1
      <4>1. IsFiniteSet(U)
        BY <3>1, <3>3, FS_Subset
      <4>2. Cardinality(U) = Cardinality(T) - 1
        BY <3>1, <3>3, FS_RemoveElement
      <4> QED BY <3>1, <3>5, <4>1, <4>2, FS_CardinalityType
    <3>7. PICK q : q = [i \in 1..(n + 1) |-> IF i = n + 1 THEN c ELSE s[i]]
      OBVIOUS
    <3>8. s \in [1..n -> U] /\ \A i, j \in 1..n : i < j => <<s[i], s[j]>> \in R
      BY <3>4, <3>5 DEF Sorted
    <3>9. q \in [1..(n + 1) -> T]
      BY <3>3, <3>6, <3>7, <3>8
    <3>10. ASSUME NEW i \in 1..(n + 1), NEW j \in 1..(n + 1), i < j PROVE <<q[i], q[j]>> \in R
      <4>1. i \in 1..n /\ q[i] = s[i] /\ s[i] \in U
        BY <3>6, <3>7, <3>8, <3>10
      <4>2. CASE j = n + 1
        BY <3>2, <3>3, <3>7, <4>1, <4>2
      <4>3. CASE j # n + 1
        <5>1. j \in 1..n /\ q[j] = s[j]
          BY <3>6, <3>7, <4>3
        <5> QED BY <3>8, <3>10, <4>1, <5>1
      <4> QED BY <4>2, <4>3
    <3>11. Sorted(q, T, R)
      BY <3>6, <3>9, <3>10 DEF Sorted
    <3> QED BY <1>1, <3>11
  <2> QED BY <2>1, <2>2
<1>3. S \in P
  BY <1>2, BySubsets
<1> QED BY <1>1, <1>3

InOrderOf(s, n, S, R) ==
    /\ n \in Nat
    /\ s \in [1..n -> S]
    /\ \A i, j \in 1..n : i < j => <<s[i], s[j]>> \in R /\ s[i] # s[j]
    /\ \A x \in S : \E i \in 1..n : s[i] = x

LEMMA InOrderIs ==
    ASSUME NEW S, IsFiniteSet(S), NEW R, TotalOrder(R, S)
    PROVE  InOrderOf(InOrder(S, R), Cardinality(S), S, R)
<1>0. PICK s, n : s = InOrder(S, R) /\ n = Cardinality(S)
  OBVIOUS
<1>1. n \in Nat
  BY <1>0, FS_CardinalityType
<1>2. s = CHOOSE q : Sorted(q, S, R)
  BY <1>0 DEF InOrder, Sorted
<1>3. Sorted(s, S, R)
  BY <1>2, SortedExists
<1>4. s \in [1..n -> S] /\ \A i, j \in 1..n : i < j => <<s[i], s[j]>> \in R
  BY <1>0, <1>3 DEF Sorted
<1>5. \A i, j \in 1..n : i < j => <<s[i], s[j]>> \in R /\ s[i] # s[j]
  BY <1>4 DEF TotalOrder
<1>6. s \in Injection(1..n, S)
  <2>1. ASSUME NEW i \in 1..n, NEW j \in 1..n, s[i] = s[j], i # j PROVE FALSE
    <3>1. i < j \/ j < i
      BY <2>1
    <3> QED BY <1>5, <2>1, <3>1
  <2>2. DOMAIN s = 1..n
    BY <1>4
  <2> QED BY <1>4, <2>1, <2>2 DEF Injection, IsInjective
<1>7. Cardinality(1..n) = n /\ IsFiniteSet(1..n)
  BY <1>1, FS_Interval
<1>8. s \in Surjection(1..n, S)
  BY <1>0, <1>6, <1>7, FS_Injection
<1>9. InOrderOf(s, n, S, R)
  BY <1>1, <1>4, <1>5, <1>8 DEF Surjection, InOrderOf
<1> QED BY <1>0, <1>9

-----------------------------------------------------------------------------
\* The ranking of the candidates.

RankedCandidate ==
    [kind : {"charge", "swap"}, connector : STRING, status : STRING,
     distance : Nat, wait : Nat, cost : Nat, congestion : Nat,
     verified : Nat \cup {NeverVerified}, safety : 0..1000]

LEMMA RankInHand ==
    ASSUME PlannerInv, Answered("rank")
    PROVE  \E r \in RankRequests :
             /\ Made("rank", r, RankCandidates(r.vehicle, r.candidates, r.hour, r.solo))
             /\ r.vehicle.pluggable \in BOOLEAN /\ r.hour \in 0..23 /\ r.solo \in BOOLEAN
             /\ r.candidates \in Seq(RankedCandidate)
<1>1. \E r \in RankRequests :
        Made("rank", r, RankCandidates(r.vehicle, r.candidates, r.hour, r.solo))
  BY DEF PlannerInv, Answered, Made, NoCall
<1>2. \A r \in RankRequests :
        /\ r.vehicle.pluggable \in BOOLEAN /\ r.hour \in 0..23 /\ r.solo \in BOOLEAN
        /\ r.candidates \in Seq(RankedCandidate)
  BY RankAssumption, Zenon DEF RankedCandidate
<1> QED BY <1>1, <1>2

\* A safety is a number of thousandths.
LEMMA SafetiesAre ==
    ASSUME NEW c \in RankedCandidate
    PROVE  c.safety \in Int /\ 8 * (1000 - c.safety) \in Nat
<1>1. c.safety \in 0..1000
  BY DEF RankedCandidate
<1>2. PICK x \in 0..1000 : x = c.safety
  BY <1>1
<1>3. x \in Int /\ 8 * (1000 - x) \in Nat
  OBVIOUS
<1> QED BY <1>2, <1>3

\* What a candidate's score adds up from.
LEMMA ScoresAre ==
    ASSUME NEW c \in RankedCandidate, NEW hour \in 0..23, NEW solo \in BOOLEAN
    PROVE  /\ StalenessHours(c) \in Nat
           /\ StalenessHours(c) = IF c.verified = NeverVerified THEN 999 ELSE c.verified
           /\ SafetyPenalty(c.safety, hour, solo) \in Nat
           /\ SafetyPenalty(c.safety, hour, solo) =
                IF solo /\ hour \in 20..23 \cup 0..4 THEN 8 * (1000 - c.safety) ELSE 0
           /\ Score(c, hour, solo) \in Int
<1>1. /\ c.distance \in Nat /\ c.wait \in Nat /\ c.cost \in Nat /\ c.congestion \in Nat
      /\ c.verified \in Nat \cup {NeverVerified} /\ c.safety \in 0..1000
  BY DEF RankedCandidate
<1>2. /\ StalenessHours(c) \in Nat
      /\ StalenessHours(c) = IF c.verified = NeverVerified THEN 999 ELSE c.verified
  <2>1. CASE c.verified = NeverVerified
    BY <2>1 DEF StalenessHours
  <2>2. CASE c.verified # NeverVerified
    <3>1. c.verified \in Nat
      BY <1>1, <2>2
    <3>2. Max({0, c.verified}) = c.verified
      <4>1. Max({0, c.verified}) = IF 0 <= c.verified THEN c.verified ELSE 0
        <5>1. 0 \in Int /\ c.verified \in Int
          BY <3>1
        <5> QED BY <5>1, LesserOfTwo, Zenon
      <4> QED BY <3>1, <4>1
    <3> QED BY <2>2, <3>1, <3>2 DEF StalenessHours
  <2> QED BY <2>1, <2>2
<1>3. IsNightHour(hour) <=> hour \in 20..23 \cup 0..4
  BY DEF IsNightHour
<1>4. /\ SafetyPenalty(c.safety, hour, solo) \in Nat
      /\ SafetyPenalty(c.safety, hour, solo) =
           IF solo /\ hour \in 20..23 \cup 0..4 THEN 8 * (1000 - c.safety) ELSE 0
  <2>1. 8 * (1000 - c.safety) \in Nat
    BY SafetiesAre
  <2> QED BY <1>3, <2>1 DEF SafetyPenalty
<1>5. PICK h, p : h = StalenessHours(c) /\ p = SafetyPenalty(c.safety, hour, solo)
  OBVIOUS
<1>6. Score(c, hour, solo) = 1000 * c.distance + 500 * c.wait + 100 * c.cost
                               + 5 * c.congestion + 3000 * h + p
  BY <1>5 DEF Score
<1>7. Score(c, hour, solo) \in Int
  BY <1>1, <1>2, <1>4, <1>5, <1>6
<1> QED BY <1>2, <1>4, <1>7

\* Two scores differ by what the candidates do.
LEMMA ScoresCompare ==
    ASSUME NEW c \in RankedCandidate, NEW d \in RankedCandidate,
           NEW hour \in 0..23, NEW solo \in BOOLEAN,
           Score(c, hour, solo) <= Score(d, hour, solo)
    PROVE  /\ [c EXCEPT !.verified = 0] = [d EXCEPT !.verified = 0] =>
                StalenessHours(c) <= StalenessHours(d)
           /\ ([c EXCEPT !.safety = 0] = [d EXCEPT !.safety = 0]
                 /\ solo /\ hour \in 20..23 \cup 0..4) => c.safety >= d.safety
<1>1. /\ c.distance \in Nat /\ c.wait \in Nat /\ c.cost \in Nat /\ c.congestion \in Nat
      /\ c.verified \in Nat \cup {NeverVerified} /\ c.safety \in 0..1000
      /\ d.distance \in Nat /\ d.wait \in Nat /\ d.cost \in Nat /\ d.congestion \in Nat
      /\ d.verified \in Nat \cup {NeverVerified} /\ d.safety \in 0..1000
  BY DEF RankedCandidate
<1>2. PICK h, p : h = StalenessHours(c) /\ p = SafetyPenalty(c.safety, hour, solo)
  OBVIOUS
<1>3. PICK k, q : k = StalenessHours(d) /\ q = SafetyPenalty(d.safety, hour, solo)
  OBVIOUS
<1>4. /\ h \in Nat /\ p \in Nat /\ k \in Nat /\ q \in Nat
      /\ h = (IF c.verified = NeverVerified THEN 999 ELSE c.verified)
      /\ k = (IF d.verified = NeverVerified THEN 999 ELSE d.verified)
      /\ (solo /\ hour \in 20..23 \cup 0..4)
           => p = 8 * (1000 - c.safety) /\ q = 8 * (1000 - d.safety)
  BY <1>2, <1>3, ScoresAre
<1>5. 1000 * c.distance + 500 * c.wait + 100 * c.cost + 5 * c.congestion + 3000 * h + p
        <= 1000 * d.distance + 500 * d.wait + 100 * d.cost + 5 * d.congestion + 3000 * k + q
  BY <1>2, <1>3 DEF Score
<1>6. ASSUME [c EXCEPT !.verified = 0] = [d EXCEPT !.verified = 0] PROVE h <= k
  <2>1. /\ c.distance = d.distance /\ c.wait = d.wait /\ c.cost = d.cost
        /\ c.congestion = d.congestion /\ c.safety = d.safety
    BY <1>6 DEF RankedCandidate
  <2>2. p = q
    BY <1>2, <1>3, <2>1
  <2> QED BY <1>1, <1>4, <1>5, <2>1, <2>2
<1>7. ASSUME [c EXCEPT !.safety = 0] = [d EXCEPT !.safety = 0], solo, hour \in 20..23 \cup 0..4
      PROVE  c.safety >= d.safety
  <2>1. /\ c.distance = d.distance /\ c.wait = d.wait /\ c.cost = d.cost
        /\ c.congestion = d.congestion /\ c.verified = d.verified
    BY <1>7 DEF RankedCandidate
  <2>2. h = k
    BY <1>4, <2>1
  <2>3. 8 * (1000 - c.safety) <= 8 * (1000 - d.safety)
    <3>1. p <= q
      BY <1>1, <1>4, <1>5, <2>1, <2>2
    <3> QED BY <1>4, <1>7, <3>1
  <2>4. c.safety \in Int /\ d.safety \in Int
    BY SafetiesAre
  <2>5. ASSUME NEW x \in Int, NEW y \in Int, 8 * (1000 - x) <= 8 * (1000 - y) PROVE x >= y
    BY <2>5
  <2> QED BY <2>3, <2>4, <2>5
<1> QED BY <1>2, <1>3, <1>6, <1>7

\* c may be ranked before d.
RanksBefore(c, d, night) ==
    /\ [c EXCEPT !.verified = 0] = [d EXCEPT !.verified = 0] =>
         \/ c.verified \in 0..d.verified
         \/ d.verified = NeverVerified /\ c.verified <= 999
         \/ c.verified = NeverVerified /\ d.verified >= 999
    /\ (night /\ [c EXCEPT !.safety = 0] = [d EXCEPT !.safety = 0]) => c.safety >= d.safety

\* Who may be ranked at all.
Ranks(vehicle, cs) ==
    {i \in DOMAIN cs :
        LET c == cs[i]
        IN /\ c.status # "offline"
           /\ c.kind = "swap" => vehicle.connector = SwapConnector
           /\ c.kind = "charge" => vehicle.pluggable /\ c.connector = vehicle.connector}

\* The ranking of any candidates trusts the verified, and at night the safe.
THEOREM RankingIsSound == PlannerSpec => []RankingTrustsTheVerified
<1>1. PlannerInv => RankingTrustsTheVerified
  <2>1. SUFFICES ASSUME PlannerInv, Answered("rank") PROVE RankingTrustsTheVerified
    BY DEF RankingTrustsTheVerified
  <2>2. PICK r \in RankRequests :
          /\ Made("rank", r, RankCandidates(r.vehicle, r.candidates, r.hour, r.solo))
          /\ r.vehicle.pluggable \in BOOLEAN /\ r.hour \in 0..23 /\ r.solo \in BOOLEAN
          /\ r.candidates \in Seq(RankedCandidate)
    BY <2>1, RankInHand
  <2>3. PICK cs, S, R, s, n :
          /\ cs = r.candidates
          /\ S = {i \in DOMAIN cs : IsScored(r.vehicle, cs[i])}
          /\ R = {p \in S \X S :
                    \/ Score(cs[p[1]], r.hour, r.solo) < Score(cs[p[2]], r.hour, r.solo)
                    \/ /\ Score(cs[p[1]], r.hour, r.solo) = Score(cs[p[2]], r.hour, r.solo)
                       /\ p[1] < p[2]}
          /\ s = InOrder(S, R)
          /\ n = Cardinality(S)
    OBVIOUS
  <2>4. call.request = r /\ call.out = s
    BY <2>2, <2>3 DEF Made, RankCandidates
  <2>5. /\ S \subseteq Int
        /\ \A i \in S : cs[i] \in RankedCandidate /\ Score(cs[i], r.hour, r.solo) \in Int
    <3>1. \A i \in S : i \in Int /\ cs[i] \in RankedCandidate
      BY <2>2, <2>3
    <3> QED BY <2>2, <3>1, ScoresAre
  <2>6. IsFiniteSet(S)
    <3>1. S \in SUBSET (1..Len(cs)) /\ Len(cs) \in Nat
      BY <2>2, <2>3
    <3>2. IsFiniteSet(1..Len(cs))
      BY <3>1, FS_Interval
    <3> QED BY <3>1, <3>2, FS_Subset
  <2>7. TotalOrder(R, S)
    <3>1. PICK f : f = [i \in S |-> Score(cs[i], r.hour, r.solo)]
      OBVIOUS
    <3>2. \A i \in S : i \in Int /\ f[i] \in Int
      BY <2>5, <3>1
    <3>3. \A i, j \in S : <<i, j>> \in R <=> f[i] < f[j] \/ (f[i] = f[j] /\ i < j)
      BY <2>3, <3>1
    <3>4. \A i \in S : <<i, i>> \notin R
      BY <3>2, <3>3
    <3>5. ASSUME NEW i \in S, NEW j \in S, i # j PROVE <<i, j>> \in R \/ <<j, i>> \in R
      BY <3>2, <3>3, <3>5
    <3>6. ASSUME NEW i \in S, NEW j \in S, NEW k \in S, <<i, j>> \in R, <<j, k>> \in R
          PROVE  <<i, k>> \in R
      BY <3>2, <3>3, <3>6
    <3> QED BY <3>4, <3>5, <3>6 DEF TotalOrder
  <2>8. /\ n \in Nat
        /\ s \in [1..n -> S]
        /\ \A i, j \in 1..n : i < j => <<s[i], s[j]>> \in R /\ s[i] # s[j]
        /\ \A x \in S : \E i \in 1..n : s[i] = x
    <3>1. s = InOrder(S, R) /\ n = Cardinality(S)
      BY <2>3
    <3>2. InOrderOf(s, n, S, R)
      BY <2>6, <2>7, <3>1, InOrderIs
    <3> QED BY <3>2, Zenon DEF InOrderOf
  <2>9. DOMAIN s = 1..n /\ Len(s) = n /\ {s[i] : i \in DOMAIN s} = S
    <3>1. DOMAIN s = 1..n
      BY <2>8
    <3>2. Len(s) = n
      BY <2>8
    <3>3. {s[i] : i \in 1..n} = S
      BY <2>8
    <3> QED BY <3>1, <3>2, <3>3
  <2>10. S = Ranks(r.vehicle, cs)
    <3>1. ASSUME NEW i \in DOMAIN cs
          PROVE  IsScored(r.vehicle, cs[i]) <=>
                   /\ cs[i].status # "offline"
                   /\ cs[i].kind = "swap" => r.vehicle.connector = SwapConnector
                   /\ cs[i].kind = "charge" =>
                        r.vehicle.pluggable /\ cs[i].connector = r.vehicle.connector
      <4>1. cs[i].kind \in {"charge", "swap"}
        <5>1. cs[i] \in RankedCandidate
          BY <2>2, <2>3
        <5> QED BY <5>1 DEF RankedCandidate
      <4> QED BY <4>1 DEF IsScored, IsCompatible
    <3> QED BY <2>3, <3>1 DEF Ranks
  <2> DEFINE C(i) == call.request.candidates[call.out[i]]
             night == call.request.solo /\ call.request.hour \in 20..23 \cup 0..4
  <2>11. ASSUME NEW i \in DOMAIN call.out, NEW j \in DOMAIN call.out, i < j
         PROVE  RanksBefore(C(i), C(j), night)
    <3>0. i \in 1..n /\ j \in 1..n
      BY <2>4, <2>9
    <3>1. PICK c \in RankedCandidate, d \in RankedCandidate : c = cs[s[i]] /\ d = cs[s[j]]
      BY <2>5, <2>8, <3>0
    <3>2. Score(c, r.hour, r.solo) \in Int /\ Score(d, r.hour, r.solo) \in Int
      BY <2>5, <2>8, <3>0, <3>1
    <3>3. Score(c, r.hour, r.solo) <= Score(d, r.hour, r.solo)
      <4>1. <<s[i], s[j]>> \in R
        BY <2>8, <2>11, <3>0
      <4>2. \/ Score(cs[s[i]], r.hour, r.solo) < Score(cs[s[j]], r.hour, r.solo)
            \/ Score(cs[s[i]], r.hour, r.solo) = Score(cs[s[j]], r.hour, r.solo)
        BY <2>3, <4>1
      <4> QED BY <3>1, <3>2, <4>2
    <3>4. /\ StalenessHours(c) = IF c.verified = NeverVerified THEN 999 ELSE c.verified
          /\ StalenessHours(d) = IF d.verified = NeverVerified THEN 999 ELSE d.verified
      BY <2>2, ScoresAre
    <3>5. c.verified \in Nat \cup {NeverVerified} /\ d.verified \in Nat \cup {NeverVerified}
      BY DEF RankedCandidate
    <3>6. [c EXCEPT !.verified = 0] = [d EXCEPT !.verified = 0] =>
                     \/ c.verified \in 0..d.verified
                     \/ d.verified = NeverVerified /\ c.verified <= 999
                     \/ c.verified = NeverVerified /\ d.verified >= 999
      <4>1. SUFFICES ASSUME [c EXCEPT !.verified = 0] = [d EXCEPT !.verified = 0]
                     PROVE  \/ c.verified \in 0..d.verified
                            \/ d.verified = NeverVerified /\ c.verified <= 999
                            \/ c.verified = NeverVerified /\ d.verified >= 999
        OBVIOUS
      <4>2. StalenessHours(c) <= StalenessHours(d)
        BY <2>2, <3>3, <4>1, ScoresCompare
      <4> QED BY <3>4, <3>5, <4>2 DEF NeverVerified
    <3>7. (r.solo /\ r.hour \in 20..23 \cup 0..4
             /\ [c EXCEPT !.safety = 0] = [d EXCEPT !.safety = 0]) => c.safety >= d.safety
      BY <2>2, <3>3, ScoresCompare
    <3>8. RanksBefore(c, d, r.solo /\ r.hour \in 20..23 \cup 0..4)
      BY <3>6, <3>7 DEF RanksBefore
    <3>9. C(i) = c /\ C(j) = d /\ call.request = r
      BY <2>3, <2>4, <3>1
    <3> QED BY <3>8, <3>9
  <2>12. {call.out[i] : i \in DOMAIN call.out} = Ranks(call.request.vehicle, call.request.candidates)
    <3>1. {s[i] : i \in DOMAIN s} = Ranks(r.vehicle, cs) /\ cs = r.candidates
      BY <2>3, <2>9, <2>10
    <3> QED BY <2>4, <3>1, Zenon
  <2>13. Len(call.out) = Cardinality({call.out[i] : i \in DOMAIN call.out})
    <3>1. Len(s) = n /\ {s[i] : i \in DOMAIN s} = S /\ n = Cardinality(S)
      BY <2>3, <2>9
    <3>2. Len(s) = Cardinality({s[i] : i \in DOMAIN s})
      BY <3>1, Zenon
    <3> QED BY <2>4, <3>2, Zenon
  <2>14. \A i, j \in DOMAIN call.out : i < j => RanksBefore(C(i), C(j), night)
    <3> HIDE DEF C, night
    <3> QED BY <2>11, Zenon
  <2> QED BY <2>12, <2>13, <2>14, ZenonT(60) DEF RankingTrustsTheVerified, RanksBefore, Ranks
<1> QED BY <1>1, AnswersAreTheRequests, PTL

-----------------------------------------------------------------------------
\* The dispatch, vehicle by vehicle.

Gift == [vehicle : Nat, w : Nat]

\* One vehicle's turn: what is left of the deficit and what has been given.
Turn(before, id, tap) ==
    LET give == Min({tap, before.left})
    IN IF before.left <= 0 \/ give <= 0 THEN before
       ELSE [left |-> before.left - give, given |-> Append(before.given, [vehicle |-> id, w |-> give])]

\* What Discharges defines recursively, for n vehicles with these names and taps.
Dispenses(D, n, ids, taps, deficit) ==
    D = [m \in 0..n |-> IF m = 0 THEN [left |-> deficit, given |-> <<>>]
                        ELSE Turn(D[m - 1], ids[m], taps[m])]

LEMMA DispensesExists ==
    ASSUME NEW n \in Nat, NEW ids, NEW taps, NEW deficit
    PROVE  \E D : Dispenses(D, n, ids, taps, deficit)
<1>1. PICK B : B = {m \in Nat : ~ \E D : Dispenses(D, m, ids, taps, deficit)}
  OBVIOUS
<1>2. SUFFICES ASSUME B # {} PROVE FALSE
  BY <1>1, <1>2
<1>3. PICK m \in B : \A k \in B : m <= k
  BY <1>1, <1>2, LeastNumber
<1> PICK start : start = [left |-> deficit, given |-> <<>>]
  OBVIOUS
<1>4. m # 0
  <2>1. PICK D : D = [i \in 0..0 |-> start]
    OBVIOUS
  <2>2. DOMAIN D = 0..0 /\ \A i \in 0..0 : i = 0
    BY <2>1
  <2>3. D = [i \in 0..0 |-> IF i = 0 THEN start ELSE Turn(D[i - 1], ids[i], taps[i])]
    BY <2>1, <2>2
  <2>4. Dispenses(D, 0, ids, taps, deficit)
    BY <2>3 DEF Dispenses
  <2> QED BY <1>1, <2>4
<1>5. m - 1 \in Nat /\ m - 1 \notin B
  BY <1>1, <1>3, <1>4
<1>6. PICK D : Dispenses(D, m - 1, ids, taps, deficit)
  BY <1>1, <1>5
<1>7. PICK E : E = [i \in 0..m |-> IF i = m THEN Turn(D[m - 1], ids[m], taps[m]) ELSE D[i]]
  OBVIOUS
<1>8. ASSUME NEW i \in 0..m
      PROVE  E[i] = IF i = 0 THEN start ELSE Turn(E[i - 1], ids[i], taps[i])
  <2>1. CASE i = m
    <3>1. E[i] = Turn(D[i - 1], ids[i], taps[i]) /\ i - 1 \in 0..m /\ i - 1 # m
      BY <1>1, <1>4, <1>7, <2>1
    <3>2. E[i - 1] = D[i - 1]
      BY <1>7, <3>1
    <3> QED BY <1>4, <2>1, <3>1, <3>2
  <2>2. CASE i = 0
    <3>1. i \in 0..(m - 1)
      BY <1>5, <2>2
    <3>2. D[i] = start
      BY <1>6, <2>2, <3>1 DEF Dispenses
    <3> QED BY <1>4, <1>7, <2>2, <3>2
  <2>3. CASE i # m /\ i # 0
    <3>1. i \in 0..(m - 1) /\ i - 1 \in 0..m /\ i - 1 # m
      BY <1>1, <2>3
    <3>2. D[i] = Turn(D[i - 1], ids[i], taps[i])
      BY <1>6, <2>3, <3>1 DEF Dispenses
    <3>3. E[i] = D[i] /\ E[i - 1] = D[i - 1]
      BY <1>7, <2>3, <3>1
    <3> QED BY <2>3, <3>2, <3>3
  <2> QED BY <2>1, <2>2, <2>3
<1>9. Dispenses(E, m, ids, taps, deficit)
  <2>1. E = [i \in 0..m |-> IF i = 0 THEN start ELSE Turn(E[i - 1], ids[i], taps[i])]
    BY <1>7, <1>8
  <2> QED BY <2>1 DEF Dispenses
<1> QED BY <1>1, <1>9

\* After m vehicles: nothing is asked when nothing is missing; otherwise the gifts add
\* up to what is no longer left, each is some vehicle's and no more than its tap, no
\* vehicle gives twice, and what is left is what the taps so far cannot cover.
Dispensed(st, m, ids, taps, deficit) ==
    LET W == [i \in DOMAIN st.given |-> st.given[i].w]
        tapped == SumFunctionOnSet(taps, 1..m)
    IN /\ st.left \in Int
       /\ st.given \in Seq(Gift)
       /\ SumFunctionOnSet(W, 1..Len(st.given)) = deficit - st.left
       /\ \A i \in 1..Len(st.given) :
            \E k \in 1..m : st.given[i].vehicle = ids[k] /\ st.given[i].w \in 1..taps[k]
       /\ \A i, j \in 1..Len(st.given) : st.given[i].vehicle = st.given[j].vehicle => i = j
       /\ deficit <= 0 => st.left = deficit /\ st.given = <<>>
       /\ deficit > 0 => /\ st.left >= 0
                         /\ st.left > 0 => st.left = deficit - tapped
                         /\ st.left = 0 => tapped >= deficit

\* The vehicles asked in turn: their names, each once, and what each can give.
Taps(n, ids, taps, deficit) ==
    /\ n \in Nat /\ deficit \in Int
    /\ ids \in [1..n -> Nat] /\ taps \in [1..n -> Nat]
    /\ \A i, j \in 1..n : ids[i] = ids[j] => i = j

\* The taps of one more vehicle.
LEMMA TapsAddUp ==
    ASSUME NEW n, NEW ids, NEW taps, NEW deficit, Taps(n, ids, taps, deficit), NEW m \in 1..n
    PROVE  /\ SumFunctionOnSet(taps, 1..(m - 1)) \in Nat
           /\ SumFunctionOnSet(taps, 1..m) = SumFunctionOnSet(taps, 1..(m - 1)) + taps[m]
<1>1. m \in Nat \ {0} /\ \A x \in 1..m : taps[x] \in Nat
  BY DEF Taps
<1>2. \A x \in 1..m : taps[x] \in Int
  BY <1>1
<1>0. /\ IsFiniteSet(1..m) /\ IsFiniteSet(1..(m - 1))
      /\ m \in 1..m /\ (1..m) \ {m} = 1..(m - 1)
  BY <1>1, FirstNumbers
<1>3. SumFunctionOnSet(taps, 1..m) = taps[m] + SumFunctionOnSet(taps, (1..m) \ {m})
  <2>1. PICK S, y : S = 1..m /\ y = m
    OBVIOUS
  <2>2. IsFiniteSet(S) /\ y \in S /\ \A x \in S : taps[x] \in Int
    BY <1>0, <1>2, <2>1, Zenon
  <2>3. SumFunctionOnSet(taps, S) = taps[y] + SumFunctionOnSet(taps, S \ {y})
    BY <2>2, SumWithout
  <2> QED BY <2>1, <2>3, Zenon
<1>4. \A x \in 1..(m - 1) : taps[x] \in Nat
  <2>1. \A x \in 1..(m - 1) : x \in 1..m
    BY <1>1
  <2> QED BY <1>1, <2>1
<1>5. SumFunctionOnSet(taps, 1..(m - 1)) \in Nat
  BY <1>0, <1>4, SumType, Zenon
<1>6. PICK a, b : a = taps[m] /\ b = SumFunctionOnSet(taps, 1..(m - 1))
  OBVIOUS
<1>7. a \in Nat /\ b \in Nat /\ SumFunctionOnSet(taps, 1..m) = a + b
  BY <1>0, <1>1, <1>3, <1>5, <1>6, Zenon
<1>8. a + b = b + a
  BY <1>7
<1> QED BY <1>6, <1>7, <1>8, Zenon

LEMMA TurnDispenses ==
    ASSUME NEW n, NEW ids, NEW taps, NEW deficit, Taps(n, ids, taps, deficit), NEW m, m \in 1..n,
           NEW st, Dispensed(st, m - 1, ids, taps, deficit)
    PROVE  Dispensed(Turn(st, ids[m], taps[m]), m, ids, taps, deficit)
<1>0. m \in Nat \ {0} /\ deficit \in Int /\ ids[m] \in Nat /\ taps[m] \in Nat
  BY DEF Taps
<1>1. PICK left \in Int, given \in Seq(Gift), len \in Nat, tap \in Nat, id \in Nat :
        /\ left = st.left /\ given = st.given /\ len = Len(given)
        /\ tap = taps[m] /\ id = ids[m]
  <2>1. st.left \in Int /\ st.given \in Seq(Gift)
    BY DEF Dispensed
  <2> QED BY <1>0, <2>1
<1>2. PICK before, tapped :
        before = SumFunctionOnSet(taps, 1..(m - 1)) /\ tapped = SumFunctionOnSet(taps, 1..m)
  OBVIOUS
<1>3. before \in Nat /\ tapped = before + tap
  BY <1>1, <1>2, TapsAddUp
<1>4. PICK W : W = [i \in DOMAIN given |-> given[i].w]
  OBVIOUS
<1>9. left \in Int /\ len \in Nat /\ tap \in Nat /\ id \in Nat /\ given \in Seq(Gift)
  BY <1>1
<1>5. /\ SumFunctionOnSet(W, 1..len) = deficit - left
      /\ \A i \in 1..len :
           \E k \in 1..(m - 1) : given[i].vehicle = ids[k] /\ given[i].w \in 1..taps[k]
      /\ \A i, j \in 1..len : given[i].vehicle = given[j].vehicle => i = j
      /\ deficit <= 0 => left = deficit /\ given = <<>>
  BY <1>1, <1>2, <1>4 DEF Dispensed
<1>10. /\ deficit <= 0 => left = deficit
       /\ deficit > 0 => /\ left >= 0
                         /\ left > 0 => left = deficit - before
                         /\ left = 0 => before >= deficit
  BY <1>1, <1>2 DEF Dispensed
<1>6. PICK give \in Int : give = Min({tap, left}) /\ give = IF tap <= left THEN tap ELSE left
  BY <1>1, LesserOfTwo
<1>7. CASE left <= 0 \/ give <= 0
  <2>1. Turn(st, ids[m], taps[m]) = st
    BY <1>1, <1>6, <1>7 DEF Turn
  <2>2. \A i \in 1..len :
           \E k \in 1..m : given[i].vehicle = ids[k] /\ given[i].w \in 1..taps[k]
    <3>1. \A k \in 1..(m - 1) : k \in 1..m
      BY <1>0
    <3> QED BY <1>5, <3>1, Zenon
  <2>3. deficit > 0 => /\ left >= 0
                       /\ left > 0 => left = deficit - tapped
                       /\ left = 0 => tapped >= deficit
    BY <1>0, <1>3, <1>6, <1>7, <1>9, <1>10
  <2>4. Dispensed(st, m, ids, taps, deficit)
    BY <1>1, <1>2, <1>4, <1>5, <2>2, <2>3 DEF Dispensed
  <2> QED BY <2>1, <2>4
<1>8. CASE left > 0 /\ give > 0
  <2>1. PICK gift : gift = [vehicle |-> id, w |-> give]
    OBVIOUS
  <2>2. gift \in Gift /\ gift.vehicle = id /\ gift.w = give /\ give \in 1..tap
    <3>1. give \in 1..tap /\ give \in Nat
      BY <1>6, <1>8, <1>9
    <3> QED BY <1>9, <2>1, <3>1 DEF Gift
  <2>3. PICK g2, l2 : g2 = Append(given, gift) /\ l2 = left - give
    OBVIOUS
  <2>4. PICK st2 : st2 = [left |-> l2, given |-> g2]
    OBVIOUS
  <2>5. Turn(st, ids[m], taps[m]) = st2
    <3>1. ~(left <= 0 \/ give <= 0)
      BY <1>6, <1>8, <1>9
    <3> QED BY <1>1, <1>6, <2>1, <2>3, <2>4, <3>1 DEF Turn
  <2>6. /\ g2 \in Seq(Gift) /\ Len(g2) = len + 1
        /\ \A i \in 1..len : g2[i] = given[i]
        /\ g2[len + 1] = gift
    BY <1>1, <2>2, <2>3
  <2>7. PICK W2 : W2 = [i \in DOMAIN g2 |-> g2[i].w]
    OBVIOUS
  <2>8. SumFunctionOnSet(W2, 1..(len + 1)) = deficit - l2
    <3>1. /\ IsFiniteSet(1..(len + 1)) /\ IsFiniteSet(1..len) /\ len + 1 \in 1..(len + 1)
          /\ (1..(len + 1)) \ {len + 1} = 1..len
      <4>1. PICK k \in Nat \ {0} : k = len + 1 /\ k - 1 = len
        BY <1>1
      <4> QED BY <4>1, FirstNumbers
    <3>2. DOMAIN g2 = 1..(len + 1) /\ DOMAIN given = 1..len
      BY <1>1, <2>6
    <3>3. \A i \in 1..len : W2[i] = W[i] /\ W[i] \in Int
      <4>1. \A i \in 1..len : given[i] \in Gift
        BY <1>1
      <4>2. \A i \in 1..len : given[i].w \in Int
        BY <4>1 DEF Gift
      <4>3. \A i \in 1..len : i \in DOMAIN g2 /\ i \in DOMAIN given
        BY <1>1, <3>2
      <4> QED BY <1>4, <2>6, <2>7, <4>2, <4>3
    <3>4. W2[len + 1] = give
      BY <2>2, <2>6, <2>7, <3>1, <3>2
    <3>5. \A i \in 1..(len + 1) : W2[i] \in Int
      <4>1. \A i \in 1..(len + 1) : i \in 1..len \/ i = len + 1
        BY <1>9
      <4>2. give \in Int /\ \A i \in 1..len : W2[i] \in Int
        BY <3>3
      <4> QED BY <3>4, <4>1, <4>2, Zenon
    <3>6. SumFunctionOnSet(W2, 1..(len + 1)) = give + SumFunctionOnSet(W2, 1..len)
      <4>1. PICK S, q : S = 1..(len + 1) /\ q = len + 1
        OBVIOUS
      <4>2. IsFiniteSet(S) /\ q \in S /\ \A x \in S : W2[x] \in Int
        BY <3>1, <3>5, <4>1, Zenon
      <4>3. SumFunctionOnSet(W2, S) = W2[q] + SumFunctionOnSet(W2, S \ {q})
        BY <4>2, SumWithout
      <4> QED BY <3>1, <3>4, <4>1, <4>3, Zenon
    <3>7. SumFunctionOnSet(W2, 1..len) = SumFunctionOnSet(W, 1..len)
      <4>1. PICK S : S = 1..len
        OBVIOUS
      <4>2. IsFiniteSet(S) /\ \A x \in S : W2[x] = W[x]
        BY <3>1, <3>3, <4>1, Zenon
      <4> QED BY <4>1, <4>2, SumOfSame
    <3>8. give + (deficit - left) = deficit - l2
      BY <1>0, <1>6, <1>9, <2>3
    <3> QED BY <1>5, <3>6, <3>7, <3>8, Zenon
  <2>9. ASSUME NEW i \in 1..(len + 1)
        PROVE  \E k \in 1..m : g2[i].vehicle = ids[k] /\ g2[i].w \in 1..taps[k]
    <3>1. CASE i = len + 1
      <4>1. m \in 1..m /\ id = ids[m] /\ tap = taps[m]
        BY <1>0, <1>1
      <4>2. g2[i].vehicle = id /\ g2[i].w \in 1..tap
        BY <2>2, <2>6, <3>1, Zenon
      <4> QED BY <4>1, <4>2, Zenon
    <3>2. CASE i \in 1..len
      <4>1. PICK k \in 1..(m - 1) : given[i].vehicle = ids[k] /\ given[i].w \in 1..taps[k]
        BY <1>5, <3>2
      <4>2. k \in 1..m /\ g2[i] = given[i]
        <5>1. k \in 1..m
          BY <1>0, <4>1
        <5> QED BY <2>6, <3>2, <5>1
      <4> QED BY <4>1, <4>2, Zenon
    <3> QED BY <1>9, <3>1, <3>2
  <2>10. ASSUME NEW i \in 1..(len + 1), NEW j \in 1..(len + 1), g2[i].vehicle = g2[j].vehicle
         PROVE  i = j
    <3>1. ASSUME NEW q \in 1..len PROVE g2[q].vehicle # id
      <4>1. PICK k \in 1..(m - 1) : given[q].vehicle = ids[k]
        BY <1>5, <3>1
      <4>2. k \in 1..n /\ k # m
        BY <1>0, <4>1 DEF Taps
      <4>3. ids[k] # ids[m]
        BY <4>2 DEF Taps
      <4>4. g2[q].vehicle = ids[k] /\ id = ids[m]
        BY <1>1, <2>6, <4>1
      <4> QED BY <4>3, <4>4
    <3>2. CASE i \in 1..len /\ j \in 1..len
      BY <1>5, <2>6, <2>10, <3>2
    <3>3. CASE i = len + 1 /\ j = len + 1
      BY <3>3
    <3>4. i \in 1..len \/ i = len + 1
      BY <1>1
    <3>5. j \in 1..len \/ j = len + 1
      BY <1>1
    <3> QED BY <2>2, <2>6, <2>10, <3>1, <3>2, <3>3, <3>4, <3>5
  <2>11. deficit > 0
    BY <1>0, <1>8, <1>9, <1>10
  <2>12. /\ l2 \in Int /\ l2 >= 0
         /\ l2 > 0 => l2 = deficit - tapped
         /\ l2 = 0 => tapped >= deficit
    BY <1>0, <1>3, <1>6, <1>8, <1>9, <1>10, <2>3, <2>11
  <2>13. st2.left = l2 /\ st2.given = g2
    BY <2>4
  <2>14. Dispensed(st2, m, ids, taps, deficit)
    <3>1. Len(g2) = len + 1 /\ ~(deficit <= 0)
      BY <1>0, <2>6, <2>11
    <3>2. SumFunctionOnSet([i \in DOMAIN g2 |-> g2[i].w], 1..Len(g2)) = deficit - l2
      BY <2>7, <2>8, <3>1, Zenon
    <3>3. /\ \A i \in 1..Len(g2) :
               \E k \in 1..m : g2[i].vehicle = ids[k] /\ g2[i].w \in 1..taps[k]
          /\ \A i, j \in 1..Len(g2) : g2[i].vehicle = g2[j].vehicle => i = j
      BY <2>9, <2>10, <3>1, Zenon
    <3>4. g2 \in Seq(Gift)
      BY <2>6
    <3> QED BY <1>2, <2>12, <2>13, <3>1, <3>2, <3>3, <3>4, Zenon DEF Dispensed
  <2> QED BY <2>5, <2>14
<1> QED BY <1>6, <1>7, <1>8

LEMMA EveryTurnDispenses ==
    ASSUME NEW n, NEW ids, NEW taps, NEW deficit, Taps(n, ids, taps, deficit),
           NEW D, Dispenses(D, n, ids, taps, deficit)
    PROVE  Dispensed(D[n], n, ids, taps, deficit)
<1>0. n \in Nat /\ deficit \in Int
  BY DEF Taps
<1>1. PICK B : B = {m \in 0..n : ~Dispensed(D[m], m, ids, taps, deficit)}
  OBVIOUS
<1>2. SUFFICES ASSUME B # {} PROVE FALSE
  BY <1>0, <1>1, <1>2
<1>3. B \in SUBSET Nat
  BY <1>0, <1>1
<1>4. PICK m \in B : \A k \in B : m <= k
  BY <1>2, <1>3, LeastNumber
<1>5. m \in 0..n /\ ~Dispensed(D[m], m, ids, taps, deficit)
  BY <1>1
<1>6. CASE m = 0
  <2>1. PICK st : st = [left |-> deficit, given |-> <<>>]
    OBVIOUS
  <2>2. D[0] = st
    BY <1>0, <2>1 DEF Dispenses
  <2>3. st.left = deficit /\ st.given = <<>> /\ Len(<<>>) = 0 /\ <<>> \in Seq(Gift) /\ 1..0 = {}
    BY <2>1
  <2>4. SumFunctionOnSet([i \in DOMAIN st.given |-> st.given[i].w], {}) = 0
    BY SumSteps
  <2>5. SumFunctionOnSet(taps, {}) = 0
    BY SumSteps
  <2>6. 0 = deficit - st.left /\ st.left \in Int /\ (deficit > 0 => st.left > 0 /\ st.left >= 0)
        /\ st.left = deficit - 0 /\ (deficit > 0 => st.left # 0)
    BY <1>0, <2>3
  <2>7. Dispensed(st, 0, ids, taps, deficit)
    BY <2>3, <2>4, <2>5, <2>6 DEF Dispensed
  <2> QED BY <1>5, <1>6, <2>2, <2>7
<1>7. CASE m # 0
  <2>1. m \in 1..n /\ m - 1 \in 0..n /\ ~(m <= m - 1)
    BY <1>0, <1>5, <1>7
  <2>2. Dispensed(D[m - 1], m - 1, ids, taps, deficit)
    BY <1>1, <1>4, <2>1
  <2>3. D[m] = Turn(D[m - 1], ids[m], taps[m])
    BY <1>5, <1>7 DEF Dispenses
  <2> QED BY <1>5, <2>1, <2>2, <2>3, TurnDispenses
<1> QED BY <1>6, <1>7

\* What Discharges defines recursively.
Discharging(D, n, fleet, order, deficit, hours) ==
    D = [m \in 0..n |-> IF m = 0 THEN [left |-> deficit, given |-> <<>>]
                        ELSE Turn(D[m - 1], fleet[order[m]].id, TapW(fleet[order[m]], hours))]

Eligible(fleet) == {i \in DOMAIN fleet : IsEligible(fleet[i])}

LEMMA DischargesAsDispenses ==
    ASSUME NEW n \in Nat, NEW fleet, NEW order, NEW deficit, NEW hours, NEW ids, NEW taps,
           ids = [m \in 1..n |-> fleet[order[m]].id],
           taps = [m \in 1..n |-> TapW(fleet[order[m]], hours)],
           NEW D
    PROVE  Discharging(D, n, fleet, order, deficit, hours) <=> Dispenses(D, n, ids, taps, deficit)
<1> PICK start : start = [left |-> deficit, given |-> <<>>]
  OBVIOUS
<1>1. PICK E : E = [m \in 0..n |-> IF m = 0 THEN start ELSE Turn(D[m - 1], ids[m], taps[m])]
  OBVIOUS
<1>2. PICK F : F = [m \in 0..n |-> IF m = 0 THEN start
                     ELSE Turn(D[m - 1], fleet[order[m]].id, TapW(fleet[order[m]], hours))]
  OBVIOUS
<1>3. ASSUME NEW m \in 0..n PROVE E[m] = F[m]
  <2>1. CASE m = 0
    BY <1>1, <1>2, <2>1
  <2>2. CASE m # 0
    <3>1. m \in 1..n
      BY <2>2
    <3>2. ids[m] = fleet[order[m]].id /\ taps[m] = TapW(fleet[order[m]], hours)
      BY <3>1
    <3> QED BY <1>1, <1>2, <2>2, <3>2
  <2> QED BY <2>1, <2>2
<1>4. E = F
  BY <1>1, <1>2, <1>3
<1>5. Discharging(D, n, fleet, order, deficit, hours) <=> D = F
  BY <1>2 DEF Discharging
<1>6. Dispenses(D, n, ids, taps, deficit) <=> D = E
  BY <1>1 DEF Dispenses
<1> QED BY <1>4, <1>5, <1>6

LEMMA EligibleOnes ==
    ASSUME NEW fleet \in DispatchableFleets
    PROVE  /\ IsFiniteSet(Eligible(fleet))
           /\ TotalOrder(FullestFirst(fleet), Eligible(fleet))
           /\ \A p \in Eligible(fleet) :
                /\ p \in DOMAIN fleet /\ p \in Int
                /\ fleet[p].id \in Nat /\ fleet[p].soc \in Nat /\ fleet[p].capacity \in Nat
                /\ fleet[p].limit \in Nat /\ fleet[p].soc > ReserveSoc /\ fleet[p].ready
<1>1. \A p \in DOMAIN fleet :
        /\ p \in Int
        /\ fleet[p].id \in Nat /\ fleet[p].soc \in Nat /\ fleet[p].capacity \in Nat
        /\ fleet[p].limit \in Nat /\ fleet[p].ready \in BOOLEAN
  <2>1. PICK V : V = [id : Nat, ready : BOOLEAN, soc : Nat, capacity : Nat, limit : Nat]
    OBVIOUS
  <2>2. fleet \in Seq(V)
    BY <2>1 DEF DispatchableFleets
  <2>3. ASSUME NEW p \in DOMAIN fleet PROVE p \in Int /\ fleet[p] \in V
    BY <2>2
  <2>4. ASSUME NEW v \in V
        PROVE  /\ v.id \in Nat /\ v.soc \in Nat /\ v.capacity \in Nat
               /\ v.limit \in Nat /\ v.ready \in BOOLEAN
    BY <2>1
  <2> QED BY <2>3, <2>4
<1>2. \A p \in Eligible(fleet) :
        p \in DOMAIN fleet /\ fleet[p].soc > ReserveSoc /\ fleet[p].ready
  BY DEF Eligible, IsEligible
<1>3. IsFiniteSet(Eligible(fleet))
  <2>1. Len(fleet) \in Nat /\ DOMAIN fleet = 1..Len(fleet)
    BY DEF DispatchableFleets
  <2>2. IsFiniteSet(1..Len(fleet))
    BY <2>1, FS_Interval
  <2>3. Eligible(fleet) \in SUBSET (1..Len(fleet))
    BY <2>1 DEF Eligible
  <2> QED BY <2>2, <2>3, FS_Subset
<1>4. TotalOrder(FullestFirst(fleet), Eligible(fleet))
  <2>1. PICK f, S, R : /\ f = [p \in DOMAIN fleet |-> fleet[p].soc]
                       /\ S = Eligible(fleet) /\ R = FullestFirst(fleet)
    OBVIOUS
  <2>2. \A i \in S : i \in Int /\ f[i] \in Int /\ i \in DOMAIN fleet
    BY <1>1, <1>2, <2>1
  <2>3. \A i, j \in S : <<i, j>> \in R <=> f[i] > f[j] \/ (f[i] = f[j] /\ i < j)
    BY <2>1, <2>2 DEF FullestFirst
  <2>4. \A i \in S : <<i, i>> \notin R
    BY <2>2, <2>3
  <2>5. ASSUME NEW i \in S, NEW j \in S, i # j PROVE <<i, j>> \in R \/ <<j, i>> \in R
    BY <2>2, <2>3, <2>5
  <2>6. ASSUME NEW i \in S, NEW j \in S, NEW k \in S, <<i, j>> \in R, <<j, k>> \in R
        PROVE  <<i, k>> \in R
    BY <2>2, <2>3, <2>6
  <2> QED BY <2>1, <2>4, <2>5, <2>6 DEF TotalOrder
<1> QED BY <1>1, <1>2, <1>3, <1>4

\* A vehicle that is eligible can give some whole number of watts, within its limit and,
\* for all the hours, within what it has above its reserve.
LEMMA TapIs ==
    ASSUME NEW v, v.soc \in Nat, v.capacity \in Nat, v.limit \in Nat, v.soc > ReserveSoc,
           NEW hours \in Nat
    PROVE  /\ TapW(v, hours) \in Nat
           /\ TapW(v, hours) <= v.limit
           /\ TapW(v, hours) * hours <= AvailableWh(v)
           /\ hours = 0 => TapW(v, hours) = 0
<1>1. PICK a \in Nat, l \in Nat : a = AvailableWh(v) /\ l = v.limit
  <2>1. PICK x \in Nat, c \in Nat : x = v.soc - 30 /\ c = v.capacity
    BY DEF ReserveSoc
  <2>2. x * c * 10 \in Nat
    OBVIOUS
  <2> QED BY <2>1, <2>2 DEF AvailableWh, ReserveSoc
<1>2. PICK b : b = IF hours > 0 THEN a \div hours ELSE 0
  OBVIOUS
<1>3. b \in Nat /\ hours * b <= a
  <2>1. CASE hours > 0
    <3>1. a \div hours \in Int /\ hours * (a \div hours) <= a
      BY <2>1, Division
    <3>2. a \div hours \in Nat
      BY <2>1
    <3> QED BY <1>2, <2>1, <3>1, <3>2
  <2>2. CASE hours = 0
    BY <1>2, <2>2
  <2> QED BY <2>1, <2>2
<1>4. PICK t : t = TapW(v, hours)
  OBVIOUS
<1>5. t = IF l <= b THEN l ELSE b
  <2>1. t = Min({l, b})
    BY <1>1, <1>2, <1>4 DEF TapW
  <2> QED BY <1>3, <2>1, LesserOfTwo
<1>6. t \in Nat /\ t <= l /\ t <= b
  BY <1>3, <1>5
<1>7. t * hours <= a
  <2>1. hours * t <= hours * b /\ hours * t \in Int /\ hours * b \in Int
    BY <1>3, <1>6, Products
  <2>2. t * hours = hours * t
    BY <1>6
  <2> QED BY <1>3, <2>1, <2>2
<1>8. hours = 0 => t = 0
  BY <1>2, <1>5, <1>6
<1> QED BY <1>1, <1>4, <1>6, <1>7, <1>8

\* Gifts that cover the deficit, or tap every eligible vehicle.
Discharged(given, fleet, deficit, hours) ==
    /\ given \in Seq(Gift)
    /\ \A i \in 1..Len(given) :
         \E p \in Eligible(fleet) :
           given[i].vehicle = fleet[p].id /\ given[i].w \in 1..TapW(fleet[p], hours)
    /\ \A i, j \in 1..Len(given) : given[i].vehicle = given[j].vehicle => i = j
    /\ SumFunction([i \in DOMAIN given |-> given[i].w])
         = Max({0, Min({deficit, SumFunction([p \in Eligible(fleet) |-> TapW(fleet[p], hours)])})})

LEMMA DischargesAre ==
    ASSUME NEW fleet \in DispatchableFleets, NEW deficit \in Int, NEW hours \in Nat,
           ListedOnce(fleet)
    PROVE  Discharged(Discharges(fleet, deficit, hours), fleet, deficit, hours)
<1>1. PICK s, n, S, R : s = InOrder(S, R) /\ n = Cardinality(S)
                        /\ S = Eligible(fleet) /\ R = FullestFirst(fleet)
  OBVIOUS
<1>2. /\ n \in Nat /\ s \in [1..n -> S]
      /\ \A i, j \in 1..n : i < j => s[i] # s[j]
      /\ \A x \in S : \E i \in 1..n : s[i] = x
  <2>1. InOrderOf(s, n, S, R)
    BY <1>1, EligibleOnes, InOrderIs
  <2> QED BY <2>1, Zenon DEF InOrderOf
<1>3. s = DispatchOrder(fleet) /\ Len(s) = n
  <2>1. s = DispatchOrder(fleet)
    BY <1>1 DEF DispatchOrder, Eligible
  <2> QED BY <1>2, <2>1
<1>4. PICK ids, taps : /\ ids = [m \in 1..n |-> fleet[s[m]].id]
                       /\ taps = [m \in 1..n |-> TapW(fleet[s[m]], hours)]
  OBVIOUS
<1>5. PICK D : D = CHOOSE E : Discharging(E, Len(DispatchOrder(fleet)), fleet,
                                          DispatchOrder(fleet), deficit, hours)
  OBVIOUS
<1>6. Dispenses(D, n, ids, taps, deficit)
  <2>1. \E E : Dispenses(E, n, ids, taps, deficit)
    BY <1>2, DispensesExists
  <2>2. \A E : Discharging(E, n, fleet, s, deficit, hours) <=> Dispenses(E, n, ids, taps, deficit)
    BY <1>2, <1>4, DischargesAsDispenses
  <2>3. \A E : Discharging(E, Len(DispatchOrder(fleet)), fleet, DispatchOrder(fleet), deficit, hours)
                 <=> Dispenses(E, n, ids, taps, deficit)
    BY <1>3, <2>2, Zenon
  <2> QED BY <1>5, <2>1, <2>3, Zenon
<1>7. PICK given : given = Discharges(fleet, deficit, hours)
  OBVIOUS
<1>8. given = D[n].given
  <2>1. given = D[Len(DispatchOrder(fleet))].given
    BY <1>5, <1>7 DEF Discharges, Discharging, Turn
  <2> QED BY <1>3, <2>1
<1>9. Taps(n, ids, taps, deficit)
  <2>1. \A m \in 1..n : s[m] \in S /\ fleet[s[m]].id \in Nat /\ TapW(fleet[s[m]], hours) \in Nat
    BY <1>1, <1>2, EligibleOnes, TapIs
  <2>2. ids \in [1..n -> Nat] /\ taps \in [1..n -> Nat]
    BY <1>4, <2>1
  <2>3. ASSUME NEW i \in 1..n, NEW j \in 1..n, ids[i] = ids[j] PROVE i = j
    <3>1. s[i] = s[j]
      <4>1. s[i] \in DOMAIN fleet /\ s[j] \in DOMAIN fleet
        BY <1>1, <2>1, EligibleOnes
      <4>2. fleet[s[i]].id = fleet[s[j]].id
        BY <1>4, <2>3
      <4> QED BY <4>1, <4>2 DEF ListedOnce
    <3>2. i \in Int /\ j \in Int
      BY <1>2
    <3> QED BY <1>2, <3>1, <3>2
  <2> QED BY <1>2, <2>2, <2>3 DEF Taps
<1>10. Dispensed(D[n], n, ids, taps, deficit)
  BY <1>6, <1>9, EveryTurnDispenses
<1>11. PICK left, W, tapped : /\ left = D[n].left /\ W = [i \in DOMAIN given |-> given[i].w]
                              /\ tapped = SumFunctionOnSet(taps, 1..n)
  OBVIOUS
<1>12. given \in Seq(Gift) /\ DOMAIN given = 1..Len(given)
  BY <1>8, <1>10 DEF Dispensed
<1>13. \A i \in 1..Len(given) :
         \E k \in 1..n : given[i].vehicle = ids[k] /\ given[i].w \in 1..taps[k]
  BY <1>8, <1>10 DEF Dispensed
<1>14. \A i, j \in 1..Len(given) : given[i].vehicle = given[j].vehicle => i = j
  BY <1>8, <1>10 DEF Dispensed
<1>15. /\ left \in Int
       /\ SumFunctionOnSet(W, 1..Len(given)) = deficit - left
       /\ deficit <= 0 => left = deficit
       /\ deficit > 0 => /\ left >= 0
                         /\ left > 0 => left = deficit - tapped
                         /\ left = 0 => tapped >= deficit
  BY <1>8, <1>10, <1>11 DEF Dispensed
<1>16. tapped \in Nat
  <2>1. PICK N : N = 1..n
    OBVIOUS
  <2>2. IsFiniteSet(N)
    BY <1>2, <2>1, FS_Interval
  <2>3. \A x \in N : taps[x] \in Nat
    BY <1>9, <2>1 DEF Taps
  <2>4. SumFunctionOnSet(taps, N) \in Nat
    BY <2>2, <2>3, SumType
  <2> QED BY <1>11, <2>1, <2>4
<1>17. PICK f : f = [p \in Eligible(fleet) |-> TapW(fleet[p], hours)]
  OBVIOUS
<1>18. SumFunction(f) = tapped
  <2>1. IsFiniteSet(1..n) /\ DOMAIN s = 1..n
    BY <1>2, FS_Interval
  <2>2. IsInjective(s)
    <3>1. ASSUME NEW i \in 1..n, NEW j \in 1..n, s[i] = s[j] PROVE i = j
      <4>1. i \in Int /\ j \in Int
        BY <1>2
      <4> QED BY <1>2, <3>1, <4>1
    <3> QED BY <2>1, <3>1 DEF IsInjective
  <2>3. \A x \in 1..n : taps[x] \in Int /\ taps[x] = f[s[x]]
    <3>1. \A x \in 1..n : taps[x] \in Nat
      BY <1>9 DEF Taps
    <3>2. \A x \in 1..n : s[x] \in Eligible(fleet)
      BY <1>1, <1>2
    <3> QED BY <1>4, <1>17, <3>1, <3>2
  <2>4. PICK N : N = 1..n
    OBVIOUS
  <2>5. SumFunctionOnSet(taps, N) = SumFunctionOnSet(f, {s[x] : x \in N})
    <3>1. IsFiniteSet(N) /\ DOMAIN s = N /\ \A x \in N : taps[x] \in Int /\ taps[x] = f[s[x]]
      BY <2>1, <2>3, <2>4, Zenon
    <3> QED BY <2>2, <3>1, SumRenamed
  <2>6. {s[x] : x \in N} = S
    BY <1>2, <2>4
  <2>7. DOMAIN f = S
    BY <1>1, <1>17
  <2> QED BY <1>11, <2>4, <2>5, <2>6, <2>7 DEF SumFunction
<1>19. SumFunction(W) = Max({0, Min({deficit, tapped})})
  <2>1. DOMAIN W = 1..Len(given)
    BY <1>11, <1>12
  <2>2. SumFunction(W) = deficit - left
    BY <1>15, <2>1 DEF SumFunction
  <2>3. PICK a \in Int : a = Min({deficit, tapped}) /\ a = IF deficit <= tapped THEN deficit ELSE tapped
    BY <1>16, LesserOfTwo
  <2>4. Max({0, a}) = IF 0 <= a THEN a ELSE 0
    <3>1. 0 \in Int /\ a \in Int
      BY <2>3
    <3> QED BY <3>1, LesserOfTwo, Zenon
  <2>5. deficit - left = IF 0 <= a THEN a ELSE 0
    BY <1>15, <1>16, <2>3
  <2> QED BY <2>2, <2>3, <2>4, <2>5
<1>20. ASSUME NEW i \in 1..Len(given)
       PROVE  \E p \in Eligible(fleet) :
                given[i].vehicle = fleet[p].id /\ given[i].w \in 1..TapW(fleet[p], hours)
  <2>1. PICK k \in 1..n : given[i].vehicle = ids[k] /\ given[i].w \in 1..taps[k]
    BY <1>13
  <2>2. s[k] \in Eligible(fleet)
    BY <1>1, <1>2
  <2>3. ids[k] = fleet[s[k]].id /\ taps[k] = TapW(fleet[s[k]], hours)
    BY <1>4
  <2> QED BY <2>1, <2>2, <2>3
<1>21. Discharged(given, fleet, deficit, hours)
  BY <1>11, <1>12, <1>14, <1>17, <1>18, <1>19, <1>20, Zenon DEF Discharged
<1> QED BY <1>7, <1>21

\* The number that is answered is within five of the one that was computed.
LEMMA RoundToTens ==
    ASSUME NEW n \in Nat
    PROVE  RoundTo(n, 10) \in Nat /\ n <= RoundTo(n, 10) + 5 /\ RoundTo(n, 10) <= n + 5
BY DEF RoundTo

\* A dispatch asks each vehicle once, an eligible one, within its limit and above its
\* reserve, and gives what was missing or all there is.
Asks(out, fleet, deficit, hours) ==
    /\ IsFiniteSet(DOMAIN out)
    /\ \A i \in DOMAIN out :
      \E p \in Eligible(fleet), w \in Nat :
        /\ out[i].vehicle = fleet[p].id
        /\ w > 0 /\ w <= fleet[p].limit /\ w * hours <= AvailableWh(fleet[p])
        /\ out[i].w = RoundTo(w, 10) /\ out[i].wh = w * hours
    /\ \A i, j \in DOMAIN out : out[i].vehicle = out[j].vehicle => i = j
    /\ SumOf(out, "wh")
      = hours * Max({0, Min({deficit,
                  SumFunction([p \in Eligible(fleet) |-> TapW(fleet[p], hours)])})})

LEMMA DispatchAsks ==
    ASSUME NEW fleet \in DispatchableFleets, NEW deficit \in Int, NEW hours \in Nat,
           ListedOnce(fleet), NEW out, out = DispatchV2G(fleet, deficit, hours)
    PROVE  Asks(out, fleet, deficit, hours)
<1>1. PICK given : given = Discharges(fleet, deficit, hours)
  OBVIOUS
<1>2. Discharged(given, fleet, deficit, hours)
  BY <1>1, DischargesAre
<1>3. /\ DOMAIN given = 1..Len(given) /\ Len(given) \in Nat
      /\ \A i \in DOMAIN given : given[i].w \in Nat
  <2>1. given \in Seq(Gift)
    BY <1>2 DEF Discharged
  <2>2. \A i \in DOMAIN given : given[i] \in Gift
    BY <2>1
  <2> QED BY <2>1, <2>2 DEF Gift
<1>4. /\ DOMAIN out = DOMAIN given
      /\ \A i \in DOMAIN given : /\ out[i].vehicle = given[i].vehicle
                                 /\ out[i].w = RoundTo(given[i].w, 10)
                                 /\ out[i].wh = given[i].w * hours
  BY <1>1 DEF DispatchV2G
<1>5. IsFiniteSet(DOMAIN given)
  BY <1>3, FS_Interval
<1>6. ASSUME NEW i \in DOMAIN out
      PROVE  \E p \in Eligible(fleet), w \in Nat :
                  /\ out[i].vehicle = fleet[p].id
                  /\ w > 0 /\ w <= fleet[p].limit /\ w * hours <= AvailableWh(fleet[p])
                  /\ out[i].w = RoundTo(w, 10) /\ out[i].wh = w * hours
  <2>1. PICK p \in Eligible(fleet) :
          given[i].vehicle = fleet[p].id /\ given[i].w \in 1..TapW(fleet[p], hours)
    BY <1>2, <1>3, <1>4 DEF Discharged
  <2>2. PICK w \in Nat : w = given[i].w
    BY <1>3, <1>4
  <2>3. PICK t \in Nat : t = TapW(fleet[p], hours) /\ t <= fleet[p].limit
                         /\ t * hours <= AvailableWh(fleet[p])
    BY EligibleOnes, TapIs
  <2>4. AvailableWh(fleet[p]) \in Int /\ fleet[p].limit \in Int
    <3>1. fleet[p].soc \in Nat /\ fleet[p].capacity \in Nat /\ fleet[p].limit \in Nat
      BY EligibleOnes
    <3>2. PICK x \in Int, c \in Int : x = fleet[p].soc - 30 /\ c = fleet[p].capacity
      BY <3>1
    <3>3. x * c * 10 \in Int
      OBVIOUS
    <3> QED BY <3>1, <3>2, <3>3 DEF AvailableWh, ReserveSoc
  <2>5. w > 0 /\ w <= t /\ w <= fleet[p].limit
    BY <2>1, <2>2, <2>3, <2>4
  <2>6. w * hours <= AvailableWh(fleet[p])
    <3>1. hours * w <= hours * t /\ hours * w \in Int /\ hours * t \in Int
      BY <2>5, Products
    <3>2. hours * w = w * hours /\ hours * t = t * hours
      OBVIOUS
    <3> QED BY <2>3, <2>4, <3>1, <3>2
  <2>7. out[i].vehicle = fleet[p].id /\ out[i].w = RoundTo(w, 10) /\ out[i].wh = w * hours
    BY <1>4, <2>1, <2>2
  <2> QED BY <2>5, <2>6, <2>7
<1>7. \A i, j \in DOMAIN out : out[i].vehicle = out[j].vehicle => i = j
  <2>1. \A i, j \in DOMAIN given : given[i].vehicle = given[j].vehicle => i = j
    BY <1>2, <1>3 DEF Discharged
  <2> QED BY <1>4, <2>1
<1>8. PICK all : all = Max({0, Min({deficit,
                       SumFunction([p \in Eligible(fleet) |-> TapW(fleet[p], hours)])})})
  OBVIOUS
<1>9. SumOf(out, "wh") = hours * all
  <2>1. PICK S, f, h : /\ S = DOMAIN given
                       /\ f = [i \in DOMAIN given |-> given[i].w]
                       /\ h = [i \in DOMAIN out |-> out[i].wh]
    OBVIOUS
  <2>2. SumFunctionOnSet(f, S) = all
    <3>1. SumFunction(f) = all
      BY <1>2, <1>8, <2>1 DEF Discharged
    <3>2. DOMAIN f = S
      BY <2>1
    <3> QED BY <3>1, <3>2 DEF SumFunction
  <2>3. \A i \in S : f[i] \in Int /\ h[i] = hours * f[i]
    <3>1. ASSUME NEW i \in S PROVE f[i] \in Int /\ h[i] = hours * f[i]
      <4>1. f[i] = given[i].w /\ h[i] = given[i].w * hours /\ given[i].w \in Nat
        BY <1>3, <1>4, <2>1
      <4> QED BY <4>1
    <3> QED BY <3>1
  <2>4. SumFunctionOnSet(h, S) = hours * SumFunctionOnSet(f, S)
    <3>1. IsFiniteSet(S) /\ hours \in Int
      BY <1>5, <2>1
    <3> QED BY <2>3, <3>1, SumTimes
  <2>5. SumFunction(h) = SumFunctionOnSet(h, S)
    <3>1. DOMAIN h = S
      BY <1>4, <2>1
    <3> QED BY <3>1 DEF SumFunction
  <2>6. SumOf(out, "wh") = SumFunction(h)
    BY <2>1 DEF SumOf
  <2> QED BY <2>2, <2>4, <2>5, <2>6
<1>10. IsFiniteSet(DOMAIN out)
  BY <1>4, <1>5
<1> QED BY <1>6, <1>7, <1>8, <1>9, <1>10, Zenon DEF Asks

\* What the eligible vehicles can give, counted by position or by vehicle.
LEMMA TapsByVehicle ==
    ASSUME NEW fleet \in DispatchableFleets, ListedOnce(fleet), NEW hours \in Nat,
           NEW vs, vs = {fleet[i] : i \in DOMAIN fleet}
    PROVE  SumFunction([v \in {v \in vs : v.ready /\ v.soc > ReserveSoc} |-> TapW(v, hours)])
             = SumFunction([p \in Eligible(fleet) |-> TapW(fleet[p], hours)])
<1>1. PICK S, V, f, g, e :
        /\ S = Eligible(fleet)
        /\ V = {v \in vs : v.ready /\ v.soc > ReserveSoc}
        /\ f = [v \in V |-> TapW(v, hours)]
        /\ g = [p \in S |-> TapW(fleet[p], hours)]
        /\ e = [p \in S |-> fleet[p]]
  OBVIOUS
<1>2. IsFiniteSet(S) /\ DOMAIN e = S
  BY <1>1, EligibleOnes
<1>3. IsInjective(e)
  <2>1. ASSUME NEW p \in S, NEW q \in S, e[p] = e[q] PROVE p = q
    <3>1. fleet[p].id = fleet[q].id /\ p \in DOMAIN fleet /\ q \in DOMAIN fleet
      BY <1>1, <2>1 DEF Eligible
    <3> QED BY <3>1 DEF ListedOnce
  <2> QED BY <1>2, <2>1 DEF IsInjective
<1>4. {e[p] : p \in S} = V
  BY <1>1 DEF Eligible, IsEligible
<1>5. ASSUME NEW p \in S PROVE g[p] \in Int /\ g[p] = f[e[p]]
  <2>1. TapW(fleet[p], hours) \in Nat
    BY <1>1, EligibleOnes, TapIs
  <2>2. g[p] = TapW(fleet[p], hours) /\ e[p] = fleet[p] /\ e[p] \in V
    BY <1>1, <1>4
  <2>3. f[e[p]] = TapW(e[p], hours)
    BY <1>1, <2>2
  <2>4. TapW(fleet[p], hours) \in Int
    BY <2>1
  <2> QED BY <2>2, <2>3, <2>4
<1>6. SumFunctionOnSet(g, S) = SumFunctionOnSet(f, {e[p] : p \in S})
  BY <1>2, <1>3, <1>5, SumRenamed
<1>7. DOMAIN g = S /\ DOMAIN f = V
  BY <1>1
<1>8. SumFunction(f) = SumFunction(g)
  BY <1>4, <1>6, <1>7 DEF SumFunction
<1> QED BY <1>1, <1>8

LEMMA DispatchInHand ==
    ASSUME PlannerInv, Answered("dispatch")
    PROVE  \E r \in DispatchRequests :
             /\ call.request = r /\ call.out = DispatchV2G(r.fleet, r.deficit, r.hours)
             /\ r.fleet \in DispatchableFleets /\ r.deficit \in Int /\ r.hours \in Nat
<1>1. \E r \in DispatchRequests : Made("dispatch", r, DispatchV2G(r.fleet, r.deficit, r.hours))
  BY DEF PlannerInv, Answered, Made, NoCall
<1>2. \A r \in DispatchRequests :
        r.fleet \in DispatchableFleets /\ r.deficit \in Int /\ r.hours \in Nat
  BY DispatchAssumption
<1> QED BY <1>1, <1>2 DEF Made

\* Every vehicle keeps its reserve and is asked within its limit, but for the rounding
\* of the answer, and the deficit is covered or everyone eligible gives all it can,
\* whatever the fleet and the deficit, when no vehicle is in the list twice.
THEOREM DispatchIsSound ==
    (\A r \in DispatchRequests : ListedOnce(r.fleet)) => (PlannerSpec => []DispatchKeepsReserves)
<1> SUFFICES ASSUME \A r \in DispatchRequests : ListedOnce(r.fleet)
             PROVE  PlannerSpec => []DispatchKeepsReserves
  OBVIOUS
<1>1. PlannerInv => DispatchKeepsReserves
  <2>1. SUFFICES ASSUME PlannerInv, Answered("dispatch") PROVE DispatchKeepsReserves
    BY DEF DispatchKeepsReserves
  <2>2. PICK r \in DispatchRequests :
          /\ call.request = r /\ call.out = DispatchV2G(r.fleet, r.deficit, r.hours)
          /\ r.fleet \in DispatchableFleets /\ r.deficit \in Int /\ r.hours \in Nat
    BY <2>1, DispatchInHand
  <2>3. PICK out, fleet, hours, vs :
          /\ out = call.out /\ fleet = r.fleet /\ hours = r.hours
          /\ vs = {fleet[i] : i \in DOMAIN fleet}
    OBVIOUS
  <2>4. fleet \in DispatchableFleets /\ hours \in Nat /\ ListedOnce(fleet)
    BY <2>2, <2>3
  <2>5. /\ \A i \in DOMAIN out :
             \E p \in Eligible(fleet), w \in Nat :
                  /\ out[i].vehicle = fleet[p].id
                  /\ w > 0 /\ w <= fleet[p].limit /\ w * hours <= AvailableWh(fleet[p])
                  /\ out[i].w = RoundTo(w, 10) /\ out[i].wh = w * hours
        /\ \A i, j \in DOMAIN out : out[i].vehicle = out[j].vehicle => i = j
        /\ SumOf(out, "wh")
             = hours * Max({0, Min({r.deficit,
                         SumFunction([p \in Eligible(fleet) |-> TapW(fleet[p], hours)])})})
    <3>1. PICK deficit \in Int : deficit = r.deficit
      BY <2>2
    <3>2. out = DispatchV2G(fleet, deficit, hours)
      BY <2>2, <2>3, <3>1
    <3>3. Asks(out, fleet, deficit, hours)
      BY <2>4, <3>2, DispatchAsks
    <3> QED BY <3>1, <3>3, Zenon DEF Asks
  <2>6. ASSUME NEW v \in vs, NEW i \in {i \in DOMAIN out : out[i].vehicle = v.id}
        PROVE  /\ v \in {u \in vs : u.ready /\ u.soc > ReserveSoc}
               /\ Cardinality({j \in DOMAIN out : out[j].vehicle = v.id}) = 1
               /\ out[i].wh * 1000 <= (v.soc - ReserveSoc) * v.capacity * 10000
               /\ out[i].w <= v.limit + 5
    <3>1. PICK p \in Eligible(fleet), w \in Nat :
                  /\ out[i].vehicle = fleet[p].id
                  /\ w > 0 /\ w <= fleet[p].limit /\ w * hours <= AvailableWh(fleet[p])
                  /\ out[i].w = RoundTo(w, 10) /\ out[i].wh = w * hours
      BY <2>5
    <3>2. v = fleet[p]
      <4>1. PICK q \in DOMAIN fleet : v = fleet[q]
        BY <2>3
      <4>2. p \in DOMAIN fleet /\ fleet[p].id = fleet[q].id
        BY <3>1, <4>1 DEF Eligible
      <4> QED BY <2>4, <4>1, <4>2 DEF ListedOnce
    <3>3. v.soc \in Nat /\ v.capacity \in Nat /\ v.limit \in Nat /\ v.soc > ReserveSoc /\ v.ready
      BY <2>4, <3>2, EligibleOnes
    <3>4. {j \in DOMAIN out : out[j].vehicle = v.id} = {i}
      BY <2>5
    <3>5. Cardinality({j \in DOMAIN out : out[j].vehicle = v.id}) = 1
      <4>1. Cardinality({i}) = 1
        BY FS_Singleton
      <4> QED BY <3>4, <4>1
    <3>6. out[i].wh * 1000 <= (v.soc - ReserveSoc) * v.capacity * 10000
      <4>1. PICK a \in Int : a = (v.soc - 30) * v.capacity
        <5>1. PICK x \in Int, c \in Int : x = v.soc - 30 /\ c = v.capacity
          BY <3>3
        <5>2. x * c \in Int
          OBVIOUS
        <5> QED BY <5>1, <5>2
      <4>2. PICK b \in Int : b = w * hours
        <5>1. w * hours \in Int
          BY <2>4
        <5> QED BY <5>1
      <4>3. b <= a * 10
        BY <3>1, <3>2, <4>1, <4>2 DEF AvailableWh, ReserveSoc
      <4>4. b * 1000 <= a * 10000
        BY <4>3
      <4> QED BY <3>1, <4>1, <4>2, <4>4 DEF ReserveSoc
    <3>7. out[i].w <= v.limit + 5
      <4>1. PICK l \in Nat, x \in Nat : l = v.limit /\ x = out[i].w /\ w <= l /\ x <= w + 5
        BY <3>1, <3>2, <3>3, RoundToTens
      <4> QED BY <4>1
    <3>8. v \in {u \in vs : u.ready /\ u.soc > ReserveSoc}
      BY <3>3
    <3> QED BY <3>5, <3>6, <3>7, <3>8
  <2>7. SumOf(out, "wh")
          = hours * Max({0, Min({r.deficit,
              SumFunction([v \in {v \in vs : v.ready /\ v.soc > ReserveSoc} |-> TapW(v, hours)])})})
    <3>1. SumFunction([v \in {v \in vs : v.ready /\ v.soc > ReserveSoc} |-> TapW(v, hours)])
             = SumFunction([p \in Eligible(fleet) |-> TapW(fleet[p], hours)])
      BY <2>3, <2>4, TapsByVehicle
    <3> QED BY <2>5, <3>1
  <2>8. call.request = r /\ call.out = out
    BY <2>2, <2>3
  <2> QED BY <2>3, <2>6, <2>7, <2>8, SMTT(30) DEF DispatchKeepsReserves
<1> QED BY <1>1, AnswersAreTheRequests, PTL

-----------------------------------------------------------------------------
\* The vehicles of a set of positions are a fleet of their own.
LEMMA AmongIsAFleet ==
    ASSUME NEW fleet \in DispatchableFleets, ListedOnce(fleet), NEW S \in SUBSET (DOMAIN fleet),
           NEW near, near = Among(fleet, S)
    PROVE  /\ near \in DispatchableFleets
           /\ ListedOnce(near)
           /\ \A q \in DOMAIN near : \E p \in S : near[q] = fleet[p]
<1>1. PICK s, n, R : s = InOrder(S, R) /\ n = Cardinality(S) /\ R = {p \in S \X S : p[1] < p[2]}
  OBVIOUS
<1>2. PICK V : V = [id : Nat, ready : BOOLEAN, soc : Nat, capacity : Nat, limit : Nat]
  OBVIOUS
<1>3. fleet \in Seq(V)
  BY <1>2 DEF DispatchableFleets
<1>4. Len(fleet) \in Nat /\ DOMAIN fleet = 1..Len(fleet)
  BY <1>3
<1>5. IsFiniteSet(S) /\ \A p \in S : p \in Int
  <2>1. IsFiniteSet(1..Len(fleet)) /\ S \in SUBSET (1..Len(fleet))
    BY <1>4, FS_Interval
  <2>2. \A p \in 1..Len(fleet) : p \in Int
    BY <1>4
  <2> QED BY <2>1, <2>2, FS_Subset
<1>6. TotalOrder(R, S)
  <2>1. \A i, j \in S : <<i, j>> \in R <=> i < j
    BY <1>1
  <2>2. \A i \in S : <<i, i>> \notin R
    BY <1>5, <2>1
  <2>3. ASSUME NEW i \in S, NEW j \in S, i # j PROVE <<i, j>> \in R \/ <<j, i>> \in R
    BY <1>5, <2>1, <2>3
  <2>4. ASSUME NEW i \in S, NEW j \in S, NEW k \in S, <<i, j>> \in R, <<j, k>> \in R
        PROVE  <<i, k>> \in R
    BY <1>5, <2>1, <2>4
  <2> QED BY <2>2, <2>3, <2>4 DEF TotalOrder
<1>7. /\ n \in Nat /\ s \in [1..n -> S]
      /\ \A i, j \in 1..n : i < j => s[i] # s[j]
  <2>1. InOrderOf(s, n, S, R)
    BY <1>1, <1>5, <1>6, InOrderIs
  <2> QED BY <2>1, Zenon DEF InOrderOf
<1>8. near = [q \in 1..n |-> fleet[s[q]]]
  BY <1>1 DEF Among
<1>9. \A q \in 1..n : s[q] \in S /\ s[q] \in DOMAIN fleet /\ fleet[s[q]] \in V
  <2>1. \A p \in DOMAIN fleet : fleet[p] \in V
    BY <1>3
  <2> QED BY <1>7, <2>1
<1>10. near \in [1..n -> V]
  BY <1>8, <1>9
<1>11. near \in Seq(V)
  BY <1>7, <1>10
<1>12. ASSUME NEW i \in 1..n, NEW j \in 1..n, near[i].id = near[j].id PROVE i = j
  <2>1. s[i] = s[j]
    <3>1. fleet[s[i]].id = fleet[s[j]].id
      BY <1>8, <1>12
    <3> QED BY <1>9, <3>1 DEF ListedOnce
  <2>2. i \in Int /\ j \in Int
    BY <1>7
  <2> QED BY <1>7, <2>1, <2>2
<1>13. DOMAIN near = 1..n
  BY <1>8
<1>14. near \in DispatchableFleets
  BY <1>2, <1>11 DEF DispatchableFleets
<1>15. ListedOnce(near)
  BY <1>12, <1>13 DEF ListedOnce
<1>16. \A q \in DOMAIN near : \E p \in S : near[q] = fleet[p]
  BY <1>8, <1>9, <1>13
<1> QED BY <1>14, <1>15, <1>16

\* A whole multiple divides back.
LEMMA DividesBack ==
    ASSUME NEW unit \in Nat \ {0}, NEW k \in Int
    PROVE  (unit * k) \div unit = k
<1>1. PICK d \in Int, e \in Int : d = (unit * k) \div unit /\ e = unit * k
  OBVIOUS
<1>2. unit * d <= e /\ e < unit * d + unit
  BY <1>1, Division
<1>3. CASE d >= k + 1
  <2>1. unit * (k + 1) <= unit * d
    BY <1>3, Products
  <2>2. unit * (k + 1) = e + unit
    BY <1>1
  <2> QED BY <1>2, <2>1, <2>2
<1>4. CASE d <= k - 1
  <2>1. unit * d <= unit * (k - 1)
    BY <1>4, Products
  <2>2. unit * (k - 1) = e - unit
    BY <1>1
  <2>3. unit * d \in Int
    OBVIOUS
  <2> QED BY <1>2, <2>1, <2>2, <2>3
<1> QED BY <1>1, <1>3, <1>4

\* The nearest whole number of parts, and how far it can be.
LEMMA Nearest ==
    ASSUME NEW y \in Int, NEW unit \in Nat \ {0}
    PROVE  \E k \in Int : /\ RoundTo(y, unit) = unit * k
                          /\ RoundTo(y, unit) \div unit = k
                          /\ 2 * (unit * k) <= 2 * y + unit
                          /\ 2 * y <= 2 * (unit * k) + unit
<1>1. PICK q \in Int : q = y \div unit /\ unit * q <= y /\ y < unit * q + unit
  BY Division
<1>2. PICK m \in Int : m = unit * q
  OBVIOUS
<1>3. PICK r \in Int : r = y % unit /\ r = y - m
  <2>1. y % unit = y - unit * (y \div unit)
    OBVIOUS
  <2> QED BY <1>1, <1>2, <2>1
<1>4. PICK k \in Int : /\ k = IF 2 * r > unit \/ (2 * r = unit /\ q % 2 = 1) THEN q + 1 ELSE q
                       /\ k \in {q, q + 1}
  OBVIOUS
<1>5. RoundTo(y, unit) = unit * k
  BY <1>1, <1>3, <1>4 DEF RoundTo
<1>6. unit * (q + 1) = m + unit /\ unit * q = m
  BY <1>2
<1>7. 2 * (unit * k) <= 2 * y + unit /\ 2 * y <= 2 * (unit * k) + unit
  <2>1. CASE k = q
    <3>1. unit * k = m /\ 2 * r <= unit
      BY <1>4, <1>6, <2>1
    <3> QED BY <1>1, <1>2, <1>3, <3>1
  <2>2. CASE k = q + 1
    <3>1. unit * k = m + unit /\ 2 * r >= unit
      BY <1>4, <1>6, <2>2
    <3> QED BY <1>1, <1>2, <1>3, <3>1
  <2> QED BY <1>4, <2>1, <2>2
<1>8. (unit * k) \div unit = k
  BY DividesBack
<1> QED BY <1>5, <1>7, <1>8

\* What the vehicles give for a load is what the answer allocates, but for its rounding.
LEMMA AllocationsAddUp ==
    ASSUME NEW fleet \in DispatchableFleets, NEW load \in Nat, NEW hours \in Nat,
           ListedOnce(fleet), NEW out, out = DispatchV2G(fleet, load, hours),
           NEW given, given = SumOf(out, "wh") \div Max({1, hours}),
           NEW total, total = SumOf(out, "w"),
           NEW used, used = {out[i].vehicle : i \in DOMAIN out}
    PROVE  /\ given \in Nat /\ total \in Int /\ Cardinality(used) \in Nat
           /\ given <= total + 5 * Cardinality(used)
           /\ total <= given + 5 * Cardinality(used)
<1>1. PICK raw : raw = Discharges(fleet, load, hours)
  OBVIOUS
<1>2. PICK S, f, h : /\ S = DOMAIN raw
                     /\ f = [i \in DOMAIN raw |-> raw[i].w]
                     /\ h = [i \in DOMAIN out |-> out[i].w]
  OBVIOUS
<1>3. PICK taps : taps = SumFunction([p \in Eligible(fleet) |-> TapW(fleet[p], hours)])
  OBVIOUS
<1>4. PICK all : all = Max({0, Min({load, taps})})
  OBVIOUS
<1>5. Discharged(raw, fleet, load, hours) /\ Asks(out, fleet, load, hours)
  <2>1. load \in Int
    OBVIOUS
  <2>2. Discharged(raw, fleet, load, hours)
    BY <1>1, <2>1, DischargesAre
  <2>3. Asks(out, fleet, load, hours)
    BY <2>1, DispatchAsks
  <2> QED BY <2>2, <2>3
<1>6. /\ DOMAIN raw = 1..Len(raw) /\ Len(raw) \in Nat
      /\ \A i \in DOMAIN raw : raw[i].w \in Nat
  <2>1. raw \in Seq(Gift)
    BY <1>5 DEF Discharged
  <2>2. \A i \in DOMAIN raw : raw[i] \in Gift
    BY <2>1
  <2> QED BY <2>1, <2>2 DEF Gift
<1>7. DOMAIN out = S /\ \A i \in S : out[i].w = RoundTo(raw[i].w, 10)
  BY <1>1, <1>2 DEF DispatchV2G
<1>8. IsFiniteSet(S)
  BY <1>2, <1>6, FS_Interval
<1>9. SumFunctionOnSet(f, S) = all /\ SumOf(out, "wh") = hours * all
  <2>1. SumFunction(f) = all
    BY <1>2, <1>3, <1>4, <1>5 DEF Discharged
  <2>2. SumOf(out, "wh") = hours * all
    BY <1>3, <1>4, <1>5 DEF Asks
  <2>3. DOMAIN f = S
    BY <1>2
  <2> QED BY <2>1, <2>2, <2>3 DEF SumFunction
<1>10. \A i \in S : f[i] \in Nat /\ h[i] \in Nat /\ f[i] <= h[i] + 5 /\ h[i] <= f[i] + 5
  <2>1. ASSUME NEW i \in S
        PROVE  f[i] \in Nat /\ h[i] \in Nat /\ f[i] <= h[i] + 5 /\ h[i] <= f[i] + 5
    <3>1. PICK w \in Nat : w = raw[i].w
      BY <1>2, <1>6
    <3>2. f[i] = w /\ h[i] = RoundTo(w, 10)
      BY <1>2, <1>7, <3>1
    <3> QED BY <3>2, RoundToTens
  <2> QED BY <2>1
<1>11. SumFunctionOnSet(f, S) \in Nat /\ SumFunctionOnSet(h, S) \in Nat
  BY <1>8, <1>10, SumType
<1>12. /\ SumFunctionOnSet(f, S) <= SumFunctionOnSet(h, S) + 5 * Cardinality(S)
       /\ SumFunctionOnSet(h, S) <= SumFunctionOnSet(f, S) + 5 * Cardinality(S)
  <2>1. 5 \in Nat /\ \A i \in S : f[i] \in Int /\ h[i] \in Int /\ f[i] <= h[i] + 5 /\ h[i] <= f[i] + 5
    BY <1>10
  <2> QED BY <1>8, <2>1, SumsWithin
<1>13. SumFunctionOnSet(h, S) = total
  <2>1. DOMAIN h = S /\ total = SumFunction(h)
    BY <1>2, <1>7 DEF SumOf
  <2> QED BY <2>1 DEF SumFunction
<1>14. Cardinality(used) = Cardinality(S) /\ Cardinality(S) \in Nat
  <2>1. PICK e : e = [i \in S |-> out[i].vehicle]
    OBVIOUS
  <2>2. e \in Bijection(S, used)
    <3>1. \A i, j \in S : e[i] = e[j] => i = j
      BY <1>5, <1>7, <2>1 DEF Asks
    <3>2. e \in [S -> used] /\ \A u \in used : \E i \in S : e[i] = u
      BY <1>7, <2>1
    <3>3. DOMAIN e = S
      BY <2>1
    <3>4. e \in Injection(S, used)
      BY <3>1, <3>2, <3>3 DEF Injection, IsInjective
    <3>5. e \in Surjection(S, used)
      BY <3>2 DEF Surjection
    <3> QED BY <3>4, <3>5 DEF Bijection
  <2>3. ExistsBijection(S, used)
    BY <2>2 DEF ExistsBijection
  <2>4. Cardinality(S) = Cardinality(used)
    BY <1>8, <2>3, FS_Bijection
  <2> QED BY <1>8, <2>4, FS_CardinalityType
<1>15. given = all
  <2>1. all \in Nat
    BY <1>9, <1>11
  <2>2. CASE hours > 0
    <3>1. Max({1, hours}) = hours
      <4>1. 1 \in Int /\ hours \in Int /\ (1 <= hours)
        BY <2>2
      <4>2. Max({1, hours}) = IF 1 <= hours THEN hours ELSE 1
        BY <4>1, LesserOfTwo
      <4> QED BY <4>1, <4>2
    <3>2. hours \in Nat \ {0} /\ all \in Int
      BY <2>1, <2>2
    <3>3. (hours * all) \div hours = all
      BY <3>2, DividesBack
    <3> QED BY <1>9, <3>1, <3>3
  <2>3. CASE hours = 0
    <3>1. taps = 0
      <4>1. PICK g, T : T = Eligible(fleet) /\ g = [p \in Eligible(fleet) |-> TapW(fleet[p], hours)]
        OBVIOUS
      <4>2. \A p \in T : g[p] \in 0..0
        <5>1. ASSUME NEW p \in T PROVE TapW(fleet[p], hours) = 0
          BY <2>3, <4>1, EligibleOnes, TapIs
        <5> QED BY <4>1, <5>1
      <4>3. IsFiniteSet(T) /\ DOMAIN g = T
        BY <4>1, EligibleOnes
      <4>4. 0 \in Nat /\ Cardinality(T) \in Nat
        BY <4>3, FS_CardinalityType
      <4>5. SumFunctionOnSet(g, T) \in Nat /\ SumFunctionOnSet(g, T) <= 0 * Cardinality(T)
        BY <4>2, <4>3, <4>4, SumAtMost
      <4>6. SumFunctionOnSet(g, T) = 0
        BY <4>4, <4>5
      <4> QED BY <1>3, <4>1, <4>3, <4>6 DEF SumFunction
    <3>2. 0 \in Int /\ 0 <= load /\ load \in Int
      OBVIOUS
    <3>3. Min({load, 0}) = 0
      <4>1. Min({load, 0}) = IF load <= 0 THEN load ELSE 0
        BY <3>2, LesserOfTwo, Zenon
      <4> QED BY <4>1
    <3>4. Max({0, 0}) = 0
      <4>1. Max({0, 0}) = IF 0 <= 0 THEN 0 ELSE 0
        BY <3>2, LesserOfTwo, Zenon
      <4> QED BY <4>1
    <3>5. all = 0
      BY <1>4, <3>1, <3>3, <3>4
    <3>6. Max({1, 0}) = 1
      <4>1. 1 \in Int /\ 0 \in Int /\ ~(1 <= 0)
        OBVIOUS
      <4>2. Max({1, 0}) = IF 1 <= 0 THEN 0 ELSE 1
        BY <4>1, LesserOfTwo, Zenon
      <4> QED BY <4>1, <4>2
    <3>7. given = 0 \div 1
      BY <1>9, <2>3, <3>5, <3>6
    <3> QED BY <3>5, <3>7
  <2> QED BY <2>2, <2>3
<1> QED BY <1>9, <1>11, <1>12, <1>13, <1>14, <1>15

\* A coverage of the whole load and one of less, from the sum of the allocations.
LEMMA CoverageIs ==
    ASSUME NEW load \in Nat \ {0}, NEW total \in Int,
           NEW share, share = RoundTo(total * 1000, load) \div load,
           NEW coverage, coverage = Min({SafeShare, share})
    PROVE  /\ coverage = SafeShare => total + load \div 2000 + 1 >= load
           /\ coverage < SafeShare => total < load
<1>1. PICK y \in Int : y = total * 1000
  OBVIOUS
<1>2. PICK k \in Int : /\ RoundTo(y, load) = load * k
                       /\ RoundTo(y, load) \div load = k
                       /\ 2 * (load * k) <= 2 * y + load
                       /\ 2 * y <= 2 * (load * k) + load
  BY Nearest
<1>3. coverage = IF 1000 <= k THEN 1000 ELSE k
  <2>1. PICK c \in Int : c = 1000 /\ c = SafeShare
    BY DEF SafeShare
  <2>2. share = k
    BY <1>1, <1>2
  <2>3. coverage = Min({c, k})
    BY <2>1, <2>2
  <2>4. Min({c, k}) = IF c <= k THEN c ELSE k
    BY LesserOfTwo
  <2>5. coverage = IF c <= k THEN c ELSE k
    BY <2>3, <2>4
  <2> QED BY <2>1, <2>5
<1>4. PICK m \in Int : m = load * k
  OBVIOUS
<1>5. CASE k >= 1000
  <2>1. load * 1000 <= m
    BY <1>4, <1>5, Products
  <2>2. 2000 * load <= 2000 * total + load
    BY <1>1, <1>2, <1>4, <2>1
  <2>3. total + load \div 2000 + 1 >= load
    BY <2>2
  <2> QED BY <1>3, <1>5, <2>3 DEF SafeShare
<1>6. CASE k <= 999
  <2>1. m <= load * 999
    BY <1>4, <1>6, Products
  <2>2. 2000 * total <= 2 * (load * 999) + load
    BY <1>1, <1>2, <1>4, <2>1
  <2>3. total < load
    BY <2>2
  <2> QED BY <1>3, <1>6, <2>3 DEF SafeShare
<1> QED BY <1>5, <1>6

LEMMA BackupInHand ==
    ASSUME PlannerInv, Answered("backup")
    PROVE  \E r \in BackupRequests :
             /\ call.request = r
             /\ call.out = BackupPlan(r.load, r.fleet, r.far, r.radius, r.hours)
             /\ r.fleet \in DispatchableFleets /\ r.load \in Int /\ r.hours \in Nat
<1>1. \E r \in BackupRequests :
        Made("backup", r, BackupPlan(r.load, r.fleet, r.far, r.radius, r.hours))
  BY DEF PlannerInv, Answered, Made, NoCall
<1>2. \A r \in BackupRequests :
        r.fleet \in DispatchableFleets /\ r.load \in Int /\ r.hours \in Nat
  BY DispatchAssumption
<1> QED BY <1>1, <1>2 DEF Made

HonestCoverage(used, given, total, coverage, load, far, radius) ==
    /\ coverage = SafeShare => given + 5 * Cardinality(used) + load \div 2000 + 1 >= load
    /\ coverage < SafeShare => total < load /\ given <= total + 5 * Cardinality(used)
    /\ \A v \in used : far[v] \in 0..radius

\* Only vehicles that are known to be near are asked for a backup, and the coverage it
\* reports is what they give but for the two roundings, whatever the fleet, the load and
\* the radius, when no vehicle is in the list twice.
THEOREM BackupIsSound ==
    (\A r \in BackupRequests : ListedOnce(r.fleet)) => (PlannerSpec => []CoverageIsHonest)
<1> SUFFICES ASSUME \A r \in BackupRequests : ListedOnce(r.fleet)
             PROVE  PlannerSpec => []CoverageIsHonest
  OBVIOUS
<1>1. PlannerInv => CoverageIsHonest
  <2>1. SUFFICES ASSUME PlannerInv, Answered("backup"), call.request.load > 0
                 PROVE  CoverageIsHonest
    BY DEF CoverageIsHonest
  <2>2. PICK r \in BackupRequests :
          /\ call.request = r
          /\ call.out = BackupPlan(r.load, r.fleet, r.far, r.radius, r.hours)
          /\ r.fleet \in DispatchableFleets /\ r.load \in Int /\ r.hours \in Nat
    BY <2>1, BackupInHand
  <2>3. PICK load \in Nat \ {0}, hours \in Nat, fleet \in DispatchableFleets :
          load = r.load /\ hours = r.hours /\ fleet = r.fleet
    <3>1. r.load \in Nat \ {0}
      BY <2>1, <2>2
    <3> QED BY <2>2, <3>1
  <2>20. PICK S, near, out :
           /\ S = {i \in DOMAIN fleet : r.far[fleet[i].id] \in 0..r.radius}
           /\ near = Among(fleet, S)
           /\ out = DispatchV2G(near, load, hours)
    OBVIOUS
  <2>4. ListedOnce(fleet) /\ S \in SUBSET (DOMAIN fleet)
    BY <2>3, <2>20
  <2>5. /\ near \in DispatchableFleets
        /\ ListedOnce(near)
        /\ \A q \in DOMAIN near : \E p \in S : near[q] = fleet[p]
    <3>1. near = Among(fleet, S)
      BY <2>3, <2>20
    <3> QED BY <2>4, <3>1, AmongIsAFleet
  <2>14. PICK total : total = SumOf(out, "w")
    OBVIOUS
  <2>15. PICK given : given = SumOf(out, "wh") \div Max({1, hours})
    BY Zenon
  <2>16. PICK used : used = {out[i].vehicle : i \in DOMAIN out}
    BY Zenon
  <2>21. PICK share : share = RoundTo(total * 1000, load) \div load
    BY Zenon
  <2>22. PICK coverage : coverage = Min({SafeShare, share})
    BY Zenon
  <2>17. share = RoundTo(total * 1000, load) \div load /\ coverage = Min({SafeShare, share})
    BY <2>21, <2>22, Zenon
  <2>7. /\ call.out.allocations = out /\ call.out.total = total /\ call.out.coverage = coverage
        /\ call.request = r
    <3>1. NearbyVehicles(r.fleet, r.far, r.radius) = near
      BY <2>3, <2>20 DEF NearbyVehicles
    <3>2. ~(r.load <= 0)
      <4>1. ~(load <= 0)
        OBVIOUS
      <4> QED BY <2>3, <4>1, Zenon
    <3>3. call.out = BackupPlan(load, fleet, r.far, r.radius, hours)
      BY <2>2, <2>3, <2>20
    <3>4. NearbyVehicles(fleet, r.far, r.radius) = near /\ ~(load <= 0)
      BY <2>3, <2>20, <3>1, <3>2
    <3>5. out = DispatchV2G(near, load, hours)
      BY <2>3, <2>20
    <3>6. call.out = [allocations |-> out, total |-> total, coverage |-> coverage]
      BY <2>14, <2>17, <3>3, <3>4, <3>5, Zenon DEF BackupPlan
    <3> QED BY <2>2, <3>6
  <2>8. /\ given \in Nat /\ total \in Int /\ Cardinality(used) \in Nat
        /\ given <= total + 5 * Cardinality(used)
        /\ total <= given + 5 * Cardinality(used)
    <3>1. load \in Nat /\ out = DispatchV2G(near, load, hours)
      BY <2>3, <2>20
    <3> QED BY <2>5, <2>14, <2>15, <2>16, <3>1, AllocationsAddUp
  <2>9. /\ coverage = SafeShare => total + load \div 2000 + 1 >= load
        /\ coverage < SafeShare => total < load
    <3>1. total \in Int
      BY <2>8
    <3> QED BY <2>17, <3>1, CoverageIs
  <2>18. load \in Nat /\ load \div 2000 \in Int
    OBVIOUS
  <2>10. coverage = SafeShare => given + 5 * Cardinality(used) + load \div 2000 + 1 >= load
    BY <2>8, <2>9, <2>18
  <2>11. ASSUME NEW u \in used PROVE r.far[u] \in 0..r.radius
    <3>1. PICK i \in DOMAIN out : u = out[i].vehicle
      BY <2>16
    <3>2. Asks(out, near, load, hours)
      <4>1. load \in Int
        OBVIOUS
      <4>3. out = DispatchV2G(near, load, hours)
        BY <2>3, <2>20
      <4>2. near \in DispatchableFleets /\ ListedOnce(near)
        BY <2>5
      <4> QED BY <4>1, <4>2, <4>3, DispatchAsks
    <3>3. PICK q \in Eligible(near) : u = near[q].id
      BY <3>1, <3>2 DEF Asks
    <3>4. PICK p \in S : near[q] = fleet[p]
      BY <2>5 DEF Eligible
    <3> QED BY <2>3, <2>20, <3>3, <3>4
  <2>12. HonestCoverage(used, given, total, coverage, load, r.far, r.radius)
    BY <2>8, <2>9, <2>10, <2>11 DEF HonestCoverage
  <2>13. /\ {call.out.allocations[i].vehicle : i \in DOMAIN call.out.allocations} = used
         /\ SumOf(call.out.allocations, "wh") \div Max({1, call.request.hours}) = given
         /\ call.request.load = load /\ call.request.far = r.far /\ call.request.radius = r.radius
    BY <2>3, <2>20, <2>7, <2>15, <2>16
  <2>19. HonestCoverage({call.out.allocations[i].vehicle : i \in DOMAIN call.out.allocations},
                        SumOf(call.out.allocations, "wh") \div Max({1, call.request.hours}),
                        call.out.total, call.out.coverage, call.request.load,
                        call.request.far, call.request.radius)
    BY <2>7, <2>12, <2>13
  <2> QED BY <2>19 DEF HonestCoverage, CoverageIsHonest
<1> QED BY <1>1, AnswersAreTheRequests, PTL

-----------------------------------------------------------------------------
LEMMA DepotIs ==
    ASSUME NEW r \in FleetRequests
    PROVE  /\ IsFiniteSet(Vehicles(r.depot)) /\ r.depot.horizon \in Nat
           /\ \A c \in Chargers(r.depot) : r.depot.power[c] \in Nat \ {0} /\ c \in Nat \ {0}
           /\ \A v \in Vehicles(r.depot) :
                /\ v \in Nat \ {0}
                /\ r.depot.vehicles[v].energy \in Nat
                /\ r.depot.vehicles[v].emergency \in BOOLEAN
           /\ Vehicles(r.depot) = 1..Len(r.depot.vehicles) /\ Len(r.depot.vehicles) \in Nat
           /\ Chargers(r.depot) = 1..Len(r.depot.power) /\ Len(r.depot.power) \in Nat
<1>1. PICK V : V = [energy : Nat, emergency : BOOLEAN]
  OBVIOUS
<1>2. PICK vs \in Seq(V) : vs = r.depot.vehicles
  BY <1>1, FleetAssumption
<1>3. PICK ps \in Seq(Nat \ {0}) : ps = r.depot.power
  BY FleetAssumption
<1>4. r.depot.horizon \in Nat
  BY FleetAssumption
<1>5. DOMAIN ps = 1..Len(ps) /\ Len(ps) \in Nat /\ \A c \in DOMAIN ps : ps[c] \in Nat \ {0} /\ c \in Nat \ {0}
  OBVIOUS
<1>6. DOMAIN vs = 1..Len(vs) /\ Len(vs) \in Nat /\ \A v \in DOMAIN vs : vs[v] \in V /\ v \in Nat \ {0}
  OBVIOUS
<1>7. \A v \in DOMAIN vs : vs[v].energy \in Nat /\ vs[v].emergency \in BOOLEAN
  <2>1. \A x \in V : x.energy \in Nat /\ x.emergency \in BOOLEAN
    BY <1>1
  <2> QED BY <1>6, <2>1
<1>8. IsFiniteSet(Vehicles(r.depot))
  BY VehiclesAreFinite
<1> QED BY <1>2, <1>3, <1>4, <1>5, <1>6, <1>7, <1>8 DEF Vehicles, Chargers

\* A session takes at least a slot.
LEMMA SlotsAre ==
    ASSUME NEW r \in FleetRequests, NEW v \in Vehicles(r.depot), NEW c \in Chargers(r.depot)
    PROVE  RequiredSlots(r.depot, v, c) \in Nat \ {0}
<1>1. PICK e \in Nat, p \in Nat \ {0} : e = r.depot.vehicles[v].energy /\ p = r.depot.power[c]
  BY DepotIs
<1>2. PICK q \in Int : q = (e + p - 1) \div p
  OBVIOUS
<1>3. Max({1, q}) = IF 1 <= q THEN q ELSE 1
  <2>1. 1 \in Int
    OBVIOUS
  <2> QED BY <2>1, LesserOfTwo
<1>4. RequiredSlots(r.depot, v, c) = Max({1, q})
  BY <1>1, <1>2 DEF RequiredSlots
<1> QED BY <1>3, <1>4

\* Where a vehicle that is served is, and when.
LEMMA PlaceIs ==
    ASSUME NEW r \in FleetRequests, NEW v \in Vehicles(r.depot), NEW x
    PROVE  x \in Placements(r.depot, v) <=>
             \/ x = Unserved
             \/ /\ x = [charger |-> x.charger, start |-> x.start]
                /\ x.charger \in Chargers(r.depot)
                /\ x.start \in 0..(r.depot.horizon - RequiredSlots(r.depot, v, x.charger))
                /\ x # Unserved
<1>1. \A c \in Chargers(r.depot) : c # 0
  BY DepotIs
<1>2. ASSUME NEW c \in Chargers(r.depot), NEW t, x = [charger |-> c, start |-> t]
      PROVE  x.charger = c /\ x.start = t /\ x # Unserved
  BY <1>1, <1>2 DEF Unserved
<1>3. ASSUME x \in Placements(r.depot, v), x # Unserved
      PROVE  /\ x = [charger |-> x.charger, start |-> x.start]
             /\ x.charger \in Chargers(r.depot)
             /\ x.start \in 0..(r.depot.horizon - RequiredSlots(r.depot, v, x.charger))
  <2>1. PICK c \in Chargers(r.depot) :
          \E t \in 0..(r.depot.horizon - RequiredSlots(r.depot, v, c)) : x = [charger |-> c, start |-> t]
    BY <1>3 DEF Placements
  <2>2. PICK t \in 0..(r.depot.horizon - RequiredSlots(r.depot, v, c)) : x = [charger |-> c, start |-> t]
    BY <2>1
  <2> QED BY <1>2, <2>1, <2>2
<1>4. ASSUME /\ x = [charger |-> x.charger, start |-> x.start]
             /\ x.charger \in Chargers(r.depot)
             /\ x.start \in 0..(r.depot.horizon - RequiredSlots(r.depot, v, x.charger))
      PROVE  x \in Placements(r.depot, v)
  BY <1>4 DEF Placements
<1>5. Unserved \in Placements(r.depot, v)
  BY DEF Placements
<1> QED BY <1>3, <1>4, <1>5

\* A session ends in the horizon, and a vehicle without one costs its penalty.
LEMMA SlotsOfServed ==
    ASSUME NEW r \in FleetRequests, NEW plan, Placed(r.depot, plan), NEW v \in Vehicles(r.depot)
    PROVE  /\ plan[v] # Unserved => Slots(r.depot, plan, v) \in Nat \ {0}
           /\ plan[v] # Unserved =>
                /\ plan[v].charger \in Chargers(r.depot) /\ plan[v].start \in Nat
                /\ plan[v].start + Slots(r.depot, plan, v) <= r.depot.horizon
           /\ Penalty(r.depot, v) = IF r.depot.vehicles[v].emergency THEN 3000 ELSE 1000
<1>1. Penalty(r.depot, v) = IF r.depot.vehicles[v].emergency THEN 3000 ELSE 1000
  BY DEF Penalty, UnservedPenalty
<1>2. ASSUME plan[v] # Unserved
      PROVE  /\ Slots(r.depot, plan, v) \in Nat \ {0}
             /\ plan[v].charger \in Chargers(r.depot) /\ plan[v].start \in Nat
             /\ plan[v].start + Slots(r.depot, plan, v) <= r.depot.horizon
  <2>1. plan[v] \in Placements(r.depot, v)
    BY DEF Placed
  <2>2. PICK x, c, t : x = plan[v] /\ c = x.charger /\ t = x.start
    OBVIOUS
  <2>3. c \in Chargers(r.depot) /\ t \in 0..(r.depot.horizon - RequiredSlots(r.depot, v, c))
    BY <1>2, <2>1, <2>2, PlaceIs
  <2>4. PICK n \in Nat \ {0} : n = RequiredSlots(r.depot, v, c)
    BY <2>3, SlotsAre
  <2>5. PICK h \in Nat : h = r.depot.horizon
    BY DepotIs
  <2>6. t \in Nat /\ t + n <= h
    BY <2>3, <2>4, <2>5
  <2> QED BY <2>2, <2>3, <2>4, <2>5, <2>6 DEF Slots
<1> QED BY <1>1, <1>2

\* The cost of a plan adds up from what each vehicle costs.
LEMMA CostAddsUp ==
    ASSUME NEW r \in FleetRequests, NEW plan, Placed(r.depot, plan),
           NEW V, V = Vehicles(r.depot),
           NEW s, s = [v \in V |-> IF plan[v] # Unserved THEN Slots(r.depot, plan, v) ELSE 0],
           NEW p, p = [v \in V |-> IF plan[v] # Unserved THEN 0 ELSE Penalty(r.depot, v)]
    PROVE  /\ \A v \in V : s[v] \in Nat /\ p[v] \in Nat
           /\ Downtime(r.depot, plan) = SumFunctionOnSet(s, V)
           /\ PlanCost(r.depot, plan)
                = 10 * (SumFunctionOnSet(s, V) + SumFunctionOnSet(p, V)) + Peak(r.depot, plan)
<1>1. PICK f, g : /\ f = [v \in Served(r.depot, plan) |-> Slots(r.depot, plan, v)]
                  /\ g = [v \in V \ Served(r.depot, plan) |-> Penalty(r.depot, v)]
  OBVIOUS
<1>2. \A v \in V : /\ v \in Served(r.depot, plan) <=> plan[v] # Unserved
                   /\ Penalty(r.depot, v) \in Nat
                   /\ plan[v] # Unserved => Slots(r.depot, plan, v) \in Nat
  BY SlotsOfServed DEF Served
<1>3. IsFiniteSet(V) /\ Served(r.depot, plan) \subseteq V
  BY DepotIs DEF Served
<1>4. SumFunction(f) = SumFunctionOnSet(s, V) /\ \A v \in V : s[v] \in Nat
  <2>1. PICK T : T = DOMAIN f
    OBVIOUS
  <2>2. T \subseteq V /\ \A x \in T : s[x] = f[x] /\ f[x] \in Nat
    BY <1>1, <1>2, <1>3, <2>1
  <2>3. \A x \in V \ T : s[x] = 0
    BY <1>1, <1>2, <2>1
  <2> QED BY <1>3, <2>1, <2>2, <2>3, SumPadded
<1>5. SumFunction(g) = SumFunctionOnSet(p, V) /\ \A v \in V : p[v] \in Nat
  <2>1. PICK T : T = DOMAIN g
    OBVIOUS
  <2>2. T \subseteq V /\ \A x \in T : p[x] = g[x] /\ g[x] \in Nat
    BY <1>1, <1>2, <2>1
  <2>3. \A x \in V \ T : p[x] = 0
    BY <1>1, <1>2, <2>1
  <2> QED BY <1>3, <2>1, <2>2, <2>3, SumPadded
<1>6. Downtime(r.depot, plan) = SumFunction(f)
  BY <1>1 DEF Downtime
<1>7. PlanCost(r.depot, plan) = 10 * (Downtime(r.depot, plan) + SumFunction(g)) + Peak(r.depot, plan)
  BY <1>1 DEF PlanCost
<1> QED BY <1>4, <1>5, <1>6, <1>7

\* What a slot draws adds up from what each vehicle draws.
DrawOf(depot, plan, t) ==
    [v \in Vehicles(depot) |-> IF v \in Charging(depot, plan, t)
                              THEN depot.power[plan[v].charger] \div 10 ELSE 0]

LEMMA DrawAddsUp ==
    ASSUME NEW r \in FleetRequests, NEW plan, Placed(r.depot, plan), NEW t
    PROVE  /\ \A v \in Vehicles(r.depot) : DrawOf(r.depot, plan, t)[v] \in Nat
           /\ WholeDraw(r.depot, plan, t)
                = SumFunctionOnSet(DrawOf(r.depot, plan, t), Vehicles(r.depot))
<1>0. PICK V, d : V = Vehicles(r.depot) /\ d = DrawOf(r.depot, plan, t)
  OBVIOUS
<1>1. PICK C, f : /\ C = Charging(r.depot, plan, t)
                  /\ f = [v \in C |-> r.depot.power[plan[v].charger] \div 10]
  OBVIOUS
<1>2. \A v \in C : v \in V /\ r.depot.power[plan[v].charger] \in Nat
  BY <1>0, <1>1, ChargingDraws
<1>3. C = DOMAIN f /\ C \subseteq V /\ IsFiniteSet(V)
  BY <1>0, <1>1, <1>2, DepotIs
<1>4. \A v \in C : d[v] = f[v] /\ f[v] \in Nat
  <2>1. \A v \in C : f[v] = r.depot.power[plan[v].charger] \div 10 /\ d[v] = f[v]
    BY <1>0, <1>1, <1>2 DEF DrawOf
  <2>2. \A n \in Nat : n \div 10 \in Nat
    OBVIOUS
  <2> QED BY <1>2, <2>1, <2>2
<1>5. \A v \in V \ C : d[v] = 0
  BY <1>0, <1>1 DEF DrawOf
<1>6. WholeDraw(r.depot, plan, t) = SumFunction(f)
  BY <1>1, Zenon DEF WholeDraw
<1>7. SumFunction(f) = SumFunctionOnSet(d, V) /\ \A v \in V : d[v] \in Nat
  BY <1>3, <1>4, <1>5, SumPadded
<1> QED BY <1>0, <1>6, <1>7

\* A plan in which e has the place of v.
LEMMA PlaceGiven ==
    ASSUME NEW r \in FleetRequests, NEW plan, plan \in FeasiblePlans(r.depot),
           NEW e \in Vehicles(r.depot), NEW v \in Vehicles(r.depot),
           plan[e] = Unserved, plan[v] # Unserved,
           RequiredSlots(r.depot, e, plan[v].charger) <= Slots(r.depot, plan, v),
           r.depot.vehicles[e].emergency, ~r.depot.vehicles[v].emergency
    PROVE  \E other \in FeasiblePlans(r.depot) : PlanCost(r.depot, other) < PlanCost(r.depot, plan)
<1>1. PICK V, c, n, m : /\ V = Vehicles(r.depot) /\ c = plan[v].charger
                        /\ n = Slots(r.depot, plan, v) /\ m = RequiredSlots(r.depot, e, c)
  OBVIOUS
<1>2. Placed(r.depot, plan) /\ NoOverlap(r.depot, plan) /\ v # e
  BY FeasibleIs
<1>3. PICK other : other = [x \in V |-> IF x = v THEN Unserved ELSE IF x = e THEN plan[v] ELSE plan[x]]
  OBVIOUS
<1>4. /\ other[v] = Unserved /\ other[e] = plan[v] /\ other[e] # Unserved
      /\ \A x \in V \ {e, v} : other[x] = plan[x]
  BY <1>1, <1>2, <1>3
<1>5. /\ c \in Chargers(r.depot) /\ n \in Nat \ {0} /\ m \in Nat \ {0} /\ m <= n
      /\ plan[v].start \in Nat /\ plan[v].start + n <= r.depot.horizon
  <2>1. c \in Chargers(r.depot) /\ n \in Nat \ {0}
        /\ plan[v].start \in Nat /\ plan[v].start + n <= r.depot.horizon
    BY <1>1, <1>2, SlotsOfServed
  <2>2. m \in Nat \ {0}
    BY <1>1, <2>1, SlotsAre
  <2>3. m <= n
    BY <1>1
  <2> QED BY <2>1, <2>2, <2>3
<1>6. Placed(r.depot, other)
  <2>1. ASSUME NEW x \in V PROVE other[x] \in Placements(r.depot, x)
    <3>1. CASE x = v
      <4>1. Unserved \in Placements(r.depot, v)
        BY DEF Placements
      <4> QED BY <1>4, <3>1, <4>1
    <3>2. CASE x = e
      <4>1. PICK y : y = plan[v]
        OBVIOUS
      <4>2. y \in Placements(r.depot, v) /\ y # Unserved
        BY <1>2, <4>1 DEF Placed
      <4>3. y = [charger |-> y.charger, start |-> y.start] /\ y.charger = c
        BY <1>1, <4>1, <4>2, PlaceIs
      <4>4. y.start \in 0..(r.depot.horizon - m)
        <5>1. PICK h \in Nat, t \in Nat : h = r.depot.horizon /\ t = y.start
          BY <1>5, <4>1, DepotIs
        <5>2. t + n <= h
          BY <1>5, <4>1, <5>1
        <5>3. t \in 0..(h - m)
          BY <1>5, <5>2
        <5> QED BY <5>1, <5>3
      <4>5. y \in Placements(r.depot, e)
        BY <1>1, <1>5, <4>2, <4>3, <4>4, PlaceIs
      <4> QED BY <1>4, <3>2, <4>1, <4>5
    <3>3. CASE x \notin {e, v}
      BY <1>1, <1>2, <1>4, <3>3 DEF Placed
    <3> QED BY <3>1, <3>2, <3>3
  <2>2. other \in [V -> UNION {Placements(r.depot, x) : x \in V}]
    BY <1>3, <2>1
  <2> QED BY <1>1, <2>1, <2>2 DEF Placed
<1>7. Slots(r.depot, other, e) = m /\ \A x \in V \ {e, v} : Slots(r.depot, other, x) = Slots(r.depot, plan, x)
  BY <1>1, <1>4 DEF Slots
<1>8. ASSUME NEW t \in HourSlots(r.depot), NEW x \in Charging(r.depot, other, t)
      PROVE  /\ x \in V /\ x # v
             /\ x # e => x \in Charging(r.depot, plan, t) /\ other[x] = plan[x]
             /\ x = e => v \in Charging(r.depot, plan, t) /\ other[x] = plan[v]
  <2>1. /\ x \in V /\ other[x] # Unserved
        /\ other[x].start <= t /\ t < other[x].start + Slots(r.depot, other, x)
    BY <1>1 DEF Charging, Served
  <2>2. x # v
    BY <1>4, <2>1
  <2>3. ASSUME x # e PROVE x \in Charging(r.depot, plan, t) /\ other[x] = plan[x]
    <3>1. other[x] = plan[x] /\ Slots(r.depot, other, x) = Slots(r.depot, plan, x)
      BY <1>4, <1>7, <2>1, <2>2, <2>3
    <3> QED BY <1>1, <2>1, <3>1 DEF Charging, Served
  <2>4. ASSUME x = e PROVE v \in Charging(r.depot, plan, t) /\ other[x] = plan[v]
    <3>1. plan[v].start <= t /\ t < plan[v].start + m
      BY <1>4, <1>7, <2>1, <2>4
    <3>2. t \in Int
      BY DEF HourSlots
    <3>3. t < plan[v].start + n
      BY <1>5, <3>1, <3>2
    <3> QED BY <1>1, <1>4, <2>4, <3>1, <3>3 DEF Charging, Served
  <2> QED BY <2>1, <2>2, <2>3, <2>4
<1>9. NoOverlap(r.depot, other)
  <2>1. ASSUME NEW t \in HourSlots(r.depot), NEW x \in Charging(r.depot, other, t),
               NEW y \in Charging(r.depot, other, t), other[x].charger = other[y].charger
        PROVE  x = y
    <3>1. \A a, b \in Charging(r.depot, plan, t) : plan[a].charger = plan[b].charger => a = b
      BY <1>2 DEF NoOverlap
    <3>2. x # v /\ y # v
      BY <1>8
    <3>3. CASE x # e /\ y # e
      BY <1>8, <2>1, <3>1, <3>3
    <3>4. CASE x = e /\ y # e
      <4>1. v \in Charging(r.depot, plan, t) /\ other[x] = plan[v]
            /\ y \in Charging(r.depot, plan, t) /\ other[y] = plan[y]
        BY <1>8, <3>4
      <4> QED BY <2>1, <3>1, <3>2, <4>1
    <3>5. CASE x # e /\ y = e
      <4>1. v \in Charging(r.depot, plan, t) /\ other[y] = plan[v]
            /\ x \in Charging(r.depot, plan, t) /\ other[x] = plan[x]
        BY <1>8, <3>5
      <4> QED BY <2>1, <3>1, <3>2, <4>1
    <3> QED BY <3>3, <3>4, <3>5
  <2> QED BY <2>1 DEF NoOverlap
<1>10. IsFiniteSet(V)
  BY <1>1, DepotIs
<1>11. ASSUME NEW t \in HourSlots(r.depot)
       PROVE  WholeDraw(r.depot, other, t) <= WholeDraw(r.depot, plan, t)
  <2>0. PICK d, b : d = DrawOf(r.depot, plan, t) /\ b = DrawOf(r.depot, other, t)
    OBVIOUS
  <2>1. \A x \in V : /\ d[x] = IF x \in Charging(r.depot, plan, t)
                                THEN r.depot.power[plan[x].charger] \div 10 ELSE 0
                     /\ b[x] = IF x \in Charging(r.depot, other, t)
                                THEN r.depot.power[other[x].charger] \div 10 ELSE 0
    BY <1>1, <2>0 DEF DrawOf
  <2>2. (\A x \in V : d[x] \in Nat) /\ WholeDraw(r.depot, plan, t) = SumFunctionOnSet(d, V)
    BY <1>1, <1>2, <2>0, DrawAddsUp
  <2>3. (\A x \in V : b[x] \in Nat) /\ WholeDraw(r.depot, other, t) = SumFunctionOnSet(b, V)
    BY <1>1, <1>6, <2>0, DrawAddsUp
  <2>4. PICK g : g = [x \in V |-> IF x \in {e, v} THEN b[x] ELSE d[x]]
    OBVIOUS
  <2>5. \A x \in V : g[x] \in Nat
    BY <2>2, <2>3, <2>4
  <2>6. g[e] = b[e] /\ g[v] = b[v] /\ \A x \in V \ {e, v} : g[x] = d[x]
    BY <1>1, <2>4
  <2>7. /\ SumFunctionOnSet(d, V) \in Nat /\ SumFunctionOnSet(g, V) \in Nat
        /\ SumFunctionOnSet(g, V) = SumFunctionOnSet(d, V) - d[e] - d[v] + g[e] + g[v]
    BY <1>1, <1>2, <1>10, <2>2, <2>5, <2>6, SumChangesTwo
  <2>8. b[v] = 0
    BY <1>1, <1>8, <2>1
  <2>9. b[e] <= d[v]
    <3>1. CASE e \in Charging(r.depot, other, t)
      BY <1>1, <1>8, <2>1, <2>2, <3>1
    <3>2. CASE e \notin Charging(r.depot, other, t)
      BY <1>1, <2>1, <2>2, <3>2
    <3> QED BY <3>1, <3>2
  <2>10. d[e] \in Nat /\ d[v] \in Nat /\ g[e] \in Nat /\ g[v] \in Nat
    BY <1>1, <2>2, <2>5
  <2>11. SumFunctionOnSet(g, V) <= SumFunctionOnSet(d, V)
    BY <2>6, <2>7, <2>8, <2>9, <2>10
  <2>12. ASSUME NEW x \in V PROVE b[x] \in Int /\ g[x] \in Int /\ b[x] <= g[x]
    <3>0. b[x] \in Nat /\ g[x] \in Nat /\ d[x] \in Nat
      BY <2>2, <2>3, <2>5
    <3>1. CASE x \in {e, v}
      BY <2>6, <3>0, <3>1
    <3>2. CASE x \notin {e, v} /\ x \in Charging(r.depot, other, t)
      <4>1. x \in Charging(r.depot, plan, t) /\ other[x] = plan[x]
        BY <1>8, <3>2
      <4>2. b[x] = d[x]
        BY <2>1, <3>2, <4>1
      <4> QED BY <2>6, <3>0, <3>2, <4>2
    <3>3. CASE x \notin {e, v} /\ x \notin Charging(r.depot, other, t)
      <4>1. b[x] = 0
        BY <2>1, <3>3
      <4> QED BY <3>0, <4>1
    <3> QED BY <3>1, <3>2, <3>3
  <2>13. SumFunctionOnSet(b, V) <= SumFunctionOnSet(g, V)
    BY <1>10, <2>12, SumIsMonotone
  <2>14. SumFunctionOnSet(b, V) \in Nat
    BY <1>10, <2>3, SumType
  <2> QED BY <2>2, <2>3, <2>7, <2>11, <2>13, <2>14
<1>12. Peak(r.depot, other) \in Nat /\ Peak(r.depot, plan) \in Nat
       /\ Peak(r.depot, other) <= Peak(r.depot, plan)
  <2>1. PICK b \in Nat : b = Peak(r.depot, plan)
    BY <1>2, PeakIsHighest
  <2>2. \A t \in HourSlots(r.depot) :
          WholeDraw(r.depot, plan, t) <= b /\ WholeDraw(r.depot, plan, t) \in Nat
          /\ WholeDraw(r.depot, other, t) \in Nat
    BY <1>2, <1>6, <2>1, PeakIsHighest, Draws
  <2>3. \A t \in HourSlots(r.depot) : WholeDraw(r.depot, other, t) <= b
    BY <1>11, <2>2
  <2> QED BY <1>6, <2>1, <2>3, PeakIsHighest
<1>13. other \in FeasiblePlans(r.depot)
  <2>1. ASSUME r.depot.feeder # NoFeeder PROVE Peak(r.depot, other) <= r.depot.feeder \div 10
    <3>1. PICK f \in Nat : f = r.depot.feeder
      BY <2>1, FleetAssumption
    <3>2. Peak(r.depot, plan) <= f \div 10
      BY <2>1, <3>1, FeasibleIs
    <3>3. f \div 10 \in Nat
      OBVIOUS
    <3> QED BY <1>12, <3>1, <3>2, <3>3
  <2> QED BY <1>6, <1>9, <2>1, FeasibleIs
<1>14. PlanCost(r.depot, other) < PlanCost(r.depot, plan)
  <2>1. PICK s, p : /\ s = [x \in V |-> IF plan[x] # Unserved THEN Slots(r.depot, plan, x) ELSE 0]
                    /\ p = [x \in V |-> IF plan[x] # Unserved THEN 0 ELSE Penalty(r.depot, x)]
    OBVIOUS
  <2>2. PICK s2, p2 : /\ s2 = [x \in V |-> IF other[x] # Unserved THEN Slots(r.depot, other, x) ELSE 0]
                      /\ p2 = [x \in V |-> IF other[x] # Unserved THEN 0 ELSE Penalty(r.depot, x)]
    OBVIOUS
  <2>3. /\ \A x \in V : s[x] \in Nat /\ p[x] \in Nat
        /\ PlanCost(r.depot, plan)
             = 10 * (SumFunctionOnSet(s, V) + SumFunctionOnSet(p, V)) + Peak(r.depot, plan)
    BY <1>1, <1>2, <2>1, CostAddsUp
  <2>4. /\ \A x \in V : s2[x] \in Nat /\ p2[x] \in Nat
        /\ PlanCost(r.depot, other)
             = 10 * (SumFunctionOnSet(s2, V) + SumFunctionOnSet(p2, V)) + Peak(r.depot, other)
    BY <1>1, <1>6, <2>2, CostAddsUp
  <2>5. \A x \in V \ {e, v} : s2[x] = s[x] /\ p2[x] = p[x]
    BY <1>4, <1>7, <2>1, <2>2
  <2>6. Penalty(r.depot, e) = 3000 /\ Penalty(r.depot, v) = 1000
    BY DEF Penalty, UnservedPenalty
  <2>7. s[e] = 0 /\ s[v] = n /\ p[e] = 3000 /\ p[v] = 0
    BY <1>1, <2>1, <2>6
  <2>8. s2[e] = m /\ s2[v] = 0 /\ p2[e] = 0 /\ p2[v] = 1000
    BY <1>1, <1>4, <1>7, <2>2, <2>6
  <2>9. /\ SumFunctionOnSet(s, V) \in Nat /\ SumFunctionOnSet(s2, V) \in Nat
        /\ SumFunctionOnSet(s2, V) = SumFunctionOnSet(s, V) - s[e] - s[v] + s2[e] + s2[v]
    BY <1>1, <1>2, <1>10, <2>3, <2>4, <2>5, SumChangesTwo
  <2>10. /\ SumFunctionOnSet(p, V) \in Nat /\ SumFunctionOnSet(p2, V) \in Nat
         /\ SumFunctionOnSet(p2, V) = SumFunctionOnSet(p, V) - p[e] - p[v] + p2[e] + p2[v]
    BY <1>1, <1>2, <1>10, <2>3, <2>4, <2>5, SumChangesTwo
  <2> QED BY <1>5, <1>12, <2>3, <2>4, <2>7, <2>8, <2>9, <2>10
<1> QED BY <1>13, <1>14

\* No plan costs less than an optimal one.
LEMMA OptimalIsCheapest ==
    ASSUME NEW r \in FleetRequests, NEW plan \in OptimalPlans(r.depot),
           NEW other \in FeasiblePlans(r.depot)
    PROVE  /\ plan \in FeasiblePlans(r.depot)
           /\ PlanCost(r.depot, plan) <= PlanCost(r.depot, other)
<1>1. PICK F, C : F = FeasiblePlans(r.depot) /\ C = {PlanCost(r.depot, p) : p \in F}
  OBVIOUS
<1>2. ASSUME NEW p \in F PROVE PlanCost(r.depot, p) \in Nat
  <2>1. Placed(r.depot, p)
    BY <1>1, FeasibleIs
  <2>2. PICK V, s, u : /\ V = Vehicles(r.depot)
                       /\ s = [v \in V |-> IF p[v] # Unserved THEN Slots(r.depot, p, v) ELSE 0]
                       /\ u = [v \in V |-> IF p[v] # Unserved THEN 0 ELSE Penalty(r.depot, v)]
    OBVIOUS
  <2>3. /\ \A v \in V : s[v] \in Nat /\ u[v] \in Nat
        /\ PlanCost(r.depot, p)
             = 10 * (SumFunctionOnSet(s, V) + SumFunctionOnSet(u, V)) + Peak(r.depot, p)
    BY <2>1, <2>2, CostAddsUp
  <2>4. IsFiniteSet(V)
    BY <2>2, DepotIs
  <2>5. SumFunctionOnSet(s, V) \in Nat /\ SumFunctionOnSet(u, V) \in Nat
    BY <2>3, <2>4, SumType
  <2>6. Peak(r.depot, p) \in Nat
    BY <2>1, PeakIsHighest
  <2> QED BY <2>3, <2>5, <2>6
<1>3. C \in SUBSET Nat /\ C # {}
  BY <1>1, <1>2
<1>4. PICK m \in C : \A k \in C : m <= k
  BY <1>3, LeastNumber
<1>5. Min(C) \in C /\ \A k \in C : Min(C) <= k
  BY <1>4 DEF Min
<1>6. plan \in F /\ PlanCost(r.depot, plan) = Min(C)
  BY <1>1 DEF OptimalPlans
<1> QED BY <1>1, <1>5, <1>6

-----------------------------------------------------------------------------
\* The next vehicle takes the charger that is free first, or goes without.
NaiveTurn(depot, before, n) ==
    LET soonest == Min({before.free[c] : c \in Chargers(depot)})
        charger == Min({c \in Chargers(depot) : before.free[c] = soonest})
        end == soonest + RequiredSlots(depot, n, charger)
    IN IF end > depot.horizon
       THEN [before EXCEPT !.plan = Append(@, Unserved)]
       ELSE [free |-> [before.free EXCEPT ![charger] = end],
             plan |-> Append(before.plan, [charger |-> charger, start |-> soonest])]

NaiveStart(depot) == [free |-> [c \in Chargers(depot) |-> 0], plan |-> <<>>]

NaiveTurns(N, depot, m) ==
    N = [n \in 0..m |-> IF n = 0 THEN NaiveStart(depot) ELSE NaiveTurn(depot, N[n - 1], n)]

LEMMA NaiveTurnsExist ==
    ASSUME NEW depot, NEW n \in Nat
    PROVE  \E N : NaiveTurns(N, depot, n)
<1>1. PICK B : B = {m \in Nat : ~ \E N : NaiveTurns(N, depot, m)}
  OBVIOUS
<1>2. SUFFICES ASSUME B # {} PROVE FALSE
  BY <1>1, <1>2
<1>3. PICK m \in B : \A k \in B : m <= k
  BY <1>1, <1>2, LeastNumber
<1> PICK start : start = NaiveStart(depot)
  OBVIOUS
<1>4. m # 0
  <2>1. PICK N : N = [i \in 0..0 |-> start]
    OBVIOUS
  <2>2. DOMAIN N = 0..0 /\ \A i \in 0..0 : i = 0
    BY <2>1
  <2>3. N = [i \in 0..0 |-> IF i = 0 THEN start ELSE NaiveTurn(depot, N[i - 1], i)]
    BY <2>1, <2>2
  <2>4. NaiveTurns(N, depot, 0)
    BY <2>3 DEF NaiveTurns
  <2> QED BY <1>1, <2>4
<1>5. m - 1 \in Nat /\ m - 1 \notin B
  BY <1>1, <1>3, <1>4
<1>6. PICK N : NaiveTurns(N, depot, m - 1)
  BY <1>1, <1>5
<1>7. PICK E : E = [i \in 0..m |-> IF i = m THEN NaiveTurn(depot, N[m - 1], m) ELSE N[i]]
  OBVIOUS
<1>8. ASSUME NEW i \in 0..m
      PROVE  E[i] = IF i = 0 THEN start ELSE NaiveTurn(depot, E[i - 1], i)
  <2>1. CASE i = m
    <3>1. E[i] = NaiveTurn(depot, N[i - 1], i) /\ i - 1 \in 0..m /\ i - 1 # m
      BY <1>1, <1>4, <1>7, <2>1
    <3>2. E[i - 1] = N[i - 1]
      BY <1>7, <3>1
    <3> QED BY <1>4, <2>1, <3>1, <3>2
  <2>2. CASE i = 0
    <3>1. i \in 0..(m - 1)
      BY <1>5, <2>2
    <3>2. N[i] = start
      BY <1>6, <2>2, <3>1 DEF NaiveTurns
    <3> QED BY <1>4, <1>7, <2>2, <3>2
  <2>3. CASE i # m /\ i # 0
    <3>1. i \in 0..(m - 1) /\ i - 1 \in 0..m /\ i - 1 # m
      BY <1>1, <2>3
    <3>2. N[i] = NaiveTurn(depot, N[i - 1], i)
      BY <1>6, <2>3, <3>1 DEF NaiveTurns
    <3>3. E[i] = N[i] /\ E[i - 1] = N[i - 1]
      BY <1>7, <2>3, <3>1
    <3> QED BY <2>3, <3>2, <3>3
  <2> QED BY <2>1, <2>2, <2>3
<1>9. NaiveTurns(E, depot, m)
  <2>1. E = [i \in 0..m |-> IF i = 0 THEN start ELSE NaiveTurn(depot, E[i - 1], i)]
    BY <1>7, <1>8
  <2> QED BY <2>1 DEF NaiveTurns
<1> QED BY <1>1, <1>9

\* The baseline's plan is what the vehicles have decided after the last one's turn.
LEMMA NaivePlanIs ==
    ASSUME NEW depot, NEW n \in Nat, n = Len(depot.vehicles)
    PROVE  \E N : NaiveTurns(N, depot, n) /\ NaivePlan(depot) = N[n].plan
<1> DEFINE D == CHOOSE N : NaiveTurns(N, depot, Len(depot.vehicles))
<1>1. NaivePlan(depot) = D[n].plan
  BY Zenon DEF NaivePlan, NaiveTurns, NaiveTurn, NaiveStart
<1>2. NaiveTurns(D, depot, n)
  BY NaiveTurnsExist
<1> HIDE DEF D
<1> QED BY <1>1, <1>2

\* The least of a set of numbers is in it.
LEMMA LeastIsIn ==
    ASSUME NEW S \in SUBSET Nat, S # {}
    PROVE  Min(S) \in S
<1>1. PICK m \in S : \A k \in S : m <= k
  BY LeastNumber
<1> QED BY <1>1 DEF Min

\* After m turns: the vehicles so far are placed, and a charger is free when the last
\* of those at it ends, each starting no sooner than those before it end.
TookTurns(depot, st, m) ==
    LET End(v) == st.plan[v].start + Slots(depot, st.plan, v)
    IN /\ st.free \in [Chargers(depot) -> 0..depot.horizon]
       /\ st.plan \in Seq(UNION {Placements(depot, v) : v \in Vehicles(depot)})
       /\ Len(st.plan) = m
       /\ \A v \in 1..m : st.plan[v] \in Placements(depot, v)
       /\ \A v \in 1..m : st.plan[v] # Unserved => End(v) <= st.free[st.plan[v].charger]
       /\ \A v, w \in 1..m :
            v < w /\ st.plan[v] # Unserved /\ st.plan[w] # Unserved
              /\ st.plan[v].charger = st.plan[w].charger => End(v) <= st.plan[w].start

LEMMA TurnTaken ==
    ASSUME NEW r \in FleetRequests, r.depot.power # <<>>,
           NEW m \in Vehicles(r.depot), NEW st, TookTurns(r.depot, st, m - 1)
    PROVE  TookTurns(r.depot, NaiveTurn(r.depot, st, m), m)
<1>0. PICK C, V, P, free, plan, h :
        /\ C = Chargers(r.depot) /\ V = Vehicles(r.depot) /\ h = r.depot.horizon
        /\ P = UNION {Placements(r.depot, v) : v \in Vehicles(r.depot)}
        /\ free = st.free /\ plan = st.plan
  OBVIOUS
<1>1. /\ C = Chargers(r.depot) /\ V = Vehicles(r.depot) /\ h = r.depot.horizon /\ h \in Nat
      /\ P = UNION {Placements(r.depot, v) : v \in Vehicles(r.depot)}
      /\ free = st.free /\ plan = st.plan
  BY <1>0, DepotIs
<1>11. h \in Nat
  BY <1>1
<1>2. /\ free \in [C -> 0..h] /\ plan \in Seq(P) /\ Len(plan) = m - 1
      /\ \A v \in 1..(m - 1) : plan[v] \in Placements(r.depot, v)
      /\ \A v \in 1..(m - 1) : plan[v] # Unserved =>
           plan[v].start + Slots(r.depot, plan, v) <= free[plan[v].charger]
      /\ \A v, w \in 1..(m - 1) :
           v < w /\ plan[v] # Unserved /\ plan[w] # Unserved /\ plan[v].charger = plan[w].charger
             => plan[v].start + Slots(r.depot, plan, v) <= plan[w].start
  BY <1>1 DEF TookTurns
<1>3. m \in Nat \ {0} /\ \A v \in 1..m : v \in V
  BY <1>1, DepotIs
<1>4. PICK soonest, charger :
        /\ soonest = Min({free[c] : c \in C})
        /\ charger = Min({c \in C : free[c] = soonest})
  OBVIOUS
<1>5. charger \in C /\ free[charger] = soonest /\ soonest \in 0..h
  <2>1. C # {} /\ C \in SUBSET Nat
    <3>1. PICK p \in Seq(Nat \ {0}) : p = r.depot.power
      BY FleetAssumption
    <3>2. p # <<>> => 1 \in DOMAIN p
      OBVIOUS
    <3>3. C = DOMAIN p /\ DOMAIN p \in SUBSET Nat
      BY <1>1, <3>1 DEF Chargers
    <3> QED BY <3>1, <3>2, <3>3
  <2>2. PICK S : S = {free[c] : c \in C}
    OBVIOUS
  <2>3. S \in SUBSET Nat /\ S # {}
    <3>1. \A c \in C : free[c] \in Nat
      BY <1>2, <1>11
    <3> QED BY <2>1, <2>2, <3>1
  <2>4. soonest \in S
    BY <1>4, <2>2, <2>3, LeastIsIn
  <2>5. PICK D : D = {c \in C : free[c] = soonest}
    OBVIOUS
  <2>6. D \in SUBSET Nat /\ D # {}
    BY <2>1, <2>2, <2>4, <2>5
  <2>7. charger \in D
    BY <1>4, <2>5, <2>6, LeastIsIn
  <2> QED BY <1>2, <2>5, <2>7
<1>6. PICK k \in Nat \ {0}, end \in Nat :
        k = RequiredSlots(r.depot, m, charger) /\ end = soonest + k
  <2>1. RequiredSlots(r.depot, m, charger) \in Nat \ {0}
    BY <1>1, <1>3, <1>5, SlotsAre
  <2> QED BY <1>5, <2>1
<1>8. \A v \in 1..m : v \in 1..(m - 1) \/ v = m
  BY <1>3
<1>9. CASE end > h
  <2>1. PICK plan2 : plan2 = Append(plan, Unserved)
    OBVIOUS
  <2>2. PICK st2 : st2 = [st EXCEPT !.plan = plan2]
    OBVIOUS
  <2>3. NaiveTurn(r.depot, st, m) = st2
    BY <1>1, <1>4, <1>6, <1>9, <2>1, <2>2 DEF NaiveTurn
  <2>4. Unserved \in Placements(r.depot, m) /\ Unserved \in P
    BY <1>1 DEF Placements
  <2>5. /\ plan2 \in Seq(P) /\ Len(plan2) = m /\ plan2[m] = Unserved
        /\ \A v \in 1..(m - 1) :
             plan2[v] = plan[v] /\ Slots(r.depot, plan2, v) = Slots(r.depot, plan, v)
    <3>1. /\ plan2 \in Seq(P) /\ Len(plan2) = m /\ plan2[m] = Unserved
          /\ \A v \in 1..(m - 1) : plan2[v] = plan[v]
      BY <1>2, <1>3, <2>1, <2>4
    <3> QED BY <3>1 DEF Slots
  <2>6. \A v \in 1..m : plan2[v] \in Placements(r.depot, v)
    BY <1>2, <1>8, <2>4, <2>5
  <2>7. \A v \in 1..m : plan2[v] # Unserved =>
           plan2[v].start + Slots(r.depot, plan2, v) <= free[plan2[v].charger]
    BY <1>2, <1>8, <2>5
  <2>8. \A v, w \in 1..m :
           v < w /\ plan2[v] # Unserved /\ plan2[w] # Unserved /\ plan2[v].charger = plan2[w].charger
             => plan2[v].start + Slots(r.depot, plan2, v) <= plan2[w].start
    BY <1>2, <1>8, <2>5
  <2>9. st2.plan = plan2 /\ st2.free = free
    BY <1>1, <2>2
  <2> QED BY <1>1, <1>2, <2>3, <2>5, <2>6, <2>7, <2>8, <2>9 DEF TookTurns
<1>10. CASE ~(end > h)
  <2>1. PICK x, plan2, free2 : /\ x = [charger |-> charger, start |-> soonest]
                               /\ plan2 = Append(plan, x)
                               /\ free2 = [free EXCEPT ![charger] = end]
    OBVIOUS
  <2>2. PICK st2 : st2 = [free |-> free2, plan |-> plan2]
    OBVIOUS
  <2>3. NaiveTurn(r.depot, st, m) = st2
    BY <1>1, <1>4, <1>6, <1>10, <2>1, <2>2 DEF NaiveTurn
  <2>4. x \in Placements(r.depot, m) /\ x \in P /\ x.charger = charger /\ x.start = soonest
    <3>1. soonest \in 0..(h - k)
      BY <1>5, <1>6, <1>10, <1>11
    <3>2. x \in Placements(r.depot, m)
      BY <1>1, <1>5, <1>6, <2>1, <3>1 DEF Placements
    <3> QED BY <1>1, <2>1, <3>2
  <2>5. /\ plan2 \in Seq(P) /\ Len(plan2) = m /\ plan2[m] = x
        /\ \A v \in 1..(m - 1) :
             plan2[v] = plan[v] /\ Slots(r.depot, plan2, v) = Slots(r.depot, plan, v)
        /\ Slots(r.depot, plan2, m) = k
    <3>1. /\ plan2 \in Seq(P) /\ Len(plan2) = m /\ plan2[m] = x
          /\ \A v \in 1..(m - 1) : plan2[v] = plan[v]
      BY <1>2, <1>3, <2>1, <2>4
    <3> QED BY <1>6, <2>4, <3>1 DEF Slots
  <2>6. \A v \in 1..m : plan2[v] \in Placements(r.depot, v)
    BY <1>2, <1>8, <2>4, <2>5
  <2>7. /\ free2 \in [C -> 0..h] /\ free2[charger] = end
        /\ \A c \in C : c # charger => free2[c] = free[c]
    <3>1. end \in 0..h
      BY <1>6, <1>10, <1>11
    <3> QED BY <1>2, <1>5, <2>1, <3>1
  <2>8. ASSUME NEW v \in 1..m, plan2[v] # Unserved
        PROVE  plan2[v].start + Slots(r.depot, plan2, v) <= free2[plan2[v].charger]
    <3>1. CASE v = m
      BY <1>6, <2>4, <2>5, <2>7, <3>1
    <3>2. CASE v # m
      <4>1. /\ v \in 1..(m - 1) /\ v \in V /\ plan2[v] = plan[v] /\ plan[v] # Unserved
            /\ Slots(r.depot, plan2, v) = Slots(r.depot, plan, v)
        BY <1>3, <1>8, <2>5, <2>8, <3>2
      <4>2. PICK y : y = plan[v]
        OBVIOUS
      <4>3. y \in Placements(r.depot, v) /\ y # Unserved
        BY <1>2, <4>1, <4>2
      <4>4. y.charger \in C /\ y.start \in 0..(h - RequiredSlots(r.depot, v, y.charger))
        BY <1>1, <4>1, <4>3, PlaceIs
      <4>5. PICK n \in Nat : n = Slots(r.depot, plan, v)
        BY <1>1, <4>1, <4>2, <4>4, SlotsAre DEF Slots
      <4>6. y.start \in Nat /\ y.start + n <= free[y.charger]
        BY <1>2, <4>1, <4>2, <4>4, <4>5
      <4>7. CASE y.charger = charger
        BY <1>5, <1>6, <2>7, <4>1, <4>2, <4>5, <4>6, <4>7
      <4>8. CASE y.charger # charger
        BY <2>7, <4>1, <4>2, <4>4, <4>5, <4>6, <4>8
      <4> QED BY <4>7, <4>8
    <3> QED BY <3>1, <3>2
  <2>9. ASSUME NEW v \in 1..m, NEW w \in 1..m, v < w, plan2[v] # Unserved, plan2[w] # Unserved,
               plan2[v].charger = plan2[w].charger
        PROVE  plan2[v].start + Slots(r.depot, plan2, v) <= plan2[w].start
    <3>1. v \in 1..(m - 1)
      BY <1>3, <2>9
    <3>2. CASE w = m
      <4>1. plan2[w] = x /\ plan2[v] = plan[v] /\ plan[v] # Unserved /\ plan[v].charger = charger
        BY <2>4, <2>5, <2>9, <3>1, <3>2
      <4>2. plan[v].start + Slots(r.depot, plan, v) <= soonest
        BY <1>2, <1>5, <3>1, <4>1
      <4>3. Slots(r.depot, plan2, v) = Slots(r.depot, plan, v)
        BY <2>5, <3>1
      <4> QED BY <2>4, <4>1, <4>2, <4>3
    <3>3. CASE w # m
      BY <1>2, <1>8, <2>5, <2>9, <3>1, <3>3
    <3> QED BY <3>2, <3>3
  <2>10. st2.plan = plan2 /\ st2.free = free2
    BY <2>2
  <2> QED BY <1>1, <2>3, <2>5, <2>6, <2>7, <2>8, <2>9, <2>10 DEF TookTurns
<1> QED BY <1>6, <1>9, <1>10

LEMMA EveryTurnTaken ==
    ASSUME NEW r \in FleetRequests, r.depot.power # <<>>,
           NEW n \in Nat, n = Len(r.depot.vehicles), NEW N, NaiveTurns(N, r.depot, n)
    PROVE  TookTurns(r.depot, N[n], n)
<1>1. PICK B : B = {m \in 0..n : ~TookTurns(r.depot, N[m], m)}
  OBVIOUS
<1>2. SUFFICES ASSUME B # {} PROVE FALSE
  BY <1>1, <1>2
<1>3. B \in SUBSET Nat
  BY <1>1
<1>4. PICK m \in B : \A k \in B : m <= k
  BY <1>2, <1>3, LeastNumber
<1>5. m \in 0..n /\ ~TookTurns(r.depot, N[m], m)
  BY <1>1
<1>6. CASE m = 0
  <2>1. PICK st : st = NaiveStart(r.depot)
    OBVIOUS
  <2>2. N[0] = st
    BY <1>5, <1>6, <2>1 DEF NaiveTurns
  <2>3. st.plan = <<>> /\ st.free = [c \in Chargers(r.depot) |-> 0]
    BY <2>1 DEF NaiveStart
  <2>4. st.free \in [Chargers(r.depot) -> 0..r.depot.horizon]
    <3>1. 0 \in 0..r.depot.horizon
      BY DepotIs
    <3> QED BY <2>3, <3>1
  <2>5. PICK P : P = UNION {Placements(r.depot, v) : v \in Vehicles(r.depot)}
    OBVIOUS
  <2>6. <<>> \in Seq(P) /\ Len(<<>>) = 0 /\ 1..0 = {}
    OBVIOUS
  <2>7. TookTurns(r.depot, st, 0)
    BY <2>3, <2>4, <2>5, <2>6 DEF TookTurns
  <2> QED BY <1>5, <1>6, <2>2, <2>7
<1>7. CASE m # 0
  <2>1. m \in 1..n /\ m - 1 \in 0..n /\ ~(m <= m - 1)
    BY <1>5, <1>7
  <2>2. TookTurns(r.depot, N[m - 1], m - 1)
    BY <1>1, <1>4, <2>1
  <2>3. N[m] = NaiveTurn(r.depot, N[m - 1], m)
    BY <1>5, <1>7 DEF NaiveTurns
  <2>4. m \in Vehicles(r.depot)
    BY <2>1, DepotIs
  <2> QED BY <1>5, <2>2, <2>3, <2>4, TurnTaken
<1> QED BY <1>6, <1>7

\* Without a feeder, what the vehicles do on their own the solver may choose.
LEMMA NaiveIsFeasible ==
    ASSUME NEW r \in FleetRequests, r.depot.power # <<>>, r.depot.feeder = NoFeeder
    PROVE  NaivePlan(r.depot) \in FeasiblePlans(r.depot)
<1>1. PICK n \in Nat : n = Len(r.depot.vehicles)
  BY DepotIs
<1>10. PICK plan : plan = NaivePlan(r.depot)
  OBVIOUS
<1>2. PICK N : NaiveTurns(N, r.depot, n) /\ plan = N[n].plan
  BY <1>1, <1>10, NaivePlanIs
<1>3. TookTurns(r.depot, N[n], n)
  BY <1>1, <1>2, EveryTurnTaken
<1>4. PICK P : P = UNION {Placements(r.depot, v) : v \in Vehicles(r.depot)}
  OBVIOUS
<1>5. /\ plan \in Seq(P) /\ Len(plan) = n
      /\ \A v \in 1..n : plan[v] \in Placements(r.depot, v)
      /\ \A v, w \in 1..n :
           v < w /\ plan[v] # Unserved /\ plan[w] # Unserved /\ plan[v].charger = plan[w].charger
             => plan[v].start + Slots(r.depot, plan, v) <= plan[w].start
  BY <1>2, <1>3, <1>4 DEF TookTurns
<1>6. Vehicles(r.depot) = 1..n
  BY <1>1, DepotIs
<1>7. plan \in [1..n -> P]
  BY <1>5
<1>8. Placed(r.depot, plan)
  BY <1>4, <1>5, <1>6, <1>7 DEF Placed
<1>9. NoOverlap(r.depot, plan)
  <2>1. ASSUME NEW t \in HourSlots(r.depot), NEW v \in Charging(r.depot, plan, t),
               NEW w \in Charging(r.depot, plan, t), plan[v].charger = plan[w].charger, v < w
        PROVE  FALSE
    <3>1. /\ v \in 1..n /\ w \in 1..n /\ plan[v] # Unserved /\ plan[w] # Unserved
          /\ t < plan[v].start + Slots(r.depot, plan, v) /\ plan[w].start <= t
      BY <1>6 DEF Charging, Served
    <3>2. plan[v].start + Slots(r.depot, plan, v) <= plan[w].start
      BY <1>5, <2>1, <3>1
    <3>3. /\ Slots(r.depot, plan, v) \in Nat /\ plan[v].start \in Nat /\ plan[w].start \in Nat
      BY <1>6, <1>8, <3>1, SlotsOfServed
    <3>4. t \in Int
      BY DEF HourSlots
    <3> QED BY <3>1, <3>2, <3>3, <3>4
  <2>2. \A t : Charging(r.depot, plan, t) \subseteq Nat
    BY <1>6 DEF Charging, Served
  <2>3. ASSUME NEW t \in HourSlots(r.depot), NEW v \in Charging(r.depot, plan, t),
               NEW w \in Charging(r.depot, plan, t), plan[v].charger = plan[w].charger
        PROVE  v = w
    <3>1. v \in Nat /\ w \in Nat
      BY <2>2
    <3>2. ~(v < w)
      BY <2>1, <2>3
    <3>3. ~(w < v)
      BY <2>1, <2>3
    <3> QED BY <3>1, <3>2, <3>3
  <2> QED BY <2>3 DEF NoOverlap
<1> QED BY <1>8, <1>9, <1>10, FeasibleIs

\* What a plan earns is so many penalties, and with those it pays they are as many
\* in any plan.
Priority(depot, v) == IF depot.vehicles[v].emergency THEN 3 ELSE 1
Earned(depot, plan) ==
    SumFunctionOnSet([v \in Vehicles(depot) |-> IF plan[v] # Unserved THEN Priority(depot, v) ELSE 0],
                     Vehicles(depot))
Weight(depot, plan) == SumFunction([v \in Served(depot, plan) |-> Penalty(depot, v)])
Owed(depot) == SumFunctionOnSet([v \in Vehicles(depot) |-> Priority(depot, v)], Vehicles(depot))
CostFrom(downtime, owed, earned, peak) == 10 * (downtime + 1000 * (owed - earned)) + peak

LEMMA CostIs ==
    ASSUME NEW r \in FleetRequests, NEW plan, Placed(r.depot, plan)
    PROVE  /\ Earned(r.depot, plan) \in Int /\ Owed(r.depot) \in Int
           /\ Downtime(r.depot, plan) \in Nat /\ Peak(r.depot, plan) \in Nat
           /\ Weight(r.depot, plan) = 1000 * Earned(r.depot, plan)
           /\ PlanCost(r.depot, plan) \in Int
           /\ PlanCost(r.depot, plan)
                = CostFrom(Downtime(r.depot, plan), Owed(r.depot), Earned(r.depot, plan),
                       Peak(r.depot, plan))
<1>1. PICK V, s, p : /\ V = Vehicles(r.depot)
                     /\ s = [v \in V |-> IF plan[v] # Unserved THEN Slots(r.depot, plan, v) ELSE 0]
                     /\ p = [v \in V |-> IF plan[v] # Unserved THEN 0 ELSE Penalty(r.depot, v)]
  OBVIOUS
<1>2. /\ \A v \in V : s[v] \in Nat /\ p[v] \in Nat
      /\ Downtime(r.depot, plan) = SumFunctionOnSet(s, V)
      /\ PlanCost(r.depot, plan)
           = 10 * (SumFunctionOnSet(s, V) + SumFunctionOnSet(p, V)) + Peak(r.depot, plan)
  BY <1>1, CostAddsUp
<1>3. IsFiniteSet(V)
  BY <1>1, DepotIs
<1>4. PICK all, got, lost, w :
        /\ all = [v \in V |-> Priority(r.depot, v)]
        /\ got = [v \in V |-> IF plan[v] # Unserved THEN Priority(r.depot, v) ELSE 0]
        /\ lost = [v \in V |-> IF plan[v] # Unserved THEN 0 ELSE Priority(r.depot, v)]
        /\ w = [v \in V |-> IF plan[v] # Unserved THEN Penalty(r.depot, v) ELSE 0]
  OBVIOUS
<1>5. \A v \in V : Priority(r.depot, v) \in {1, 3} /\ Penalty(r.depot, v) = 1000 * Priority(r.depot, v)
  BY DEF Priority, Penalty, UnservedPenalty
<1>6. /\ \A v \in V : all[v] \in Nat /\ got[v] \in Nat /\ lost[v] \in Nat /\ w[v] \in Nat
      /\ \A v \in V : all[v] = got[v] + lost[v]
      /\ \A v \in V : p[v] = 1000 * lost[v]
      /\ \A v \in V : w[v] = 1000 * got[v]
  BY <1>1, <1>4, <1>5
<1>7. /\ SumFunctionOnSet(all, V) \in Nat /\ SumFunctionOnSet(got, V) \in Nat
      /\ SumFunctionOnSet(lost, V) \in Nat /\ SumFunctionOnSet(s, V) \in Nat
  BY <1>2, <1>3, <1>6, SumType
<1>8. SumFunctionOnSet(all, V) = SumFunctionOnSet(got, V) + SumFunctionOnSet(lost, V)
  BY <1>3, <1>6, SumPlus
<1>9. /\ SumFunctionOnSet(p, V) = 1000 * SumFunctionOnSet(lost, V)
      /\ SumFunctionOnSet(w, V) = 1000 * SumFunctionOnSet(got, V)
  <2>1. PICK c \in Int : c = 1000
    OBVIOUS
  <2>2. /\ \A v \in V : lost[v] \in Int /\ p[v] = c * lost[v]
        /\ \A v \in V : got[v] \in Int /\ w[v] = c * got[v]
    BY <1>6, <2>1
  <2>3. /\ SumFunctionOnSet(p, V) = c * SumFunctionOnSet(lost, V)
        /\ SumFunctionOnSet(w, V) = c * SumFunctionOnSet(got, V)
    BY <1>3, <2>2, SumTimes
  <2> QED BY <2>1, <2>3
<1>10. Earned(r.depot, plan) = SumFunctionOnSet(got, V) /\ Owed(r.depot) = SumFunctionOnSet(all, V)
  BY <1>1, <1>4, Zenon DEF Earned, Owed
<1>11. Weight(r.depot, plan) = SumFunctionOnSet(w, V)
  <2>1. PICK f, T : /\ T = Served(r.depot, plan)
                    /\ f = [v \in T |-> Penalty(r.depot, v)]
    OBVIOUS
  <2>2. \A v \in V : v \in T <=> plan[v] # Unserved
    BY <1>1, <2>1 DEF Served
  <2>3. T = DOMAIN f /\ T \subseteq V
    BY <1>1, <2>1 DEF Served
  <2>4. \A x \in T : w[x] = f[x] /\ f[x] \in Nat
    BY <1>4, <1>6, <2>1, <2>2, <2>3
  <2>5. \A x \in V \ T : w[x] = 0
    BY <1>4, <2>2
  <2>6. SumFunction(f) = SumFunctionOnSet(w, V)
    BY <1>3, <2>3, <2>4, <2>5, SumPadded
  <2> QED BY <2>1, <2>6, Zenon DEF Weight
<1>12. Peak(r.depot, plan) \in Nat
  BY PeakIsHighest
<1>13. SumFunctionOnSet(lost, V) = Owed(r.depot) - Earned(r.depot, plan)
  BY <1>7, <1>8, <1>10
<1>14. PlanCost(r.depot, plan)
         = 10 * (SumFunctionOnSet(s, V) + 1000 * (Owed(r.depot) - Earned(r.depot, plan)))
             + Peak(r.depot, plan)
  BY <1>2, <1>9, <1>13
<1>15. PlanCost(r.depot, plan) \in Int /\ Earned(r.depot, plan) \in Int /\ Owed(r.depot) \in Int
  BY <1>7, <1>10, <1>12, <1>14
<1> QED BY <1>2, <1>7, <1>9, <1>10, <1>11, <1>12, <1>14, <1>15 DEF CostFrom

-----------------------------------------------------------------------------
\* Of an optimal plan and a feasible one that loses no more than a penalty to downtime
\* and peak, the first serves as many, and is no higher when it is no faster.
LEMMA OptimalServesAsMany ==
    ASSUME NEW r \in FleetRequests, NEW plan \in OptimalPlans(r.depot),
           NEW other \in FeasiblePlans(r.depot),
           10 * Downtime(r.depot, other) + Peak(r.depot, other) < 10 * UnservedPenalty
    PROVE  /\ Earned(r.depot, other) <= Earned(r.depot, plan)
           /\ Earned(r.depot, other) = Earned(r.depot, plan)
                /\ Downtime(r.depot, other) = Downtime(r.depot, plan)
                => Peak(r.depot, plan) <= Peak(r.depot, other)
<1>1. Placed(r.depot, plan) /\ Placed(r.depot, other)
      /\ PlanCost(r.depot, plan) <= PlanCost(r.depot, other)
  BY OptimalIsCheapest, FeasibleIs
<1>2. PICK o, a, b, d, e, p, q :
        /\ o = Owed(r.depot) /\ a = Earned(r.depot, plan) /\ b = Earned(r.depot, other)
        /\ d = Downtime(r.depot, plan) /\ e = Downtime(r.depot, other)
        /\ p = Peak(r.depot, plan) /\ q = Peak(r.depot, other)
  OBVIOUS
<1>8. a \in Int /\ o \in Int /\ d \in Nat /\ p \in Nat /\ PlanCost(r.depot, plan) = CostFrom(d, o, a, p)
  <2>1. Placed(r.depot, plan)
    BY <1>1
  <2>2. /\ Earned(r.depot, plan) \in Int /\ Owed(r.depot) \in Int
        /\ Downtime(r.depot, plan) \in Nat /\ Peak(r.depot, plan) \in Nat
        /\ PlanCost(r.depot, plan)
             = CostFrom(Downtime(r.depot, plan), Owed(r.depot), Earned(r.depot, plan),
                        Peak(r.depot, plan))
    BY <2>1, CostIs
  <2> QED BY <1>2, <2>2, Zenon
<1>9. b \in Int /\ e \in Nat /\ q \in Nat /\ PlanCost(r.depot, other) = CostFrom(e, o, b, q)
  <2>1. Placed(r.depot, other)
    BY <1>1
  <2>2. /\ Earned(r.depot, other) \in Int /\ Owed(r.depot) \in Int
        /\ Downtime(r.depot, other) \in Nat /\ Peak(r.depot, other) \in Nat
        /\ PlanCost(r.depot, other)
             = CostFrom(Downtime(r.depot, other), Owed(r.depot), Earned(r.depot, other),
                        Peak(r.depot, other))
    BY <2>1, CostIs
  <2> QED BY <1>2, <2>2, Zenon
<1>3. PlanCost(r.depot, plan) = CostFrom(d, o, a, p) /\ PlanCost(r.depot, other) = CostFrom(e, o, b, q)
  BY <1>8, <1>9
<1>4. 10 * e + q < 10000
  BY <1>2 DEF UnservedPenalty
<1>5. 10 * (d + 1000 * (o - a)) + p <= 10 * (e + 1000 * (o - b)) + q
  BY <1>1, <1>3 DEF CostFrom
<1>6. b <= a
  BY <1>4, <1>5, <1>8, <1>9
<1>7. b = a /\ e = d => p <= q
  BY <1>5, <1>8, <1>9
<1> QED BY <1>2, <1>6, <1>7

LEMMA OptimalInHand ==
    ASSUME PlannerInv, Answered("fleet"), call.request.status = "OPTIMAL"
    PROVE  \E r \in FleetRequests : call.request = r /\ call.out \in OptimalPlans(r.depot)
<1>1. PICK r \in FleetRequests : \E plan \in FleetPlans(r.depot, r.status) : Made("fleet", r, plan)
  BY FleetInHand
<1>2. PICK plan \in FleetPlans(r.depot, r.status) : Made("fleet", r, plan)
  BY <1>1
<1>3. call.request = r /\ call.out = plan
  BY <1>2 DEF Made
<1> QED BY <1>2, <1>3 DEF FleetPlans

\* JointPlanIsNoWorse holds of every depot in which the penalty dominates.
THEOREM JointPlanIsSound ==
    (\A r \in FleetRequests : PenaltyDominates(r.depot)) => (PlannerSpec => []JointPlanIsNoWorse)
<1> SUFFICES ASSUME \A r \in FleetRequests : PenaltyDominates(r.depot)
             PROVE  PlannerSpec => []JointPlanIsNoWorse
  OBVIOUS
<1>1. PlannerInv => JointPlanIsNoWorse
  <2>1. SUFFICES ASSUME PlannerInv, Answered("fleet"), call.request.status = "OPTIMAL"
                 PROVE  JointPlanIsNoWorse
    BY DEF JointPlanIsNoWorse
  <2>2. PICK r \in FleetRequests : call.request = r /\ call.out \in OptimalPlans(r.depot)
    BY <2>1, OptimalInHand
  <2>3. PICK plan, naive : plan = call.out /\ naive = NaivePlan(r.depot)
    OBVIOUS
  <2>4. plan \in OptimalPlans(r.depot) /\ plan \in FeasiblePlans(r.depot)
    BY <2>2, <2>3 DEF OptimalPlans
  <2>5. ASSUME r.depot.feeder = NoFeeder
        PROVE  /\ Weight(r.depot, naive) <= Weight(r.depot, plan)
               /\ Weight(r.depot, naive) = Weight(r.depot, plan)
                    /\ Downtime(r.depot, naive) = Downtime(r.depot, plan)
                    => Peak(r.depot, plan) <= Peak(r.depot, naive)
    <3>1. /\ r.depot.power # <<>>
          /\ 10 * Downtime(r.depot, naive) + Peak(r.depot, naive) < 10 * UnservedPenalty
      BY <2>3 DEF PenaltyDominates
    <3>2. naive \in FeasiblePlans(r.depot)
      BY <2>3, <2>5, <3>1, NaiveIsFeasible
    <3>3. /\ Earned(r.depot, naive) <= Earned(r.depot, plan)
          /\ Earned(r.depot, naive) = Earned(r.depot, plan)
               /\ Downtime(r.depot, naive) = Downtime(r.depot, plan)
               => Peak(r.depot, plan) <= Peak(r.depot, naive)
      BY <2>4, <3>1, <3>2, OptimalServesAsMany
    <3>4. Placed(r.depot, plan) /\ Placed(r.depot, naive)
      BY <2>4, <3>2, FeasibleIs
    <3>5. PICK a, b : a = Earned(r.depot, plan) /\ b = Earned(r.depot, naive)
      OBVIOUS
    <3>6. /\ a \in Int /\ b \in Int
          /\ Weight(r.depot, plan) = 1000 * a /\ Weight(r.depot, naive) = 1000 * b
      BY <3>4, <3>5, CostIs
    <3>7. (b <= a => 1000 * b <= 1000 * a) /\ (1000 * b = 1000 * a => b = a)
      BY <3>6
    <3> QED BY <3>3, <3>5, <3>6, <3>7
  <2>6. ASSUME NEW e \in Vehicles(r.depot) \ Served(r.depot, plan), NEW v \in Served(r.depot, plan),
               r.depot.vehicles[e].emergency, ~r.depot.vehicles[v].emergency
        PROVE  RequiredSlots(r.depot, e, plan[v].charger) > Slots(r.depot, plan, v)
    <3>1. /\ e \in Vehicles(r.depot) /\ v \in Vehicles(r.depot)
          /\ plan[e] = Unserved /\ plan[v] # Unserved
      BY DEF Served
    <3>2. PICK n \in Nat, m \in Nat :
            n = Slots(r.depot, plan, v) /\ m = RequiredSlots(r.depot, e, plan[v].charger)
      <4>1. Placed(r.depot, plan)
        BY <2>4, FeasibleIs
      <4>2. Slots(r.depot, plan, v) \in Nat /\ plan[v].charger \in Chargers(r.depot)
        BY <3>1, <4>1, SlotsOfServed
      <4>3. RequiredSlots(r.depot, e, plan[v].charger) \in Nat
        BY <3>1, <4>2, SlotsAre
      <4> QED BY <4>2, <4>3
    <3>3. SUFFICES ASSUME m <= n PROVE FALSE
      BY <3>2
    <3>4. PICK other \in FeasiblePlans(r.depot) : PlanCost(r.depot, other) < PlanCost(r.depot, plan)
      BY <2>4, <2>6, <3>1, <3>2, <3>3, PlaceGiven
    <3>5. PlanCost(r.depot, plan) <= PlanCost(r.depot, other)
      BY <2>4, <3>4, OptimalIsCheapest
    <3>6. Placed(r.depot, plan) /\ Placed(r.depot, other)
      BY <2>4, <3>4, FeasibleIs
    <3>7. PlanCost(r.depot, plan) \in Int /\ PlanCost(r.depot, other) \in Int
      BY <3>6, CostIs
    <3> QED BY <3>4, <3>5, <3>7
  <2> QED BY <2>2, <2>3, <2>5, <2>6 DEF JointPlanIsNoWorse, Weight
<1> QED BY <1>1, AnswersAreTheRequests, PTL

=============================================================================
