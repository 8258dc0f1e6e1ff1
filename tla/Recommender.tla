----------------------------- MODULE Recommender ------------------------------
(***************************************************************************)
(* What a driver is advised: the ranking of stations and swap points       *)
(* (ml/recommendation.py, ml/safety_score.py) and whether now is a good    *)
(* time to charge (services/charging_advisor.py).  Scores are in           *)
(* thousandths; a distance stands for the haversine of two positions.      *)
(***************************************************************************)
EXTENDS Integers, Sequences, SequencesExt, Orders

SwapConnector == "swap-cassette"
NeverVerified == -1

-----------------------------------------------------------------------------
\* Safety.

IsNightHour(hour) == hour >= 20 \/ hour < 5

Clip(x, high) == Max({0, Min({high, x})})

\* Lighting and hour count; a week with fifty reports of footfall is a full one.
SafetyScore(lighting, footfall, hour) ==
    Clip((5 * Clip(lighting, 100) + 10 * Clip(footfall, 50))
           - (IF IsNightHour(hour) THEN 300 ELSE 0),
         1000)

SafetyPenalty(safety, hour, solo) ==
    IF IsNightHour(hour) /\ solo THEN 8 * (1000 - safety) ELSE 0

-----------------------------------------------------------------------------
\* Ranking.  A candidate: [kind, connector, status, distance (km), wait (min),
\* cost (rupees), congestion (permille), verified (hours ago), safety (permille)].

IsCompatible(vehicle, c) ==
    IF c.kind = "swap" THEN vehicle.connector = SwapConnector
    ELSE vehicle.pluggable /\ vehicle.connector = c.connector

\* A wrong StalenessHours: never verified counts as just verified.
StalenessUnknown(c) == IF c.verified = NeverVerified THEN 0 ELSE Max({0, c.verified})

StalenessHours(c) == IF c.verified = NeverVerified THEN 999 ELSE Max({0, c.verified})

IsScored(vehicle, c) == IsCompatible(vehicle, c) /\ c.status # "offline"

Score(c, hour, solo) ==
    1000 * c.distance + 500 * c.wait + 100 * c.cost + 5 * c.congestion
      + 3000 * StalenessHours(c) + SafetyPenalty(c.safety, hour, solo)

\* The indices of the ranked candidates, the best first, in the order of the list
\* among equals.
RankCandidates(vehicle, candidates, hour, solo) ==
    LET S(i) == Score(candidates[i], hour, solo)
        scored == {i \in DOMAIN candidates : IsScored(vehicle, candidates[i])}
    IN InOrder(scored, {p \in scored \X scored :
                          \/ S(p[1]) < S(p[2])
                          \/ S(p[1]) = S(p[2]) /\ p[1] < p[2]})

-----------------------------------------------------------------------------
\* The charging advisory.  Weather: [heat, rain, fog]; feeders: a set of
\* [id, overloaded, loading], what the twin engine answered with.

LevelOrder == [good |-> 2, fair |-> 1, poor |-> 0]
PeakHours == 18..21

\* A wrong Downgrade: the last factor wins, whatever the earlier ones said.
DowngradeAlways(current, new) == new

Downgrade(current, new) == IF LevelOrder[new] < LevelOrder[current] THEN new ELSE current

\* The feeders' average loading, in percent, is over sixty.
Strained(feeders) == SumFunction([f \in feeders |-> f.loading]) > 60 * Cardinality(feeders)

WeatherFactor(weather, level) ==
    IF weather.heat THEN Downgrade(level, "poor")
    ELSE IF weather.rain \/ weather.fog THEN Downgrade(level, "fair")
    ELSE level

GridFactor(feeders, level) ==
    IF feeders = {} THEN level
    ELSE IF \E f \in feeders : f.overloaded THEN Downgrade(level, "poor")
    ELSE IF Strained(feeders) THEN Downgrade(level, "fair")
    ELSE level

TariffFactor(hour, level) ==
    IF hour \in PeakHours THEN Downgrade(level, "fair") ELSE level

Advisory(weather, feeders, hour) ==
    TariffFactor(hour, GridFactor(feeders, WeatherFactor(weather, "good")))

=============================================================================
