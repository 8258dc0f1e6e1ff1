----------------------------- MODULE MCServices -------------------------------
(***************************************************************************)
(* Small instances of what runs beside the requests: the planners with     *)
(* requests on both sides of every boundary, the three stores behind the   *)
(* advice, and the simulators with the feeds from and to them.  The parts  *)
(* share no state, so one behaviour runs one part.                         *)
(***************************************************************************)
EXTENDS Planner, WeatherCache, PriorityJumps, DemandModel,
        StationSim, SwapKiosk, FeederGrid, ScenarioFeed, TwinFeed

VARIABLE part           \* which part a behaviour runs

serviceVars ==
    <<call, weatherVars, jumpVars, demandVars, stationVars, kioskVars, gridVars, feedVars,
      twinVars, part>>

MCOrder == <<"c0", "c1">>
MCChargers == {"c0", "c1"}
MCPlugs == {"charger", "kiosk"}
MCPlugPower == [charger |-> 7, kiosk |-> 3]

MCPowers == {0, 150, 200, 400}

\* Ceilings that bind at once, after a minute or two, or not at all; targets that
\* need full power to the end, less, or more than there is.
MCChargeRequests ==
    [target : {400, 800, 1150, 1600}, horizon : {4}, ceiling : {270, 290, 305, 450},
     status : {"OPTIMAL"}]
    \cup [target : {800}, horizon : {3}, ceiling : {270, 288}, status : {"FEASIBLE"}]

Car(energy, emergency) == [energy |-> energy, emergency |-> emergency]

\* Ratings that truncate and ones that do not; feeders that carry one charger or both.
MCFleetRequests ==
    LET depots ==
          [vehicles : {<<Car(60, FALSE), Car(40, FALSE), Car(60, TRUE)>>,
                       <<Car(90, TRUE), Car(60, FALSE), Car(60, FALSE)>>,
                       <<Car(60, FALSE), Car(120, FALSE)>>},
           power : {<<33, 33>>, <<60, 30>>}, horizon : {3}, feeder : {NoFeeder, 35, 66, 90}]
    IN [depot : depots, status : {"OPTIMAL"}]
       \cup [depot : {d \in depots : Len(d.vehicles) = 2}, status : {"FEASIBLE"}]

Ev(id, soc, capacity, limit) ==
    [id |-> id, ready |-> TRUE, soc |-> soc, capacity |-> capacity, limit |-> limit]

MCFleets ==
    {<<Ev(1, 80, 40, 3333), Ev(2, 80, 60, 7400), Ev(3, 31, 40, 3304)>>,
     <<Ev(1, 30, 40, 3333), Ev(2, 50, 40, 3336), [Ev(3, 90, 40, 9000) EXCEPT !.ready = FALSE]>>,
     <<Ev(1, 31, 20, 500), Ev(2, 33, 20, 137), Ev(3, 29, 60, 9000)>>,
     <<>>}

MCDispatchRequests ==
    [fleet : MCFleets, deficit : {-100, 0, 120, 3334, 6666, 100000}, hours : {0, 1, 2}]

MCBackupRequests ==
    [load : {0, 100, 3338, 6671, 20000}, fleet : MCFleets,
     far : {<<0, 1, 2>>, <<1, -1, 3>>, <<4, 4, 4>>}, radius : {0, 3}, hours : {1, 2}]

MCGridRequests ==
    [capacity : {0, 3300, 9900, 10000, 33000}, power : {0, 3300, 7400}, share : {50, 100},
     margin : {90, 100}]

MCSolarRequests ==
    LET sites == [solar : BOOLEAN, peak : {0, 3, 10}, load : {0, 7, 10}]
    IN [now : {0, 5, 11, 17, 23}, duration : {1, 3}, site : sites, lookahead : {1, 6, 24}]

Candidate(kind, connector, verified, safety) ==
    [kind |-> kind, connector |-> connector, status |-> "available", distance |-> 2, wait |-> 10,
     cost |-> 100, congestion |-> 500, verified |-> verified, safety |-> safety]

MCRankRequests ==
    LET near(v, s) == Candidate("charge", "CCS2", v, s)
        far(v) == [near(v, 1000) EXCEPT !.distance = 9]
        lists == {<<near(v, s), near(w, t), far(x),
                    Candidate("swap", SwapConnector, 0, 1000), [near(0, 1000) EXCEPT !.status = "offline"],
                    Candidate("charge", "Type 2", 0, 1000)>> :
                    v, w, x \in {NeverVerified, 2, 1200}, s, t \in {0, 400, 1000}}
    IN [vehicle : {[connector |-> "CCS2", pluggable |-> TRUE]}, candidates : lists,
        hour : {4, 5, 19, 20}, solo : BOOLEAN]
       \cup [vehicle : {[connector |-> SwapConnector, pluggable |-> FALSE],
                        [connector |-> "CCS2", pluggable |-> FALSE]},
             candidates : {<<near(0, 0), Candidate("swap", SwapConnector, 5, 1000)>>},
             hour : {12, 23}, solo : BOOLEAN]

MCStressRequests ==
    [capacity : {0, 9996, 100000}, baseline : {0, 1, 3}, power : {3332, 7400}, share : {30, 100},
     multipliers : {<<100, 150, 400>>, <<400, 100>>, <<>>}, station : {3300, 100000},
     total : {0, 4}, maintenance : {0, 1, 4}]

MCAllEvRequests ==
    [capacity : {10000, 1000000}, count : {0, 1, 3}, power : {7400}, share : {30, 100},
     adoption : {2, 100}, station : {100000}]

MCAdviceRequests ==
    LET Feeder(id, over, loading) == [id |-> id, overloaded |-> over, loading |-> loading]
    IN [weather : [heat : BOOLEAN, rain : BOOLEAN, fog : BOOLEAN],
        feeders : {{}, {Feeder(1, FALSE, 59), Feeder(2, FALSE, 61)},
                   {Feeder(1, FALSE, 59), Feeder(2, FALSE, 62)},
                   {Feeder(1, TRUE, 99), Feeder(2, FALSE, 0)}},
        hour : {17, 18, 21, 22}]

\* The theorems on the dispatch, the backup plan and the fleet plan are about requests
\* like these.
ASSUME MCRequestsAssumption ==
    /\ \A r \in DispatchRequests \cup BackupRequests : ListedOnce(r.fleet)
    /\ \A r \in FleetRequests : PenaltyDominates(r.depot)

MCInit ==
    /\ PlannerInit /\ WeatherInit /\ JumpInit /\ DemandInit
    /\ StationInit /\ KioskInit /\ GridInit /\ FeedInit /\ TwinInit
    /\ part \in {"plans", "weather", "jumps", "demand",
                "station", "kiosk", "grid", "feed", "twin"}

\* One part runs alone; what it leaves alone is the others' state.
Plans ==
    /\ part = "plans" /\ PlannerNext
    /\ UNCHANGED <<weatherVars, jumpVars, demandVars, stationVars, kioskVars, gridVars,
                   feedVars, twinVars>>

Weather ==
    /\ part = "weather" /\ WeatherNext
    /\ UNCHANGED <<call, jumpVars, demandVars, stationVars, kioskVars, gridVars,
                   feedVars, twinVars>>

Jumps ==
    /\ part = "jumps" /\ JumpNext
    /\ UNCHANGED <<call, weatherVars, demandVars, stationVars, kioskVars, gridVars,
                   feedVars, twinVars>>

Demand ==
    /\ part = "demand" /\ DemandNext
    /\ UNCHANGED <<call, weatherVars, jumpVars, stationVars, kioskVars, gridVars,
                   feedVars, twinVars>>

Stations ==
    /\ part = "station" /\ StationNext
    /\ UNCHANGED <<call, weatherVars, jumpVars, demandVars, kioskVars, gridVars,
                   feedVars, twinVars>>

Kiosks ==
    /\ part = "kiosk" /\ KioskNext
    /\ UNCHANGED <<call, weatherVars, jumpVars, demandVars, stationVars, gridVars,
                   feedVars, twinVars>>

Grids ==
    /\ part = "grid" /\ GridNext
    /\ UNCHANGED <<call, weatherVars, jumpVars, demandVars, stationVars, kioskVars,
                   feedVars, twinVars>>

Feeds ==
    /\ part = "feed" /\ FeedNext
    /\ UNCHANGED <<call, weatherVars, jumpVars, demandVars, stationVars, kioskVars,
                   gridVars, twinVars>>

Twins ==
    /\ part = "twin" /\ TwinNext
    /\ UNCHANGED <<call, weatherVars, jumpVars, demandVars, stationVars, kioskVars,
                   gridVars, feedVars>>

MCNext ==
    /\ Plans \/ Weather \/ Jumps \/ Demand \/ Stations \/ Kiosks \/ Grids \/ Feeds \/ Twins
    /\ UNCHANGED part

MCSpec == MCInit /\ [][MCNext]_serviceVars

=============================================================================
