SPECIFICATION MCSpec
CONSTANTS
    PowerLevels <- MCPowers
    ChargeRequests <- MCChargeRequests
    FleetRequests <- MCFleetRequests
    DispatchRequests <- MCDispatchRequests
    BackupRequests <- MCBackupRequests
    GridRequests <- MCGridRequests
    SolarRequests <- MCSolarRequests
    RankRequests <- MCRankRequests
    StressRequests <- MCStressRequests
    AllEvRequests <- MCAllEvRequests
    AdviceRequests <- MCAdviceRequests
    Task = {t1, t2}
    Ttl = 2
    MaxTime = 5
    Thread = {i1, i2}
    Cap = 2
    Window = 2
    MaxNow = 5
    MaxGrants = 4
    Loop = loop
    Admin = {a1}
    Cron = cron
    MaxLogs = 2
    MaxRuns = 3
    Charger <- MCChargers
    Order <- MCOrder
    Tick = 3
    Stays = {3, 4}
    Outages = {8}
    MaxQueue = 2
    MaxChain = 3
    Batteries = 3
    MaxLine = 2
    Plug <- MCPlugs
    Power <- MCPlugPower
    Stress = 17
    MaxWire = 2
    Preset = {s1, s2}
    NoScenario = NoScenario
    Activator = {b1, b2}
    Simulator = {grid, traffic}
    MaxFeed = 2
    Viewer = {viewer}
    Relay = relay
    Browser = {browser}
    MaxMessages = 3
    MaxCasts = 2
INVARIANTS
    CeilingHoldsToTheLastMinute
    OptimalBeatsConstantCurrent
    FeederIsExceededByTruncationOnly
    JointPlanIsNoWorse
    DispatchKeepsReserves
    CoverageIsHonest
    SolarWindowIsCheapest
    RankingTrustsTheVerified
    CapacityReportsAddUp
    WorstFactorDecides
    FreshMeansFresh
    JumpsAreCapped
    ServedModelIsTheNewest
    PortsAddUp
    TickersAreTheChain
    InventoryAddsUp
    LoadFollowsPlugs
    ScenarioReachesSims
    FeedFollowsTheStore
