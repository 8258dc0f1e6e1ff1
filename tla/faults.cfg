SPECIFICATION Spec
CONSTANTS
    Charger = {k1}
    k1 = k1
    Readings <- MCReadings
    Injected <- MCInjected
    MaxDuration = 1
    Heartbeat = 1
    DbPort = {d1}
    d1 = d1
    Window = 1
    MaxFaults = 2
    MaxWire = 1
INVARIANTS
    TypeOK
    ReportsAreDebounced
    HeartbeatHidesNoFault
    WindowMatchesReceipts
PROPERTY
    MaintenanceIsEarned
