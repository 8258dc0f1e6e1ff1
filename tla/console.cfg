SPECIFICATION MCSpec
CONSTANTS
    Parts = {"accounts", "admins", "claims", "pairing", "charging", "retention"}
    Email = {e1, e2}
    Subject = {s1}
    SignInThread = {i1, i2}
    CodeLife = 1
    KeyLife = 3
    Cooldown = 1
    MaxRegs = 2
    MaxCodes = 2
    MaxAccounts = 2
    EndTime = 3
    Driver = u1
    User = {adm, u1}
    Seeded = {adm}
    Unit = {n1}
    Method = {upi, cash}
    DeskThread = {t1, t2}
    MaxRequests = 2
    MaxVehicles = 3
    MaxHomes = 1
    MaxSessions = 2
    MaxDisplays = 3
    MaxEdits = 1
SYMMETRY MCSymmetry
INVARIANTS
    AccountsAreProven
    OneAccountEach
    DecisionsStand
    ClaimsAddUp
    PairedMeansConfirmed
    OneSessionPerHome
PROPERTIES
    PaymentsStick
    ErasureIsExact
