\* Three requests of two users on two threads, one fault, two seconds.
SPECIFICATION Spec
CONSTANTS
    ann = ann
    bob = bob
    m1 = m1
    m2 = m2
    m3 = m3
    t1 = t1
    t2 = t2
    User = {ann, bob}
    Account <- MCAccount
    LocalUser = ann
    Thread = {t1, t2}
    Model = {m1, m2, m3}
    ServerModel = {m3}
    Protocol <- MCProtocol
    None = None
    Packs <- MCPacks
    Bodies <- MCBodies
    Usages <- MCUsages
    Settings <- MCSettings
    StoreMax = 4
    WarnPercent = 80
    MaxRetries = 2
    MaxRequests = 3
    MaxFaults = 1
    MaxClock = 1
INVARIANTS
    AuditTellsTruth
    AnswersGrounded
    OwnModel
    AskDegrades
    WarningMatchesLimit
SYMMETRY MCSymmetry
CONSTRAINT MCFollowed
CHECK_DEADLOCK FALSE
