\* Accounts: three names, two codes, one project, two requests at a time.  Search:
\* two searches under one of four budgets, beside an ingest and a change of the model.
SPECIFICATION ServiceSpec
CONSTANTS
    ann = ann
    bob = bob
    cid = cid
    A1 = A1
    B1 = B1
    p1 = p1
    r1 = r1
    r2 = r2
    User = {ann, bob, cid}
    Code = {A1, B1}
    Project = {p1}
    Request = {r1, r2}
    Kind <- MCKind
    AdminName = {bob}
    MemberMax = 2
    None = None
    Start <- MCStart
    MaxRequests = 3
    MaxCrashes = 1
    Corpus <- MCCorpus
    Budget <- MCBudget
    Limits <- MCLimits
    GapLimits <- MCGapLimits
    Queries <- MCQueries
    Files <- MCFiles
    Unresolved = {noName}
    NoName = noName
    Caps = {8, 19, 26, 60}
    Models = {m1, m2}
    MaxSearches = 2
    MaxIngests = 1
    MaxSwitches = 1
    CacheSize = 1
SYMMETRY MCSymmetry
CONSTRAINT MCFollowed
INVARIANTS
    InvitesSpent
    AdminRemains
    BanEndsSessions
    ProjectsOwned
    AccountsMatch
    Budgets
    NothingUnsaid
    CacheOfModel
    EveryGapServed
CHECK_DEADLOCK FALSE
