SPECIFICATION FairSpec
CONSTANTS
    small = small
    big = big
    Absent = Absent
    Unread = Unread
    Nobody = Nobody
    NoScope = NoScope
    NoWorker = NoWorker
    Unlocked = Unlocked
    Globstar = Globstar
    Content <- MCContent
    Refused <- MCRefused
    Builtin <- MCBuiltin
    DefaultAllowlist <- MCDefaultAllowlist
    Path <- MCPath
    FirstFiles <- MCFirstFiles
    FirstRules <- NoRules
    RuleSets <- MCRuleSets
    SurveyFiles <- MCSurveyFiles
    SurveyRules <- MCSurveyRules
    Process = {c1, c2}
    Request = {1, 2}
    Worker = {3, 4}
    Scope = "deep"
    LookthroughDepth = 2
    InFlight = 1
    MaxEdits = 1
    MaxCalls = 2
    MaxFaults = 1
CHECK_DEADLOCK FALSE
INVARIANTS
    WalksAgree
    RescanReadsDisk
    ScannedIsSearched
    SearchedIsIndexed
PROPERTY
    CallEnds
