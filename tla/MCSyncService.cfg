\* Safety: two handlers, two indexers, two paths.
SPECIFICATION Spec
CONSTANTS
    Path = {p1, p2}
    Content = {c1, big}
    Broken = {Damaged}
    Skippable = {big}
    Request = {r1, r2}
    Worker = {w1, w2}
    NoFile = NoFile
    Damaged = Damaged
    Nobody = Nobody
    MaxEdits = 3
    MaxFaults = 2
SYMMETRY Symmetry
INVARIANTS
    LedgerBlobsStored
    PendingAgreesWithFiles
    IndexFollowsLedger
    NoResurrection
    IndexerOfLiveProject
    OneLiveRun
PROPERTY
    AcknowledgedWhole
