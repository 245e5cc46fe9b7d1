\* Liveness: contents the parser has no complaint about.
SPECIFICATION FairSpec
CONSTANTS
    Path = {p1}
    Content = {c1, big}
    Broken = {}
    Skippable = {big}
    Request = {r1, r2}
    Worker = {w1, w2}
    NoFile = NoFile
    Damaged = Damaged
    Nobody = Nobody
    MaxEdits = 3
    MaxFaults = 1
PROPERTIES
    PendingDrains
    DeletionEnds
