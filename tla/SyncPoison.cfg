\* One file with a syntax error.
SPECIFICATION FairSpec
CONSTANTS
    Path = {p1}
    Content = {c1, bad, big}
    Broken = {bad}
    Skippable = {big}
    Request = {r1, r2}
    Worker = {w1, w2}
    NoFile = NoFile
    Damaged = Damaged
    Nobody = Nobody
    MaxEdits = 1
    MaxFaults = 0
PROPERTY
    PendingDrains
