\* A status request beside the deletion of its project.
SPECIFICATION Spec
CONSTANTS
    Path = {p1}
    Content = {c1, big}
    Broken = {}
    Skippable = {big}
    Request = {r1, r2}
    Worker = {w1, w2}
    NoFile = NoFile
    Damaged = Damaged
    Nobody = Nobody
    MaxEdits = 2
    MaxFaults = 0
INVARIANT
    NoRevivedDirectory
