\* A synchronous upload beside a worker that fails.
SPECIFICATION Spec
CONSTANTS
    Path = {p1, p2}
    Content = {c1, big}
    Broken = {}
    Skippable = {big}
    Request = {r1, r2}
    Worker = {w1, w2}
    NoFile = NoFile
    Damaged = Damaged
    Nobody = Nobody
    MaxEdits = 2
    MaxFaults = 2
INVARIANT
    NoStaleFailure
