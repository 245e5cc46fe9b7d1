\* Four windows and two consumers: more than the queue holds once both consumers
\* have failed.
SPECIFICATION MCSpec
CONSTANTS
    Chunks = 7
    d1 = d1
    d2 = d2
    Digest <- MCDigest
    Want <- MCWant
    Consumer = {k1, k2}
    Window = 2
    QueueWindows = 1
    MaxSubmit = 7
    MaxFaults = 2
    NoDigest = NoDigest
INVARIANTS
    NoDuplicateRows
    PaidOnce
PROPERTIES
    Implements
    Ends
