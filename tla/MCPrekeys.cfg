\* Two devices, two replenishments and two fetches at a time, two batches: the
\* cap has room for one of them.
SPECIFICATION Spec
CONSTANTS
    Device = {d1, d2}
    Key = {k1, k2, k3, k4}
    Job = {j1, j2}
    Requester = {p1, p2}
    Threshold = 2
    Batch = 2
    Cap = 3
    NoDevice = nodevice
SYMMETRY Interchangeable
INVARIANTS
    HandedOnce
    KeyKept
    CapHolds
\* Once the keys are used up and the devices revoked nothing is left to do.
CHECK_DEADLOCK FALSE
