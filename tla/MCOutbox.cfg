\* One message in each direction, three handlers at a time, two openings, one
\* call that fails and one restart or sign-out.
SPECIFICATION Spec
CONSTANTS
    Msg = {m1}
    In = {i1}
    Contact = {ann, bob}
    NoContact = nobody
    MaxJobs = 3
    MaxOpens = 2
    MaxFaults = 1
    MaxBoots = 1
INVARIANTS
    StoredIsKept
    OwnShownOnce
    NothingUnseen
    EventFindsRow
CHECK_DEADLOCK FALSE
