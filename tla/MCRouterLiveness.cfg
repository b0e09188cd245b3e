\* One instance; B's socket dies, and B signs in again over an open one; no
\* faults: what must come about whatever the tasks' order.  The system stops when nobody has anything left to do.
SPECIFICATION Spec
CONSTANTS
    Node = {n1}
    Device = {A, B}
    Conn = {a1, b1, b2}
    Msg = {m1}
    Owner <- MCOwner
    Host <- OneHost
    From <- MCFrom
    To <- MCTo
    Revocable = {}
    Fragile = {B}
    MaxDrops = 1
    MaxAgain = 1
    MaxTroubles = 2
    MaxFaults = 0
    NoConn = NoConn
    NoMsg = NoMsg
    A = A
    B = B
    a1 = a1
    b1 = b1
    b2 = b2
    n1 = n1
PROPERTIES
    EventuallySeen
    StrandedConnectionHeals
CHECK_DEADLOCK FALSE
