\* One instance, one message; two of these: a socket dies, B signs in again over
\* an open one, a query, a client or a publish fails; and B may be revoked.  The system stops when nobody has
\* anything left to do.
SPECIFICATION Spec
CONSTANTS
    Node = {n1}
    Device = {A, B}
    Conn = {a1, b1, b2}
    Msg = {m1}
    Owner <- MCOwner
    Host <- OneHost
    From <- MCFrom
    To <- MCTo
    Revocable = {B}
    Fragile = {A, B}
    MaxDrops = 1
    MaxAgain = 1
    MaxTroubles = 2
    MaxFaults = 1
    NoConn = NoConn
    NoMsg = NoMsg
    A = A
    B = B
    a1 = a1
    b1 = b1
    b2 = b2
    n1 = n1
SYMMETRY MCSymmetry
INVARIANTS
    TypeOK
    DeliveredOnlyAfterDecrypt
    NoDanglingEntry
    NoGap
PROPERTIES
    ImplementsMailbox
CHECK_DEADLOCK FALSE
