\* Four sign-ins, so that three sockets can be left behind, and five frames.
SPECIFICATION Spec
CONSTANTS
    MaxAuths = 4
    MaxSends = 5
INVARIANTS
    WireInOrder
    NoStraySocket
PROPERTIES
    StaysOut
    QueueDrains
CHECK_DEADLOCK FALSE
