\* Nothing fails; the user registers one device on another machine.
SPECIFICATION Spec
CONSTANTS
    User = {ann, bob}
    Admin = ann
    NoUser = nobody
    Flow = {f1, f2}
    MaxFlows = 3
    MaxKeys = 1
    MaxElsewhere = 1
    MaxFaults = 0
    MaxBoots = 0
INVARIANTS
    DeviceIsBound
CHECK_DEADLOCK FALSE
