\* An administrator and one more user, two handlers at a time and three in all;
\* one change from another machine and one fault.
SPECIFICATION Spec
CONSTANTS
    User = {ann, bob}
    Admin = ann
    NoUser = nobody
    Flow = {f1, f2}
    MaxFlows = 3
    MaxKeys = 2
    MaxElsewhere = 1
    MaxFaults = 1
    MaxBoots = 1
INVARIANTS
    OneIdentity
    QuietWhenOut
    BoundOnOneMachine
PROPERTIES
    LoadingEnds
\* Once the handlers are used up nothing may be left to do.
CHECK_DEADLOCK FALSE
