\* Two users, two handlers at a time.
SPECIFICATION ConsoleSpec
CONSTANTS
    User = {u1, u2}
    NoUser = nobody
    Device = {d1, d2, d3}
    Owner <- MCOwner
    u1 = u1
    u2 = u2
    d1 = d1
    d2 = d2
    d3 = d3
    MaxJobs = 2
    MaxActs = 4
    MaxElsewhere = 1
    MaxFaults = 1
INVARIANTS
    SettledIsTrue
    BreaksOnlyCrossed
PROPERTIES
    SpinnerStops
CHECK_DEADLOCK FALSE
