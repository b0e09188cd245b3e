\* Two operations in each client at a time, one crash and one failing call of
\* the vault.  The system stops when the users have nothing more to write.
SPECIFICATION Spec
CONSTANTS
    MaxSkip = 1
    Label <- SharedLabel
    Slot = {s1, s2}
    MaxSend = 2
    MaxCrashes = 1
    MaxFaults = 1
SYMMETRY Interchangeable
INVARIANTS
    OpenedIsKept
    FreshUnlessStrayed
PROPERTIES
    ImplementsRatchetPair
CHECK_DEADLOCK FALSE
