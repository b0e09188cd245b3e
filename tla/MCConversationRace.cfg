\* Two operations of one client overlap, with the labels the client passes;
\* nothing fails.  The first message, and two more at one time.
SPECIFICATION Spec
CONSTANTS
    MaxSkip = 1
    Label <- ClientLabel
    Slot = {1, 2}
    MaxSend = 3
    MaxCrashes = 0
    MaxFaults = 0
INVARIANTS
    FreshMessageKeys
CHECK_DEADLOCK FALSE
