\* Gaps of up to two messages, four messages from each side: several turns of
\* the DH ratchet, with messages inside, at and beyond the MAX_SKIP limit.
SPECIFICATION Spec
CONSTANTS
    MaxSkip = 2
    Label <- SharedLabel
    MaxSend = 4
INVARIANTS
    Decryptable
    OpenedOnce
    FreshMessageKeys
    ForwardSecrecy
    BufferIsTheGap
PROPERTIES
    EventuallyOpened
