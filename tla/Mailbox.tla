------------------------------ MODULE Mailbox ------------------------------
(***************************************************************************)
(* What the message router promises about one-to-one messages, whatever    *)
(* sockets, instances and retries are in between: a message is posted      *)
(* once, its recipient takes it at most once and only after it was posted, *)
(* and a receipt for it exists only after the recipient has taken it.      *)
(***************************************************************************)
CONSTANT Msg

VARIABLES
    posted,      \* messages that have a server id
    taken,       \* messages the recipient has decrypted
    receipted    \* messages recorded as delivered

mailboxVars == <<posted, taken, receipted>>

MailboxInit == posted = {} /\ taken = {} /\ receipted = {}

Post(m) ==
    /\ m \notin posted
    /\ posted' = posted \cup {m}
    /\ UNCHANGED <<taken, receipted>>

Take(m) ==
    /\ m \in posted \ taken
    /\ taken' = taken \cup {m}
    /\ UNCHANGED <<posted, receipted>>

Receipt(m) ==
    /\ m \in taken \ receipted
    /\ receipted' = receipted \cup {m}
    /\ UNCHANGED <<posted, taken>>

MailboxNext == \E m \in Msg : Post(m) \/ Take(m) \/ Receipt(m)

MailboxSpec == MailboxInit /\ [][MailboxNext]_mailboxVars
=============================================================================
