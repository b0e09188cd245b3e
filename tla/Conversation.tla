---------------------------- MODULE Conversation ----------------------------
(***************************************************************************)
(* One conversation as the two desktop clients run it.  The ratchet        *)
(* session is a row of the vault; sending and receiving each read the row, *)
(* work on a copy and write the copy back, with awaits in between, so that *)
(* other operations, a failing vault or the end of the process can come    *)
(* there.  Incoming messages are queued one behind the other; what the     *)
(* user sends is not queued behind anything.                               *)
(*                                                                         *)
(* A message that arrives and cannot be decrypted leaves no trace, so no   *)
(* step models it; it stays on the server and comes again.  What the       *)
(* desktop client really passes makes that every message: ClientLabel, and *)
(* a handshake whose ends disagree (X3dh).  Both are parameters here, so   *)
(* that the steps around the vault can be judged by themselves: Label, and *)
(* one secret per ephemeral key, as x3dh_sender and x3dh_receiver have it. *)
(*                                                                         *)
(* An operation carries what it read; what it computes from that is worked *)
(* out when it is saved, and a random ratchet key gets its name then.      *)
(* Alice is the user whose first message opens the conversation.           *)
(***************************************************************************)
EXTENDS Ratchet, FiniteSetsExt

CONSTANTS
    Label,       \* Label[p]: the associated data p passes
    Slot,        \* operations a client may have under way at one time
    MaxSend,     \* bound: messages each party encrypts
    MaxCrashes,  \* bound: times a client's process ends
    MaxFaults    \* bound: vault calls that fail

Alice == "alice"
Bob   == "bob"
Party == {Alice, Bob}
Peer(p) == IF p = Alice THEN Bob ELSE Alice

\* The id of the other user, at both ends: what sendMessage binds a message to
\* is not what processIncomingMessage expects of it.
ClientLabel == [p \in Party |-> Peer(p)]

ASSUME ConversationAssumption ==
    /\ IsFiniteSet(Slot)
    /\ MaxSend \in Nat /\ MaxCrashes \in Nat /\ MaxFaults \in Nat

VARIABLES
    row,       \* row[p]: p's ratchet_sessions row for the conversation
    ops,       \* ops[p][s]: the operation in slot s of p's client
    issued,    \* issued[p]: the messages p encrypted, in order
    sent,      \* sent[p]: which of them went to the server
    stored,    \* stored[p]: the peer's messages in p's messages table
    opened,    \* opened[p][i]: times p's peer kept a decryption of issued[p][i]
    torn,      \* torn[p]: the peer's messages decrypted and lost before the store
    strayed,   \* a stored session was overwritten unread, or used unsaved
    crashes, faults

vars == <<row, ops, issued, sent, stored, opened, torn, strayed, crashes, faults>>

NoSession == [self |-> NoKey]
NoOp == [step |-> "none"]

Init ==
    /\ row = [p \in Party |-> NoSession]
    /\ ops = [p \in Party |-> [s \in Slot |-> NoOp]]
    /\ issued = [p \in Party |-> <<>>]
    /\ sent = [p \in Party |-> {}]
    /\ stored = [p \in Party |-> {}]
    /\ opened = [p \in Party |-> [i \in 1 .. MaxSend |-> 0]]
    /\ torn = [p \in Party |-> {}]
    /\ strayed = FALSE
    /\ crashes = 0 /\ faults = 0

-----------------------------------------------------------------------------

Steps(p, step) == { s \in Slot : ops[p][s].step = step }
Fails == faults < MaxFaults /\ faults' = faults + 1

\* getRatchetSession(..).catch(() => null): the row, or nothing on a failure.
ReadRow(p) == {row[p]} \cup (IF faults < MaxFaults THEN {NoSession} ELSE {})
Noted(p, read) == faults' = IF read = row[p] THEN faults ELSE faults + 1

\* A ratchet key that nothing p has kept or sent is made with.
FreshKey(p) ==
    LET kept == {row[p]} \cup { ops[p][s].read : s \in Steps(p, "save") \cup Steps(p, "keep") }
        used == { s.self.no : s \in kept } \cup { issued[p][i].header.dh.no : i \in DOMAIN issued[p] }
    IN Key(p, Max(used) + 1)

\* A new session for the contact: alice_x3dh and ratchet_init_sender.
StartedSession(p, fresh) == InitAsSender(X3dhSecret(fresh), SignedPreKey(Peer(p)), fresh)

\* The session a first message brings: bob_x3dh and ratchet_init_receiver.
AnsweringSession(p, first) == InitAsReceiver(X3dhSecret(first), SignedPreKey(p))

\* The session an operation works on, given what it read.
ToSend(p, read) == IF read = NoSession THEN StartedSession(p, FreshKey(p)) ELSE read
ToOpen(p, read, m) == IF read = NoSession THEN AnsweringSession(p, m.first) ELSE read

MayStart(p, s) ==
    /\ ops[p][s] = NoOp
    /\ Len(issued[p]) + Cardinality(Steps(p, "save")) < MaxSend

\* sendMessage, up to the encryption: the stored session, or a new one whose
\* ephemeral key will go with the message.
StartText(p, s) ==
    /\ MayStart(p, s)
    /\ \E read \in ReadRow(p) :
         /\ CanEncrypt(ToSend(p, read))
         /\ ops' = [ops EXCEPT ![p][s] = [step |-> "save", kind |-> "text", read |-> read]]
         /\ Noted(p, read)
    /\ UNCHANGED <<row, issued, sent, stored, opened, torn, strayed, crashes>>

\* sendEvent (an edit, a deletion, a reaction): the stored session or nothing.
StartEvent(p, s) ==
    /\ MayStart(p, s)
    /\ row[p] # NoSession /\ CanEncrypt(row[p])
    /\ ops' = [ops EXCEPT ![p][s] = [step |-> "save", kind |-> "event", read |-> row[p]]]
    /\ UNCHANGED <<row, issued, sent, stored, opened, torn, strayed, crashes, faults>>

\* What goes to the server: the ephemeral key, the header, the ciphertext.
Message(p, op) ==
    LET e == Encrypted(ToSend(p, op.read), Label[p], <<p, Len(issued[p]) + 1>>)
    IN [first |-> IF op.read = NoSession THEN FreshKey(p) ELSE NoKey,
        header |-> e.header, ct |-> e.ct]

\* The message is made and about to be sent.
Issued(p, s) ==
    LET m == Message(p, ops[p][s]) IN
    /\ issued' = [issued EXCEPT ![p] = Append(@, m)]
    /\ ops' = [ops EXCEPT ![p][s] = [step |-> "transmit", msg |-> m]]

\* A faulty send that transmits before the session is saved.
SendUnsaved(p, s) ==
    /\ ops[p][s].step = "save" /\ Issued(p, s)
    /\ UNCHANGED <<row, faults, sent, stored, opened, torn, strayed, crashes>>

\* The row is not the one the copy was made from; or Bob too has opened the
\* conversation.
Clobbers(p, op) ==
    \/ op.read # row[p]
    \/ op.step = "save" /\ op.read = NoSession /\ p = Bob

\* A faulty send that saves the session as it was read.
SaveUnadvanced(p, s) ==
    LET op == ops[p][s] IN
    /\ op.step = "save" /\ Issued(p, s)
    /\ row' = [row EXCEPT ![p] = ToSend(p, op.read)]
    /\ strayed' = (strayed \/ Clobbers(p, op))
    /\ UNCHANGED <<faults, sent, stored, opened, torn, crashes>>

\* ratchet_encrypt on the copy, and saveRatchetSession: a failure ends an
\* event, while sendMessage logs it and goes on to send.
SaveSent(p, s) ==
    LET op == ops[p][s] IN
    /\ op.step = "save"
    /\ \/ /\ row' = [row EXCEPT ![p] = Encrypt(ToSend(p, op.read))]
          /\ strayed' = (strayed \/ Clobbers(p, op))
          /\ Issued(p, s)
          /\ UNCHANGED faults
       \/ /\ op.kind = "text" /\ Fails
          /\ strayed' = TRUE
          /\ Issued(p, s)
          /\ UNCHANGED row
       \/ /\ op.kind = "event" /\ Fails
          /\ ops' = [ops EXCEPT ![p][s] = NoOp]
          /\ UNCHANGED <<row, strayed, issued>>
    /\ UNCHANGED <<sent, stored, opened, torn, crashes>>

\* saveMessage, whose failure is a toast, and MESSAGE_SEND.
Transmit(p, s) ==
    /\ ops[p][s].step = "transmit"
    /\ sent' = [sent EXCEPT ![p] = @ \cup {ops[p][s].msg}]
    /\ ops' = [ops EXCEPT ![p][s] = NoOp]
    /\ UNCHANGED <<row, issued, stored, opened, torn, strayed, crashes, faults>>

-----------------------------------------------------------------------------

\* The next step of the conversation's queue: a message of the peer's, new or
\* again, with the stored session or, if it brings an ephemeral key, a new one.
DecryptNext(p, s, m) ==
    /\ ops[p][s] = NoOp /\ Steps(p, "keep") = {}
    /\ m \in sent[Peer(p)]
    /\ \E read \in ReadRow(p) :
         /\ read # NoSession \/ m.first # NoKey
         /\ Decrypts(ToOpen(p, read, m), m, Label[p], FreshKey(p))
         /\ ops' = [ops EXCEPT ![p][s] = [step |-> "keep", msg |-> m, read |-> read]]
         /\ Noted(p, read)
    /\ UNCHANGED <<row, issued, sent, stored, opened, torn, strayed, crashes>>

\* The session as it is after the decryption, and the message counted.
Keeps(p, op) ==
    /\ row' = [row EXCEPT ![p] = Decrypted(ToOpen(p, op.read, op.msg), op.msg.header, FreshKey(p))]
    /\ strayed' = (strayed \/ Clobbers(p, op))
    /\ opened' = [opened EXCEPT ![Peer(p)][op.msg.ct.text[2]] = @ + 1]

\* A faulty receive that saves the session and forgets the message.
ReceiveForgetting(p, s) ==
    /\ ops[p][s].step = "keep" /\ Keeps(p, ops[p][s])
    /\ ops' = [ops EXCEPT ![p][s] = NoOp]
    /\ UNCHANGED <<faults, issued, sent, stored, torn, crashes>>

\* saveRatchetSession; on a failure the message is dropped and comes again.
SaveReceived(p, s) ==
    LET op == ops[p][s] IN
    /\ op.step = "keep"
    /\ \/ /\ Keeps(p, op)
          /\ ops' = [ops EXCEPT ![p][s] = [step |-> "store", msg |-> op.msg]]
          /\ UNCHANGED faults
       \/ /\ Fails
          /\ ops' = [ops EXCEPT ![p][s] = NoOp]
          /\ UNCHANGED <<row, strayed, opened>>
    /\ UNCHANGED <<issued, sent, stored, torn, crashes>>

\* saveMessage (or saveMessageEvent) and MESSAGE_ACK; on a failure nothing is
\* acknowledged.  The queue does not wait for this.
StoreReceived(p, s) ==
    LET m == ops[p][s].msg IN
    /\ ops[p][s].step = "store"
    /\ ops' = [ops EXCEPT ![p][s] = NoOp]
    /\ \/ stored' = [stored EXCEPT ![p] = @ \cup {m}] /\ UNCHANGED <<torn, faults>>
       \/ /\ Fails
          /\ torn' = [torn EXCEPT ![p] = @ \cup {m}]
          /\ UNCHANGED stored
    /\ UNCHANGED <<row, issued, sent, opened, strayed, crashes>>

\* The process ends: only the vault is left, and the server's queue.
Crash(p) ==
    /\ crashes < MaxCrashes
    /\ \E s \in Slot : ops[p][s] # NoOp
    /\ crashes' = crashes + 1
    /\ ops' = [ops EXCEPT ![p] = [s \in Slot |-> NoOp]]
    /\ torn' = [torn EXCEPT ![p] = @ \cup { ops[p][s].msg : s \in Steps(p, "store") }]
    /\ UNCHANGED <<row, issued, sent, stored, opened, strayed, faults>>

Next == \E p \in Party :
    \/ Crash(p)
    \/ \E s \in Slot :
         \/ StartText(p, s) \/ StartEvent(p, s)
         \/ SaveSent(p, s) \/ Transmit(p, s)
         \/ \E m \in sent[Peer(p)] : DecryptNext(p, s, m)
         \/ SaveReceived(p, s) \/ StoreReceived(p, s)

Spec == Init /\ [][Next]_vars

-----------------------------------------------------------------------------
(***************************************************************************)
(* What the clients keep of the protocol.                                  *)
(***************************************************************************)

Messages(p) == { issued[p][i] : i \in DOMAIN issued[p] }
IsOpened(m) == opened[m.ct.text[1]][m.ct.text[2]] > 0
InHand(p, m) == \E s \in Steps(p, "store") : ops[p][s].msg = m

\* Every variable in its range; one incoming message at a time is between
\* its decryption and the save of the session; what was sent was issued, what
\* was stored was sent.
TypeOK ==
    /\ \A p \in Party :
         /\ row[p] = NoSession \/ row[p].self.owner = p
         /\ \A s \in Slot : ops[p][s].step \in {"none", "save", "transmit", "keep", "store"}
         /\ Cardinality(Steps(p, "keep")) <= 1
         /\ Len(issued[p]) <= MaxSend
         /\ sent[p] \subseteq Messages(p)
         /\ stored[p] \subseteq sent[Peer(p)] /\ torn[p] \subseteq sent[Peer(p)]
    /\ opened \in [Party -> [1 .. MaxSend -> Nat]] /\ strayed \in BOOLEAN
    /\ crashes \in 0 .. MaxCrashes /\ faults \in 0 .. MaxFaults

\* A message whose key is used up is in the vault, about to be stored, or one
\* of those a crash or a failing store tore; and no message is stored whose
\* session was not kept, so a redelivery of it does nothing.
OpenedIsKept ==
    \A p \in Party : \A m \in Messages(Peer(p)) :
      IsOpened(m) <=> m \in stored[p] \cup torn[p] \/ InHand(p, m)

\* Each encrypt call derives its own message key (docs/adr/ADR-004.md), and
\* the conversation's queue is there "to prevent X3DH/ratchet state races"
\* (crypto_orchestration.ts:4): no two messages are sealed with one key.
FreshMessageKeys ==
    \A m1, m2 \in Messages(Alice) \cup Messages(Bob) : m1.ct.mk = m2.ct.mk => m1 = m2

\* What takes two messages to one key is a save over a row its operation has
\* not read, a send after a failed save, or a second opening: operations that
\* overlap, reads that fail, redeliveries and crashes do not, unless they come
\* to that.
FreshUnlessStrayed == strayed \/ FreshMessageKeys

\* Until then, the steps of the clients are the sessions of RatchetPair: the
\* vault's row is the session, what was issued is what the session sent, and
\* all that lies between a read and its save, a crash included, is a stutter.
SessionOf(p) ==
    IF row[p] # NoSession THEN row[p]
    ELSE IF p = Alice THEN StartedSession(Alice, Key(Alice, 1))
    ELSE AnsweringSession(Bob, Key(Alice, 1))
Wire(m) == [header |-> m.header, ct |-> m.ct]

Pair == INSTANCE RatchetPair WITH
    sess <- [p \in Party |-> SessionOf(p)],
    sent <- [p \in Party |-> [i \in DOMAIN issued[p] |-> Wire(issued[p][i])]]

ImplementsRatchetPair == Pair!Init /\ [][strayed' \/ Pair!Next]_Pair!vars
=============================================================================
