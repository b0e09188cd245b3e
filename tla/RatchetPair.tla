---------------------------- MODULE RatchetPair ----------------------------
(***************************************************************************)
(* Two Double Ratchet sessions talking through the message router:         *)
(* `ratchet_encrypt` and `ratchet_decrypt` of src-tauri work on a copy of  *)
(* the stored session, and the copy replaces the stored one only when the  *)
(* call succeeds.  Label[p] is the associated data p passes: ratchet.rs    *)
(* asks for the conversation's id, which is the same at both ends; the     *)
(* desktop client passes the id of the other user, which is not.           *)
(*                                                                         *)
(* The network may reorder, lose (until a later redelivery) and duplicate: *)
(* the router delivers live and again from the table on every reconnect    *)
(* until it has an acknowledgement, so any message ever sent can arrive at *)
(* any time, any number of times.                                          *)
(***************************************************************************)
EXTENDS Ratchet, FiniteSets

CONSTANTS
    Label,     \* Label[p]: what p binds its messages to
    MaxSend    \* bound: messages each party sends

ASSUME MaxSendAssumption == MaxSend \in Nat

Alice == "alice"   \* started the conversation (alice_x3dh)
Bob   == "bob"     \* answered it (bob_x3dh)
Party == {Alice, Bob}
Peer(p) == IF p = Alice THEN Bob ELSE Alice

VARIABLES
    sess,     \* sess[p]: the session row in p's vault
    sent,     \* sent[p]: what p handed to the network, in order
    opened    \* opened[p][i]: how often p's peer decrypted p's message i

vars == <<sess, sent, opened>>

\* Alice's first ratchet key, and the X3DH secret both ends derived.
FirstKey == Key(Alice, 1)
Secret == X3dhSecret(FirstKey)

\* A key pair its owner has never used; a pair generated by a decrypt that
\* fails is dropped with the copy, so its number is free again.
FreshKey(p) == Key(p, sess[p].self.no + 1)

Init ==
    /\ sess = [p \in Party |->
                 IF p = Alice
                 THEN InitAsSender(Secret, SignedPreKey(Bob), FirstKey)
                 ELSE InitAsReceiver(Secret, SignedPreKey(Bob))]
    /\ sent = [p \in Party |-> <<>>]
    /\ opened = [p \in Party |-> [i \in 1 .. MaxSend |-> 0]]

\* ratchet_encrypt, then the save of the session and MESSAGE_SEND.  Bob has
\* no sending chain until a message of Alice's arrived (NotInitialized).
Send(p) ==
    /\ Len(sent[p]) < MaxSend
    /\ CanEncrypt(sess[p])
    /\ sent' = [sent EXCEPT ![p] = Append(@,
                  Encrypted(sess[p], Label[p], <<p, Len(@) + 1>>))]
    /\ sess' = [sess EXCEPT ![p] = Encrypt(@)]
    /\ UNCHANGED opened

\* The session p stores after ratchet_decrypt of m: the new one, or on any
\* error the one it had.
Stored(p, m) ==
    IF Decrypts(sess[p], m, Label[p], FreshKey(p))
    THEN Decrypted(sess[p], m.header, FreshKey(p))
    ELSE sess[p]

\* Message i of p's peer reaches p, for the first time or again.
Receive(p, i) ==
    LET q == Peer(p) IN
    /\ i \in 1 .. Len(sent[q])
    /\ LET m == sent[q][i] IN
         /\ sess' = [sess EXCEPT ![p] = Stored(p, m)]
         /\ opened' = IF Decrypts(sess[p], m, Label[p], FreshKey(p))
                      THEN [opened EXCEPT ![q][m.ct.text[2]] = @ + 1]
                      ELSE opened
    /\ UNCHANGED sent

Next == \E p \in Party : Send(p) \/ \E i \in 1 .. MaxSend : Receive(p, i)

\* The router offers a message on every reconnect until it is acknowledged,
\* so a message that can be decrypted is decrypted at some time.
Fairness == \A p \in Party : \A i \in 1 .. MaxSend : WF_vars(Receive(p, i))

Spec == Init /\ [][Next]_vars /\ Fairness

-----------------------------------------------------------------------------
(***************************************************************************)
(* What the two sessions promise each other.                               *)
(***************************************************************************)

\* Every field in its range; and a chain that exists is exactly as many
\* KDF_CK steps from its root as its counter says, on both sides.
TypeOK ==
    /\ DOMAIN sess = Party
    /\ \A p \in Party :
         LET s == sess[p] IN
         /\ s.self \in [owner : {p}, no : Nat]
         /\ s.remote \in [owner : {Peer(p)}, no : Nat] \cup {NoKey}
         /\ {s.sendN, s.recvN, s.prevN} \subseteq 0 .. MaxSend
         /\ s.sendCk = NoChain \/ s.sendCk.n = s.sendN
         /\ s.recvCk = NoChain \/ s.recvCk.n = s.recvN
         /\ Len(sent[p]) <= MaxSend
    /\ opened \in [Party -> [1 .. MaxSend -> Nat]]

Sent(p) == { sent[p][i] : i \in 1 .. Len(sent[p]) }
IsOpened(m) == opened[m.ct.text[1]][m.ct.text[2]] > 0

\* The chain of m is one p's session has not reached, or has left.
ChainAhead(p, m) ==
    \/ sess[p].remote = NoKey
    \/ m.header.dh.no > sess[p].remote.no
ChainBehind(p, m) ==
    /\ sess[p].remote # NoKey
    /\ m.header.dh.no < sess[p].remote.no
Passed(p, m) ==
    \/ ChainBehind(p, m)
    \/ m.header.dh = sess[p].remote /\ m.header.n < sess[p].recvN

\* m is no further than MAX_SKIP past what p received, on its own chain and,
\* if that chain is new, at the end of the one before.
InReach(p, m) ==
    \/ Passed(p, m)
    \/ m.header.dh = sess[p].remote /\ m.header.n <= sess[p].recvN + MaxSkip
    \/ /\ ChainAhead(p, m)
       /\ m.header.prev <= sess[p].recvN + MaxSkip
       /\ m.header.n <= MaxSkip

\* Whatever order messages arrive in, and whatever has been redelivered in
\* between, a message the receiver has not decrypted yet can be decrypted as
\* long as it is in reach ("handles out-of-order delivery transparently").
Decryptable ==
    \A p \in Party : \A m \in Sent(Peer(p)) :
      ~ IsOpened(m) /\ InReach(p, m) => Decrypts(sess[p], m, Label[p], FreshKey(p))

\* A message is decrypted at most once: a redelivery never yields it again.
OpenedOnce == \A p \in Party : \A i \in 1 .. MaxSend : opened[p][i] <= 1

\* Each encrypt call derives its own message key (docs/adr/ADR-004.md).
FreshMessageKeys ==
    \A m1, m2 \in UNION { Sent(p) : p \in Party } :
      m1.ct.mk = m2.ct.mk => m1 = m2

\* The message keys that can still be computed from a stored session.
Derivable(s, mk) ==
    \/ \E k \in DOMAIN s.skipped : s.skipped[k] = mk
    \/ \E ck \in {s.sendCk, s.recvCk} : ck.root = mk.root /\ ck.n <= mk.n

\* Forward secrecy: the stored session of neither end can give back the key
\* of a message it has sent or has decrypted.
ForwardSecrecy ==
    \A p \in Party : \A m \in Sent(p) :
      /\ ~ Derivable(sess[p], m.ct.mk)
      /\ IsOpened(m) => ~ Derivable(sess[Peer(p)], m.ct.mk)

\* The buffer holds the keys of the messages the session has passed without
\* decrypting them, and no other: no key leaks, none is missing.
BufferIsTheGap ==
    \A p \in Party :
      LET missing == { m \in Sent(Peer(p)) : Passed(p, m) /\ ~ IsOpened(m) } IN
      /\ DOMAIN sess[p].skipped = { SkippedKey(m.header) : m \in missing }
      /\ \A m \in missing : sess[p].skipped[SkippedKey(m.header)] = m.ct.mk

\* Every message is decrypted in the end, what is out of reach now comes into
\* reach as the earlier ones are redelivered: again and again there is a moment
\* when nothing that was sent is left to decrypt.
EventuallyOpened == []<>(\A p \in Party : \A m \in Sent(p) : IsOpened(m))
=============================================================================
