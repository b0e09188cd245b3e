------------------------------ MODULE Ratchet ------------------------------
(***************************************************************************)
(* The Double Ratchet session of crates/crypto_core/src/ratchet.rs, as     *)
(* operators on one session record.  Keys are symbolic: a root key is the  *)
(* sequence of everything mixed into it, a chain key is the root key it    *)
(* was split from and its distance from it, and a message key is named by  *)
(* the chain key it was derived from.  Two keys are equal exactly when the *)
(* HKDF inputs that made them are, which is what the code relies on.       *)
(*                                                                         *)
(* Nothing here is recursive: the skip loop of the code adds the keys of   *)
(* an interval of counters, and the model adds that interval at once.      *)
(***************************************************************************)
EXTENDS Naturals, Sequences

CONSTANT MaxSkip   \* MAX_SKIP: how far past recv_count a message may be

ASSUME MaxSkipAssumption == MaxSkip \in Nat

-----------------------------------------------------------------------------
(***************************************************************************)
(* Key material.  A ratchet key pair is named by its owner and the order   *)
(* in which the owner generated it; "no key" (Option::None) has no owner.  *)
(***************************************************************************)

Key(owner, no) == [owner |-> owner, no |-> no]
NoKey == Key("none", 0)

\* The pre-key an owner publishes; its ratchet keys are numbered from 1.
SignedPreKey(owner) == Key(owner, 0)

\* x3dh_sender and x3dh_receiver: a secret of its own for every handshake,
\* named by the first ratchet key of the session it is made for.
X3dhSecret(first) == <<"x3dh", first>>

\* curve25519::scalarmult commutes: both ends compute the same secret.
DhOutput(own, theirs) == {own, theirs}

\* A chain key split from `root`, n steps of KDF_CK later.
Chain(root, n) == [root |-> root, n |-> n]
NoChain == Chain(<<>>, 0)

\* HKDF of a root key and a DH output; the same value names both halves of
\* its output, the next root key and the chain key that starts from it.
KdfRk(root, out) == Append(root, out)

\* One symmetric step.  The message key it yields is named by the chain key
\* it was derived from, the chain moves on.
KdfCk(ck) == Chain(ck.root, ck.n + 1)
MessageKey(ck) == ck

Header(dh, prev, n) == [dh |-> dh, prev |-> prev, n |-> n]

\* AEAD: a ciphertext opens under the key and the associated data it was
\* sealed with, and under nothing else.
Seal(mk, ad, text) == [mk |-> mk, ad |-> ad, text |-> text]
Opens(mk, ad, ct) == ct.mk = mk /\ ct.ad = ad

-----------------------------------------------------------------------------
(***************************************************************************)
(* Sessions.                                                               *)
(***************************************************************************)

\* init_as_sender: a fresh key pair and one root step with the peer's signed
\* pre-key, which opens the sending chain.
InitAsSender(secret, spk, fresh) ==
    LET rk == KdfRk(<<secret>>, DhOutput(fresh, spk)) IN
    [ self |-> fresh, remote |-> spk, root |-> rk,
      sendCk |-> Chain(rk, 0), recvCk |-> NoChain,
      sendN |-> 0, recvN |-> 0, prevN |-> 0, skipped |-> <<>> ]

\* init_as_receiver: the signed pre-key is the first ratchet key, and both
\* chains are missing until a message arrives.
InitAsReceiver(secret, spk) ==
    [ self |-> spk, remote |-> NoKey, root |-> <<secret>>,
      sendCk |-> NoChain, recvCk |-> NoChain,
      sendN |-> 0, recvN |-> 0, prevN |-> 0, skipped |-> <<>> ]

CanEncrypt(s) == s.sendCk # NoChain

\* A faulty `encrypt` that forgets to store the advanced chain key.
EncryptReusingKey(s) == [s EXCEPT !.sendN = @ + 1]

\* The session after `encrypt`, and the message it hands to the network.
Encrypt(s) == [s EXCEPT !.sendCk = KdfCk(@), !.sendN = @ + 1]

Encrypted(s, ad, text) ==
    [ header |-> Header(s.self, s.prevN, s.sendN),
      ct     |-> Seal(MessageKey(s.sendCk), ad, text) ]

-----------------------------------------------------------------------------
(***************************************************************************)
(* Receiving.  A session that has moved past a message keeps the message's *)
(* key under the sender's ratchet key and counter (skipped_keys).          *)
(***************************************************************************)

\* `recv_count + MAX_SKIP < until` is the code's SessionResetNeeded.
CanSkip(s, until) == until <= s.recvN + MaxSkip

\* A faulty skip loop that runs one key too far.
SkipUntilInclusive(s, until) ==
    IF s.recvCk = NoChain \/ until <= s.recvN THEN s
    ELSE LET new  == { <<s.remote, i>> : i \in s.recvN .. until }
             at(k) == Chain(s.recvCk.root, s.recvCk.n + (k[2] - s.recvN))
         IN [s EXCEPT
               !.skipped = [k \in DOMAIN @ \cup new |->
                              IF k \in new THEN MessageKey(at(k)) ELSE @[k]],
               !.recvCk  = at(<<s.remote, until>>),
               !.recvN   = until]

\* skip_until: keep the keys of the counters recv_count .. until - 1 of the
\* current receiving chain, if there is one and it is behind.
SkipUntil(s, until) ==
    IF s.recvCk = NoChain \/ until <= s.recvN THEN s
    ELSE LET new  == { <<s.remote, i>> : i \in s.recvN .. until - 1 }
             at(k) == Chain(s.recvCk.root, s.recvCk.n + (k[2] - s.recvN))
         IN [s EXCEPT
               !.skipped = [k \in DOMAIN @ \cup new |->
                              IF k \in new THEN MessageKey(at(k)) ELSE @[k]],
               !.recvCk  = at(<<s.remote, until>>),
               !.recvN   = until]

\* ratchet_dh: the new receiving chain comes from the old key pair, the new
\* sending chain from a fresh one; the counters start over.
RatchetDh(s, theirs, fresh) ==
    LET recvRoot == KdfRk(s.root, DhOutput(s.self, theirs))
        sendRoot == KdfRk(recvRoot, DhOutput(fresh, theirs))
    IN [s EXCEPT !.self = fresh, !.remote = theirs, !.root = sendRoot,
                 !.sendCk = Chain(sendRoot, 0), !.recvCk = Chain(recvRoot, 0),
                 !.sendN = 0, !.recvN = 0, !.prevN = s.sendN]

SkippedKey(h) == <<h.dh, h.n>>
IsBuffered(s, h) == SkippedKey(h) \in DOMAIN s.skipped
IsNewDh(s, h) == s.remote # h.dh

\* A faulty `decrypt` that leaves the previous chain without buffering it.
RatchetedForgetting(s, h, fresh) ==
    IF IsNewDh(s, h) THEN RatchetDh(s, h.dh, fresh) ELSE s

\* Step 2 of decrypt: on a new ratchet key, finish the old chain, then turn.
Ratcheted(s, h, fresh) ==
    IF IsNewDh(s, h) THEN RatchetDh(SkipUntil(s, h.prev), h.dh, fresh) ELSE s

\* Steps 2 and 3 of decrypt: the receiving chain stands at the message.
CaughtUp(s, h, fresh) == SkipUntil(Ratcheted(s, h, fresh), h.n)

\* Neither skip of decrypt meets its limit.
WithinWindow(s, h, fresh) ==
    /\ IsNewDh(s, h) => CanSkip(s, h.prev)
    /\ CanSkip(Ratcheted(s, h, fresh), h.n)

\* The outcomes of decrypt: its boolean result, and the session it leaves.
Decrypts(s, m, ad, fresh) ==
    \/ /\ IsBuffered(s, m.header)
       /\ Opens(s.skipped[SkippedKey(m.header)], ad, m.ct)
    \/ /\ ~ IsBuffered(s, m.header)
       /\ WithinWindow(s, m.header, fresh)
       /\ CaughtUp(s, m.header, fresh).recvCk # NoChain
       /\ Opens(MessageKey(CaughtUp(s, m.header, fresh).recvCk), ad, m.ct)

\* A faulty `decrypt` that looks the buffered key up without taking it out.
DecryptedKeepingKey(s, h, fresh) ==
    IF IsBuffered(s, h) THEN s
    ELSE [CaughtUp(s, h, fresh) EXCEPT !.recvCk = KdfCk(@), !.recvN = @ + 1]

\* A faulty `decrypt` that does not store the advanced receiving chain.
DecryptedWithoutStep(s, h, fresh) ==
    IF IsBuffered(s, h)
    THEN [s EXCEPT !.skipped = [k \in DOMAIN @ \ {SkippedKey(h)} |-> @[k]]]
    ELSE [CaughtUp(s, h, fresh) EXCEPT !.recvN = @ + 1]

\* decrypt: a buffered key is taken out and used; otherwise the receiving
\* chain advances by the message's own key.
Decrypted(s, h, fresh) ==
    IF IsBuffered(s, h)
    THEN [s EXCEPT !.skipped = [k \in DOMAIN @ \ {SkippedKey(h)} |-> @[k]]]
    ELSE [CaughtUp(s, h, fresh) EXCEPT !.recvCk = KdfCk(@), !.recvN = @ + 1]
=============================================================================
