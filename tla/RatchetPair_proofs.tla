-------------------------- MODULE RatchetPair_proofs --------------------------
(***************************************************************************)
(* Proofs about RatchetPair, for any number of messages, any MAX_SKIP and  *)
(* any associated data: no message key is used twice, no message is opened *)
(* twice, no stored session gives back a key it should have forgotten, the *)
(* keys that are kept are those of the messages that were passed, and (for *)
(* one label at both ends) what is in reach opens.                         *)
(*                                                                         *)
(* The argument orders keys by the length of their chain's root, then by   *)
(* their counter.  Each turn of the DH ratchet lengthens the root by two,  *)
(* so that one party's sending chains have roots of even length and the    *)
(* other's of odd length, and both ends of a session only move forward.    *)
(***************************************************************************)
EXTENDS RatchetPair, TLAPS

AnyKey == [owner : {"none", "alice", "bob"}, no : Nat]
Mixed == {Secret} \cup SUBSET AnyKey
AnyChain == [root : Seq(Mixed), n : Nat]
Buffer == UNION {[D -> AnyChain] : D \in SUBSET (AnyKey \X Nat)}

Session == [self : AnyKey, remote : AnyKey, root : Seq(Mixed),
            sendCk : AnyChain, recvCk : AnyChain,
            sendN : Nat, recvN : Nat, prevN : Nat, skipped : Buffer]

Message == [header : [dh : AnyKey, prev : Nat, n : Nat],
            ct : [mk : AnyChain, ad : {Label[p] : p \in Party}, text : Party \X Nat]]

\* The order of message keys and chain positions.
Before(a, b) == \/ Len(a.root) < Len(b.root)
                \/ Len(a.root) = Len(b.root) /\ a.n < b.n
NotAfter(a, b) == \/ Len(a.root) < Len(b.root)
                  \/ Len(a.root) = Len(b.root) /\ a.n <= b.n

\* The lengths of the roots of p's sending chains.
Length(p) == {2 * i + (IF p = Alice THEN 0 ELSE 1) : i \in Nat}

\* What is true of every session p stores.
Good(p, s) ==
    /\ s \in Session
    /\ Len(s.root) > 0 /\ Len(s.root) \in Length(p)
    /\ s.sendCk = NoChain \/ s.sendCk.root = s.root
    /\ s.recvCk.n = s.recvN
    /\ s.recvCk = NoChain \/ Len(s.recvCk.root) + 1 = Len(s.root)
    /\ \A k \in DOMAIN s.skipped : /\ Before(s.skipped[k], s.recvCk)
                                   /\ Len(s.skipped[k].root) \in Length(Peer(p))
    /\ \A k, l \in DOMAIN s.skipped : s.skipped[k] = s.skipped[l] => k = l

\* t comes after s: positions move forward, and a key that s had passed is in
\* t's buffer only if it was in that of s.
Follows(s, t) ==
    /\ NotAfter(s.sendCk, t.sendCk) /\ NotAfter(s.recvCk, t.recvCk)
    /\ \A k \in DOMAIN t.skipped :
         \/ \E l \in DOMAIN s.skipped : s.skipped[l] = t.skipped[k]
         \/ ~ Before(t.skipped[k], s.recvCk)

-----------------------------------------------------------------------------

LEMMA Parties == /\ \A p \in Party : Peer(p) \in Party /\ Peer(p) # p /\ Peer(Peer(p)) = p
                 /\ \A p, q \in Party : q # p => q = Peer(p)
  BY DEF Party, Peer, Alice, Bob

LEMMA Parity ==
  ASSUME NEW p \in Party, NEW n \in Nat
  PROVE  /\ n \in Length(p) => n \notin Length(Peer(p))
         /\ n + 1 \in Length(p) => n \in Length(Peer(p))
         /\ n \in Length(p) => n + 2 \in Length(p)
<1>1. CASE p = Alice
  <2>1. Peer(p) = Bob /\ Bob # Alice
    BY <1>1 DEF Peer, Alice, Bob
  <2>2. n \in Length(p) => n \notin Length(Peer(p))
    BY <1>1, <2>1 DEF Length
  <2>3. ASSUME n + 1 \in Length(p) PROVE n \in Length(Peer(p))
    <3>1. PICK i \in Nat : n + 1 = 2 * i
      BY <1>1, <2>3 DEF Length
    <3>2. i - 1 \in Nat /\ n = 2 * (i - 1) + 1
      BY <3>1
    <3> QED
      BY <2>1, <3>2 DEF Length
  <2>4. ASSUME n \in Length(p) PROVE n + 2 \in Length(p)
    <3>1. PICK i \in Nat : n = 2 * i
      BY <1>1, <2>4 DEF Length
    <3>2. i + 1 \in Nat /\ n + 2 = 2 * (i + 1) + 0
      BY <3>1
    <3> QED
      BY <1>1, <3>2 DEF Length
  <2> QED
    BY <2>2, <2>3, <2>4
<1>2. CASE p = Bob
  <2>1. Peer(p) = Alice /\ Bob # Alice
    BY <1>2 DEF Peer, Alice, Bob
  <2>2. n \in Length(p) => n \notin Length(Peer(p))
    BY <1>2, <2>1 DEF Length
  <2>3. ASSUME n + 1 \in Length(p) PROVE n \in Length(Peer(p))
    <3>1. PICK i \in Nat : n + 1 = 2 * i + 1
      BY <1>2, <2>1, <2>3 DEF Length
    <3>2. n = 2 * i + 0
      BY <3>1
    <3> QED
      BY <2>1, <3>2 DEF Length
  <2>4. ASSUME n \in Length(p) PROVE n + 2 \in Length(p)
    <3>1. PICK i \in Nat : n = 2 * i + 1
      BY <1>2, <2>1, <2>4 DEF Length
    <3>2. i + 1 \in Nat /\ n + 2 = 2 * (i + 1) + 1
      BY <3>1
    <3> QED
      BY <1>2, <2>1, <3>2 DEF Length
  <2> QED
    BY <2>2, <2>3, <2>4
<1> QED
  BY <1>1, <1>2 DEF Party

LEMMA Order ==
  ASSUME NEW a \in AnyChain, NEW b \in AnyChain, NEW c \in AnyChain
  PROVE  /\ Before(a, b) => ~ NotAfter(b, a)
         /\ Before(a, b) /\ NotAfter(b, c) => Before(a, c)
         /\ NotAfter(a, b) /\ NotAfter(b, c) => NotAfter(a, c)
         /\ NotAfter(a, b) \/ Before(b, a)
         /\ Before(a, b) => NotAfter(a, b)
         /\ NotAfter(a, a)
<1>1. /\ Len(a.root) \in Nat /\ Len(b.root) \in Nat /\ Len(c.root) \in Nat
      /\ a.n \in Nat /\ b.n \in Nat /\ c.n \in Nat
  BY DEF AnyChain
<1> QED
  BY <1>1 DEF Before, NotAfter

\* A chain that is missing comes before everything.
LEMMA NoChainFirst ==
  /\ NoChain \in AnyChain
  /\ \A a \in AnyChain : NotAfter(NoChain, a) /\ ~ Before(a, NoChain)
<1>1. NoChain = [root |-> <<>>, n |-> 0]
  BY DEF NoChain, Chain
<1>2. NoChain \in AnyChain
  BY <1>1 DEF AnyChain
<1>3. ASSUME NEW a \in AnyChain PROVE NotAfter(NoChain, a) /\ ~ Before(a, NoChain)
  <2>1. /\ Len(a.root) \in Nat /\ a.n \in Nat
        /\ NoChain.root = <<>> /\ NoChain.n = 0 /\ Len(NoChain.root) = 0
    BY <1>1 DEF AnyChain
  <2> QED
    BY <2>1 DEF NotAfter, Before
<1> QED
  BY <1>2, <1>3

LEMMA InBuffer ==
  ASSUME NEW f, NEW D \in SUBSET (AnyKey \X Nat), f \in [D -> AnyChain]
  PROVE  f \in Buffer
BY DEF Buffer

LEMMA OfBuffer ==
  ASSUME NEW f \in Buffer
  PROVE  /\ DOMAIN f \in SUBSET (AnyKey \X Nat)
         /\ f \in [DOMAIN f -> AnyChain]
         /\ \A k \in DOMAIN f : f[k] \in AnyChain
<1>1. PICK D \in SUBSET (AnyKey \X Nat) : f \in [D -> AnyChain]
  BY DEF Buffer
<1> QED
  BY <1>1

LEMMA FollowsTrans ==
  ASSUME NEW s \in Session, NEW t \in Session, NEW u \in Session, Follows(s, t), Follows(t, u)
  PROVE  Follows(s, u)
<1>1. /\ s.sendCk \in AnyChain /\ t.sendCk \in AnyChain /\ u.sendCk \in AnyChain
      /\ s.recvCk \in AnyChain /\ t.recvCk \in AnyChain /\ u.recvCk \in AnyChain
      /\ u.skipped \in Buffer /\ t.skipped \in Buffer
  BY DEF Session
<1>2. NotAfter(s.sendCk, u.sendCk) /\ NotAfter(s.recvCk, u.recvCk)
  BY <1>1, Order DEF Follows
<1>3. ASSUME NEW k \in DOMAIN u.skipped, Before(u.skipped[k], s.recvCk)
      PROVE  \E l \in DOMAIN s.skipped : s.skipped[l] = u.skipped[k]
  <2>1. u.skipped[k] \in AnyChain
    BY <1>1, OfBuffer
  <2>2. Before(u.skipped[k], t.recvCk)
    BY <1>1, <1>3, <2>1, Order DEF Follows
  <2>3. PICK j \in DOMAIN t.skipped : t.skipped[j] = u.skipped[k]
    BY <2>2 DEF Follows
  <2> QED
    BY <1>3, <2>3 DEF Follows
<1> QED
  BY <1>2, <1>3 DEF Follows

-----------------------------------------------------------------------------
(***************************************************************************)
(* What each step of encrypt and decrypt does to a session.                *)
(***************************************************************************)

LEMMA ChainIs ==
  ASSUME NEW root \in Seq(Mixed), NEW n \in Nat
  PROVE  Chain(root, n) \in AnyChain /\ Chain(root, n).root = root /\ Chain(root, n).n = n
BY DEF Chain, AnyChain

\* A session that is like s but for its receiving side.
LEMMA Rebuilt ==
  ASSUME NEW p, NEW s, Good(p, s), NEW ck \in AnyChain, NEW buf \in Buffer,
         ck = NoChain \/ Len(ck.root) + 1 = Len(s.root),
         NotAfter(s.recvCk, ck),
         \A k \in DOMAIN buf : /\ Before(buf[k], ck)
                               /\ Len(buf[k].root) \in Length(Peer(p)),
         \A k, l \in DOMAIN buf : buf[k] = buf[l] => k = l,
         \A k \in DOMAIN buf : \/ \E l \in DOMAIN s.skipped : s.skipped[l] = buf[k]
                               \/ ~ Before(buf[k], s.recvCk),
         NEW t, t = [s EXCEPT !.skipped = buf, !.recvCk = ck, !.recvN = ck.n]
  PROVE  Good(p, t) /\ Follows(s, t)
<1>1. s \in Session
  BY DEF Good
<1>2. /\ t.self = s.self /\ t.remote = s.remote /\ t.root = s.root /\ t.sendCk = s.sendCk
      /\ t.sendN = s.sendN /\ t.prevN = s.prevN
      /\ t.recvCk = ck /\ t.recvN = ck.n /\ t.skipped = buf
  BY <1>1 DEF Session
<1>3. ck.n \in Nat
  BY DEF AnyChain
<1>4. t \in Session
  BY <1>1, <1>3 DEF Session
<1>5. Good(p, t)
  BY <1>2, <1>4 DEF Good
<1>6. NotAfter(s.sendCk, t.sendCk)
  BY <1>1, <1>2, Order DEF Session
<1> QED
  BY <1>2, <1>5, <1>6 DEF Follows

LEMMA SkipGood ==
  ASSUME NEW p \in Party, NEW s, Good(p, s), NEW until \in Nat
  PROVE  LET t == SkipUntil(s, until) IN Good(p, t) /\ Follows(s, t)
<1> DEFINE t == SkipUntil(s, until)
<1>1. s \in Session /\ s.recvN \in Nat /\ s.recvCk \in AnyChain /\ s.sendCk \in AnyChain
      /\ s.skipped \in Buffer /\ s.remote \in AnyKey
  BY DEF Good, Session
<1>2. CASE s.recvCk = NoChain \/ until <= s.recvN
  <2>1. t = s
    BY <1>2 DEF SkipUntil
  <2>2. Follows(s, s)
    BY <1>1, Order DEF Follows
  <2> QED
    BY <2>1, <2>2
<1>3. CASE ~ (s.recvCk = NoChain \/ until <= s.recvN)
  <2> DEFINE new == {<<s.remote, i>> : i \in s.recvN .. until - 1}
             D == DOMAIN s.skipped \cup new
             root == s.recvCk.root
             buf == [k \in D |-> IF k \in new THEN Chain(root, k[2]) ELSE s.skipped[k]]
             ck == Chain(root, until)
  <2>1. s.recvCk.n = s.recvN /\ s.recvCk.n \in Nat /\ root \in Seq(Mixed)
    BY <1>1 DEF Good, AnyChain
  <2>2. \A k \in new : /\ k[1] = s.remote /\ k[2] \in Nat /\ s.recvN <= k[2] /\ k[2] < until
                        /\ k = <<s.remote, k[2]>>
    BY <1>1
  <2>3. \A k \in new : Chain(root, s.recvCk.n + (k[2] - s.recvN)) = Chain(root, k[2])
    <3>1. \A n \in Nat : s.recvCk.n + (n - s.recvN) = n
      BY <1>1, <2>1
    <3> QED
      BY <2>2, <3>1
  <2>4. Chain(root, s.recvCk.n + (<<s.remote, until>>[2] - s.recvN)) = ck /\ ck.n = until
    <3>1. s.recvCk.n + (<<s.remote, until>>[2] - s.recvN) = until
      BY <1>1, <2>1
    <3> QED
      BY <3>1, <2>1, ChainIs
  <2>5. [k \in D |-> IF k \in new THEN MessageKey(Chain(root, s.recvCk.n + (k[2] - s.recvN)))
                     ELSE s.skipped[k]] = buf
    BY <2>3 DEF MessageKey
  <2>6. t = [s EXCEPT !.skipped = buf, !.recvCk = ck, !.recvN = ck.n]
    BY <1>3, <2>4, <2>5 DEF SkipUntil
  <2>7. DOMAIN buf = D /\ D \in SUBSET (AnyKey \X Nat)
    BY <1>1, OfBuffer
  <2>8. \A k \in new : buf[k] = Chain(root, k[2])
    OBVIOUS
  <2>9. \A k \in DOMAIN s.skipped \ new : buf[k] = s.skipped[k]
    OBVIOUS
  <2> HIDE DEF buf, new, D, root, ck, t
  <2>10. ck \in AnyChain /\ ck.root = root /\ ck.n = until
    BY <2>1, ChainIs DEF ck
  <2>11. \A k \in new : /\ buf[k] \in AnyChain /\ buf[k].root = root /\ buf[k].n = k[2]
                         /\ Before(buf[k], ck) /\ ~ Before(buf[k], s.recvCk)
    <3>1. ASSUME NEW k \in new
          PROVE  /\ buf[k] \in AnyChain /\ buf[k].root = root /\ buf[k].n = k[2]
                 /\ Before(buf[k], ck) /\ ~ Before(buf[k], s.recvCk)
      <4>1. buf[k] \in AnyChain /\ buf[k].root = root /\ buf[k].n = k[2]
        BY <2>1, <2>2, <2>8, ChainIs
      <4>2. Len(root) \in Nat /\ s.recvCk.root = root
        BY <2>1 DEF root
      <4>3. Before(buf[k], ck)
        BY <2>2, <2>10, <4>1 DEF Before
      <4>4. ~ Before(buf[k], s.recvCk)
        BY <2>1, <2>2, <4>1, <4>2, <1>1 DEF Before
      <4> QED
        BY <4>1, <4>3, <4>4
    <3> QED
      BY <3>1
  <2>12. NotAfter(s.recvCk, ck)
    BY <1>1, <1>3, <2>1, <2>10 DEF NotAfter, root
  <2>13. \A k \in DOMAIN s.skipped \ new :
           /\ buf[k] \in AnyChain /\ Before(buf[k], s.recvCk) /\ Before(buf[k], ck)
           /\ Len(buf[k].root) \in Length(Peer(p))
    BY <1>1, <2>9, <2>10, <2>12, OfBuffer, Order DEF Good
  <2>14. Len(root) + 1 = Len(s.root) /\ Len(root) \in Length(Peer(p))
    <3>1. Len(root) + 1 = Len(s.root) /\ Len(root) \in Nat
      BY <1>3, <2>1 DEF Good, root
    <3> QED
      BY <3>1, Parity DEF Good
  <2>15. buf \in Buffer
    <3>1. buf \in [D -> AnyChain]
      BY <2>11, <2>13, <2>7 DEF D, buf
    <3> QED
      BY <2>7, <3>1, InBuffer
  <2>16. ASSUME NEW k \in D, NEW l \in D, buf[k] = buf[l] PROVE k = l
    <3>1. CASE k \in new /\ l \in new
      BY <2>2, <2>11, <2>16, <3>1
    <3>2. CASE k \notin new /\ l \notin new
      BY <2>9, <2>16, <3>2 DEF D, Good
    <3>3. CASE k \in new /\ l \notin new
      BY <2>11, <2>13, <2>16, <3>3 DEF D
    <3>4. CASE k \notin new /\ l \in new
      BY <2>11, <2>13, <2>16, <3>4 DEF D
    <3> QED
      BY <3>1, <3>2, <3>3, <3>4
  <2>17. \A k \in D : /\ Before(buf[k], ck) /\ Len(buf[k].root) \in Length(Peer(p))
                       /\ \/ \E l \in DOMAIN s.skipped : s.skipped[l] = buf[k]
                          \/ ~ Before(buf[k], s.recvCk)
    BY <2>9, <2>11, <2>13, <2>14 DEF D
  <2>18. Good(p, t) /\ Follows(s, t)
    BY <2>6, <2>7, <2>10, <2>12, <2>14, <2>15, <2>16, <2>17, Rebuilt
  <2> QED
    BY <2>18 DEF t
<1> QED
  BY <1>2, <1>3

LEMMA DhGood ==
  ASSUME NEW p \in Party, NEW s, Good(p, s), NEW theirs \in AnyKey, NEW fresh \in AnyKey
  PROVE  LET t == RatchetDh(s, theirs, fresh) IN Good(p, t) /\ Follows(s, t)
<1> DEFINE recvRoot == KdfRk(s.root, DhOutput(s.self, theirs))
           sendRoot == KdfRk(recvRoot, DhOutput(fresh, theirs))
           t == RatchetDh(s, theirs, fresh)
<1>1. /\ s \in Session /\ s.root \in Seq(Mixed) /\ s.self \in AnyKey /\ s.skipped \in Buffer
      /\ s.sendCk \in AnyChain /\ s.recvCk \in AnyChain /\ s.sendN \in Nat
      /\ Len(s.root) \in Nat
  BY DEF Good, Session
<1>2. DhOutput(s.self, theirs) \in Mixed /\ DhOutput(fresh, theirs) \in Mixed
  BY <1>1 DEF DhOutput, Mixed
<1>3. recvRoot \in Seq(Mixed) /\ Len(recvRoot) = Len(s.root) + 1
  BY <1>1, <1>2 DEF KdfRk
<1>4. sendRoot \in Seq(Mixed) /\ Len(sendRoot) = Len(s.root) + 2
  BY <1>1, <1>2, <1>3 DEF KdfRk
<1>5. t = [s EXCEPT !.self = fresh, !.remote = theirs, !.root = sendRoot,
                    !.sendCk = Chain(sendRoot, 0), !.recvCk = Chain(recvRoot, 0),
                    !.sendN = 0, !.recvN = 0, !.prevN = s.sendN]
  BY DEF RatchetDh
<1> HIDE DEF t, recvRoot, sendRoot
<1>6. /\ t.root = sendRoot /\ t.sendCk = Chain(sendRoot, 0) /\ t.recvCk = Chain(recvRoot, 0)
      /\ t.recvN = 0 /\ t.skipped = s.skipped
  BY <1>1, <1>5 DEF Session
<1>7. /\ t.sendCk \in AnyChain /\ t.sendCk.root = sendRoot /\ t.sendCk.n = 0
      /\ t.recvCk \in AnyChain /\ t.recvCk.root = recvRoot /\ t.recvCk.n = 0
  BY <1>3, <1>4, <1>6, ChainIs
<1>8. t \in Session
  BY <1>1, <1>3, <1>4, <1>5, <1>6, <1>7 DEF Session
<1>9. NotAfter(s.recvCk, t.recvCk)
  <2>1. CASE s.recvCk = NoChain
    BY <1>7, <2>1, NoChainFirst
  <2>2. CASE s.recvCk # NoChain
    <3>1. Len(s.recvCk.root) + 1 = Len(s.root) /\ Len(s.recvCk.root) \in Nat
      BY <1>1, <2>2 DEF Good, AnyChain
    <3> QED
      BY <1>1, <1>3, <1>7, <3>1 DEF NotAfter
  <2> QED
    BY <2>1, <2>2
<1>10. NotAfter(s.sendCk, t.sendCk)
  <2>1. CASE s.sendCk = NoChain
    BY <1>7, <2>1, NoChainFirst
  <2>2. CASE s.sendCk # NoChain
    <3>1. s.sendCk.root = s.root
      BY <2>2 DEF Good
    <3> QED
      BY <1>1, <1>4, <1>7, <3>1 DEF NotAfter
  <2> QED
    BY <2>1, <2>2
<1>11. Len(t.root) > 0 /\ Len(t.root) \in Length(p)
  BY <1>1, <1>4, <1>6, Parity DEF Good
<1>12. Len(t.recvCk.root) + 1 = Len(t.root)
  BY <1>1, <1>3, <1>4, <1>6, <1>7
<1>13. \A k \in DOMAIN t.skipped : /\ Before(t.skipped[k], t.recvCk)
                                   /\ Len(t.skipped[k].root) \in Length(Peer(p))
  BY <1>1, <1>6, <1>7, <1>9, OfBuffer, Order DEF Good
<1>14. \A k, l \in DOMAIN t.skipped : t.skipped[k] = t.skipped[l] => k = l
  BY <1>6 DEF Good
<1>15. Good(p, t)
  BY <1>6, <1>7, <1>8, <1>11, <1>12, <1>13, <1>14 DEF Good
<1>16. Follows(s, t)
  BY <1>6, <1>9, <1>10 DEF Follows
<1> QED
  BY <1>15, <1>16 DEF t

\* The receiving chain steps over the message it stands at.
LEMMA StepGood ==
  ASSUME NEW p \in Party, NEW s, Good(p, s), s.recvCk # NoChain
  PROVE  LET t == [s EXCEPT !.recvCk = KdfCk(@), !.recvN = @ + 1] IN
         /\ Good(p, t) /\ Follows(s, t) /\ Before(s.recvCk, t.recvCk)
         /\ \A k \in DOMAIN t.skipped : t.skipped[k] # s.recvCk
<1> DEFINE t == [s EXCEPT !.recvCk = KdfCk(@), !.recvN = @ + 1]
           ck == Chain(s.recvCk.root, s.recvCk.n + 1)
<1>1. /\ s \in Session /\ s.recvCk \in AnyChain /\ s.recvCk.root \in Seq(Mixed) /\ s.recvCk.n \in Nat
      /\ s.recvN = s.recvCk.n /\ s.skipped \in Buffer /\ Len(s.recvCk.root) \in Nat
  BY DEF Good, Session, AnyChain
<1>2. ck \in AnyChain /\ ck.root = s.recvCk.root /\ ck.n = s.recvCk.n + 1
  BY <1>1, ChainIs
<1>3. t = [s EXCEPT !.skipped = s.skipped, !.recvCk = ck, !.recvN = ck.n]
  BY <1>1, <1>2 DEF KdfCk, Session
<1> HIDE DEF ck
<1>4. Before(s.recvCk, ck) /\ NotAfter(s.recvCk, ck)
  BY <1>1, <1>2 DEF Before, NotAfter
<1>5. Len(ck.root) + 1 = Len(s.root)
  BY <1>2 DEF Good
<1>6. \A k \in DOMAIN s.skipped : /\ Before(s.skipped[k], ck) /\ Len(s.skipped[k].root) \in Length(Peer(p))
                                  /\ s.skipped[k] # s.recvCk
  <2>1. SUFFICES ASSUME NEW k \in DOMAIN s.skipped
                 PROVE  /\ Before(s.skipped[k], ck) /\ Len(s.skipped[k].root) \in Length(Peer(p))
                        /\ s.skipped[k] # s.recvCk
    OBVIOUS
  <2>2. /\ s.skipped[k] \in AnyChain /\ Before(s.skipped[k], s.recvCk)
        /\ Len(s.skipped[k].root) \in Length(Peer(p))
    BY <1>1, OfBuffer DEF Good
  <2>3. Before(s.skipped[k], ck)
    BY <1>1, <1>2, <1>4, <2>2, Order
  <2>4. s.skipped[k] # s.recvCk
    BY <1>1, <2>2, Order
  <2> QED
    BY <2>2, <2>3, <2>4
<1>7. t.skipped = s.skipped /\ t.recvCk = ck
  BY <1>1, <1>3 DEF Session
<1>8. \A k, l \in DOMAIN s.skipped : s.skipped[k] = s.skipped[l] => k = l
  BY DEF Good
<1> HIDE DEF t
<1>9. Good(p, t) /\ Follows(s, t)
  BY <1>1, <1>2, <1>3, <1>4, <1>5, <1>6, <1>8, Rebuilt
<1> QED
  BY <1>4, <1>6, <1>7, <1>9 DEF t

\* A buffered key is taken out.
Taken(s, key) == [s EXCEPT !.skipped = [k \in DOMAIN @ \ {key} |-> @[k]]]

LEMMA TakeGood ==
  ASSUME NEW p \in Party, NEW s, Good(p, s), NEW key \in DOMAIN s.skipped
  PROVE  LET t == Taken(s, key) IN
         /\ Good(p, t) /\ Follows(s, t) /\ t.recvCk = s.recvCk
         /\ \A k \in DOMAIN t.skipped : t.skipped[k] # s.skipped[key]
<1> DEFINE D == DOMAIN s.skipped \ {key}
           buf == [k \in D |-> s.skipped[k]]
           t == Taken(s, key)
<1>1. /\ s \in Session /\ s.recvCk \in AnyChain /\ s.recvN = s.recvCk.n /\ s.skipped \in Buffer
  BY DEF Good, Session
<1>2. t = [s EXCEPT !.skipped = buf, !.recvCk = s.recvCk, !.recvN = s.recvCk.n]
  BY <1>1 DEF Session, Taken
<1>3. t.skipped = buf /\ t.recvCk = s.recvCk
  BY <1>1 DEF Session, Taken
<1>4. DOMAIN buf = D /\ \A k \in D : k \in DOMAIN s.skipped /\ k # key /\ buf[k] = s.skipped[k]
  OBVIOUS
<1>5. buf \in Buffer
  <2>1. D \in SUBSET (AnyKey \X Nat) /\ buf \in [D -> AnyChain]
    BY <1>1, OfBuffer
  <2> QED
    BY <2>1, InBuffer
<1> HIDE DEF buf, D, t
<1>6. NotAfter(s.recvCk, s.recvCk)
  BY <1>1, Order
<1>7. \A k, l \in D : buf[k] = buf[l] => k = l
  BY <1>4 DEF Good
<1>8. \A k \in D : /\ Before(buf[k], s.recvCk) /\ Len(buf[k].root) \in Length(Peer(p))
                   /\ \E l \in DOMAIN s.skipped : s.skipped[l] = buf[k]
                   /\ buf[k] # s.skipped[key]
  BY <1>4 DEF Good
<1>9. s.recvCk = NoChain \/ Len(s.recvCk.root) + 1 = Len(s.root)
  BY DEF Good
<1>10. Good(p, t) /\ Follows(s, t)
  BY <1>1, <1>2, <1>4, <1>5, <1>6, <1>7, <1>8, <1>9, Rebuilt
<1> QED
  BY <1>3, <1>4, <1>8, <1>10 DEF t

\* A decrypt that succeeds: the session moves forward, the key it used was not
\* passed before, is passed now and is not in the buffer.
LEMMA DecryptedGood ==
  ASSUME NEW p \in Party, NEW s, Good(p, s), NEW m \in Message, NEW ad, NEW fresh \in AnyKey,
         Decrypts(s, m, ad, fresh), NEW t, t = Decrypted(s, m.header, fresh)
  PROVE  /\ Good(p, t) /\ Follows(s, t)
         /\ \/ ~ Before(m.ct.mk, s.recvCk)
            \/ \E k \in DOMAIN s.skipped : s.skipped[k] = m.ct.mk
         /\ Before(m.ct.mk, t.recvCk)
         /\ \A k \in DOMAIN t.skipped : t.skipped[k] # m.ct.mk
<1> DEFINE h == m.header
<1>1. h.dh \in AnyKey /\ h.prev \in Nat /\ h.n \in Nat /\ s \in Session /\ s.recvCk \in AnyChain
  BY DEF Message, Good, Session
<1>2. CASE IsBuffered(s, h)
  <2>1. SkippedKey(h) \in DOMAIN s.skipped /\ s.skipped[SkippedKey(h)] = m.ct.mk
    BY <1>2 DEF IsBuffered, Decrypts, Opens
  <2>2. t = Taken(s, SkippedKey(h))
    BY <1>2 DEF Decrypted, Taken
  <2>3. /\ Good(p, t) /\ Follows(s, t) /\ t.recvCk = s.recvCk
        /\ \A k \in DOMAIN t.skipped : t.skipped[k] # m.ct.mk
    BY <2>1, <2>2, TakeGood
  <2>4. Before(m.ct.mk, s.recvCk)
    BY <2>1 DEF Good
  <2> QED
    BY <2>1, <2>3, <2>4
<1>3. CASE ~ IsBuffered(s, h)
  <2> DEFINE r == Ratcheted(s, h, fresh)
             c == CaughtUp(s, h, fresh)
  <2>1. Good(p, r) /\ Follows(s, r)
    <3>1. CASE IsNewDh(s, h)
      <4> DEFINE q == SkipUntil(s, h.prev)
      <4>1. Good(p, q) /\ Follows(s, q)
        BY <1>1, SkipGood
      <4>2. r = RatchetDh(q, h.dh, fresh)
        BY <3>1 DEF Ratcheted
      <4> HIDE DEF q, r
      <4>3. Good(p, r) /\ Follows(q, r)
        BY <1>1, <4>1, <4>2, DhGood
      <4> QED
        BY <1>1, <4>1, <4>3, FollowsTrans DEF Good
    <3>2. CASE ~ IsNewDh(s, h)
      <4>1. r = s
        BY <3>2 DEF Ratcheted
      <4>2. Follows(s, s)
        BY <1>1, Order DEF Follows, Session
      <4> QED
        BY <4>1, <4>2
    <3> QED
      BY <3>1, <3>2
  <2>2. c = SkipUntil(r, h.n)
    BY DEF CaughtUp
  <2>3. c.recvCk # NoChain /\ m.ct.mk = c.recvCk
    BY <1>3 DEF Decrypts, Opens, MessageKey
  <2>4. t = [c EXCEPT !.recvCk = KdfCk(@), !.recvN = @ + 1]
    BY <1>3 DEF Decrypted
  <2> HIDE DEF r, c
  <2>5. Good(p, c) /\ Follows(r, c)
    BY <1>1, <2>1, <2>2, SkipGood
  <2>6. Follows(s, c)
    BY <1>1, <2>1, <2>5, FollowsTrans DEF Good
  <2>7. /\ Good(p, t) /\ Follows(c, t) /\ Before(c.recvCk, t.recvCk)
        /\ \A k \in DOMAIN t.skipped : t.skipped[k] # c.recvCk
    BY <2>3, <2>4, <2>5, StepGood
  <2>8. Follows(s, t)
    BY <1>1, <2>5, <2>6, <2>7, FollowsTrans DEF Good
  <2>9. ~ Before(m.ct.mk, s.recvCk)
    <3>1. NotAfter(s.recvCk, c.recvCk) /\ c.recvCk \in AnyChain
      BY <2>5, <2>6 DEF Follows, Good, Session
    <3> QED
      BY <1>1, <2>3, <3>1, Order
  <2> QED
    BY <2>3, <2>7, <2>8, <2>9
<1> QED
  BY <1>2, <1>3

LEMMA EncryptGood ==
  ASSUME NEW p \in Party, NEW s, Good(p, s), CanEncrypt(s), NEW ad \in {Label[q] : q \in Party},
         NEW text \in Party \X Nat, NEW t, t = Encrypt(s), NEW m, m = Encrypted(s, ad, text)
  PROVE  /\ Good(p, t) /\ t.recvCk = s.recvCk /\ t.skipped = s.skipped
         /\ Before(s.sendCk, t.sendCk)
         /\ m \in Message /\ m.ct.mk = s.sendCk /\ m.ct.text = text
         /\ Len(m.ct.mk.root) > 0 /\ Len(m.ct.mk.root) \in Length(p)
<1> DEFINE ck == Chain(s.sendCk.root, s.sendCk.n + 1)
<1>1. /\ s \in Session /\ s.sendCk \in AnyChain /\ s.sendCk.root \in Seq(Mixed) /\ s.sendCk.n \in Nat
      /\ s.sendN \in Nat /\ s.prevN \in Nat /\ s.self \in AnyKey /\ Len(s.sendCk.root) \in Nat
  BY DEF Good, Session, AnyChain
<1>2. ck \in AnyChain /\ ck.root = s.sendCk.root /\ ck.n = s.sendCk.n + 1
  BY <1>1, ChainIs
<1>3. t = [s EXCEPT !.sendCk = ck, !.sendN = s.sendN + 1]
  BY <1>1 DEF Encrypt, KdfCk, Session
<1>4. m = [header |-> [dh |-> s.self, prev |-> s.prevN, n |-> s.sendN],
           ct |-> [mk |-> s.sendCk, ad |-> ad, text |-> text]]
  BY DEF Encrypted, Header, Seal, MessageKey
<1>5. m \in Message /\ m.ct.mk = s.sendCk /\ m.ct.text = text
  BY <1>1, <1>4 DEF Message
<1> HIDE DEF ck
<1>6. /\ t \in Session /\ t.root = s.root /\ t.sendCk = ck /\ t.recvCk = s.recvCk
      /\ t.recvN = s.recvN /\ t.skipped = s.skipped
  <2> DEFINE n == s.sendN + 1
  <2>1. n \in Nat /\ t = [s EXCEPT !.sendCk = ck, !.sendN = n]
    BY <1>1, <1>3
  <2> HIDE DEF n
  <2>2. /\ t.root = s.root /\ t.sendCk = ck /\ t.recvCk = s.recvCk
        /\ t.recvN = s.recvN /\ t.skipped = s.skipped
    BY <1>1, <2>1 DEF Session
  <2>3. t \in Session
    BY <1>1, <1>2, <2>1 DEF Session
  <2> QED
    BY <2>2, <2>3
<1>7. s.sendCk.root = s.root /\ Len(s.root) > 0 /\ Len(s.root) \in Length(p)
  BY DEF Good, CanEncrypt
<1>8. Good(p, t)
  BY <1>2, <1>6, <1>7 DEF Good
<1>9. Before(s.sendCk, t.sendCk)
  BY <1>1, <1>2, <1>6 DEF Before
<1> QED
  BY <1>5, <1>6, <1>7, <1>8, <1>9

-----------------------------------------------------------------------------
(***************************************************************************)
(* The invariant of the pair.                                              *)
(***************************************************************************)

Typed ==
    /\ sess = [p \in Party |-> sess[p]] /\ \A p \in Party : Good(p, sess[p])
    /\ sent \in [Party -> Seq(Message)] /\ \A p \in Party : Len(sent[p]) <= MaxSend
    /\ opened \in [Party -> [1 .. MaxSend -> Nat]]

\* The keys p has sealed with, in the order of sending, all passed.
Sealed ==
    \A p \in Party :
      /\ \A i \in 1 .. Len(sent[p]) :
           /\ sent[p][i].ct.text = <<p, i>>
           /\ Len(sent[p][i].ct.mk.root) > 0 /\ Len(sent[p][i].ct.mk.root) \in Length(p)
           /\ Before(sent[p][i].ct.mk, sess[p].sendCk)
      /\ \A i, j \in 1 .. Len(sent[p]) : i < j => Before(sent[p][i].ct.mk, sent[p][j].ct.mk)

\* s has passed the key mk and does not keep it.
Gone(s, mk) == Before(mk, s.recvCk) /\ \A k \in DOMAIN s.skipped : s.skipped[k] # mk

\* A message is opened once at most, and then its key is gone.
Spent ==
    \A p \in Party : \A i \in 1 .. MaxSend :
      /\ opened[p][i] <= 1
      /\ opened[p][i] > 0 => i <= Len(sent[p]) /\ Gone(sess[Peer(p)], sent[p][i].ct.mk)

IInv == Typed /\ Sealed /\ Spent

LEMMA GoneStays ==
  ASSUME NEW s \in Session, NEW t \in Session, Follows(s, t), NEW mk \in AnyChain, Gone(s, mk)
  PROVE  Gone(t, mk)
<1>1. s.recvCk \in AnyChain /\ t.recvCk \in AnyChain
  BY DEF Session
<1>2. Before(mk, t.recvCk)
  BY <1>1, Order DEF Follows, Gone
<1> QED
  BY <1>2 DEF Follows, Gone

LEMMA Initially == Init => IInv
<1> SUFFICES ASSUME Init PROVE IInv
  OBVIOUS
<1>1. <<>> \in Buffer /\ DOMAIN <<>> = {}
  <2>1. <<>> = [k \in {} |-> k] /\ DOMAIN <<>> = {}
    OBVIOUS
  <2>2. <<>> \in [{} -> AnyChain]
    BY <2>1
  <2> QED
    BY <2>1, <2>2, InBuffer
<1>2. FirstKey \in AnyKey /\ SignedPreKey(Bob) \in AnyKey /\ NoKey \in AnyKey
  BY DEF FirstKey, SignedPreKey, NoKey, Key, AnyKey, Alice, Bob
<1>3. /\ <<Secret>> \in Seq(Mixed) /\ Len(<<Secret>>) = 1
      /\ DhOutput(FirstKey, SignedPreKey(Bob)) \in Mixed
  BY <1>2 DEF Mixed, DhOutput
<1>4. /\ Alice \in Party /\ Bob \in Party /\ Alice # Bob /\ Party = {Alice, Bob}
      /\ Peer(Alice) = Bob /\ Peer(Bob) = Alice
  BY DEF Party, Alice, Bob, Peer
<1>5. sess[Alice] = InitAsSender(Secret, SignedPreKey(Bob), FirstKey)
      /\ sess[Bob] = InitAsReceiver(Secret, SignedPreKey(Bob))
  BY <1>4 DEF Init
<1>6. Good(Alice, sess[Alice])
  <2> DEFINE rk == KdfRk(<<Secret>>, DhOutput(FirstKey, SignedPreKey(Bob)))
  <2>1. rk \in Seq(Mixed) /\ Len(rk) = 2
    BY <1>3 DEF KdfRk
  <2>2. sess[Alice] = [self |-> FirstKey, remote |-> SignedPreKey(Bob), root |-> rk,
                       sendCk |-> Chain(rk, 0), recvCk |-> NoChain,
                       sendN |-> 0, recvN |-> 0, prevN |-> 0, skipped |-> <<>>]
    BY <1>5 DEF InitAsSender
  <2> HIDE DEF rk
  <2>3. Chain(rk, 0) \in AnyChain /\ Chain(rk, 0).root = rk
    BY <2>1, ChainIs
  <2>4. sess[Alice] \in Session
    BY <1>1, <1>2, <2>1, <2>2, <2>3, NoChainFirst DEF Session
  <2>5. 2 \in Length(Alice)
    <3>1. 1 \in Nat /\ 2 = 2 * 1 + (IF Alice = Alice THEN 0 ELSE 1)
      OBVIOUS
    <3>2. \E i \in Nat : 2 = 2 * i + (IF Alice = Alice THEN 0 ELSE 1)
      BY <3>1
    <3> QED
      BY <3>2 DEF Length
  <2>6. NoChain.n = 0
    BY DEF NoChain, Chain
  <2> DEFINE ck == Chain(rk, 0)
  <2>7. ck = Chain(rk, 0)
    OBVIOUS
  <2> HIDE DEF ck
  <2>8. /\ sess[Alice].root = rk /\ sess[Alice].sendCk = Chain(rk, 0)
        /\ sess[Alice].recvCk = NoChain /\ sess[Alice].recvN = 0 /\ sess[Alice].skipped = <<>>
    <3>1. sess[Alice] = [self |-> FirstKey, remote |-> SignedPreKey(Bob), root |-> rk,
                         sendCk |-> ck, recvCk |-> NoChain,
                         sendN |-> 0, recvN |-> 0, prevN |-> 0, skipped |-> <<>>]
      BY <2>2, <2>7
    <3> QED
      BY <2>7, <3>1
  <2>9. Len(sess[Alice].root) > 0 /\ Len(sess[Alice].root) \in Length(Alice)
    <3>1. Len(sess[Alice].root) = 2
      BY <2>1, <2>8
    <3>2. Len(sess[Alice].root) > 0
      BY <3>1
    <3> QED
      BY <2>5, <3>1, <3>2
  <2>10. sess[Alice].sendCk.root = sess[Alice].root /\ sess[Alice].recvCk.n = sess[Alice].recvN
    BY <2>3, <2>6, <2>8
  <2>11. DOMAIN sess[Alice].skipped = {}
    BY <1>1, <2>8
  <2> QED
    BY <2>4, <2>8, <2>9, <2>10, <2>11 DEF Good
<1>7. Good(Bob, sess[Bob])
  <2>1. sess[Bob] = [self |-> SignedPreKey(Bob), remote |-> NoKey, root |-> <<Secret>>,
                     sendCk |-> NoChain, recvCk |-> NoChain,
                     sendN |-> 0, recvN |-> 0, prevN |-> 0, skipped |-> <<>>]
    BY <1>5 DEF InitAsReceiver
  <2>2. sess[Bob] \in Session
    BY <1>1, <1>2, <1>3, <2>1, NoChainFirst DEF Session
  <2>3. 1 \in Length(Bob)
    <3>1. 0 \in Nat /\ 1 = 2 * 0 + (IF Bob = Alice THEN 0 ELSE 1)
      BY <1>4
    <3>2. \E i \in Nat : 1 = 2 * i + (IF Bob = Alice THEN 0 ELSE 1)
      BY <3>1
    <3> QED
      BY <3>2 DEF Length
  <2>4. NoChain.n = 0
    BY DEF NoChain, Chain
  <2>5. /\ sess[Bob].root = <<Secret>> /\ sess[Bob].sendCk = NoChain /\ sess[Bob].recvCk = NoChain
        /\ sess[Bob].recvN = 0 /\ sess[Bob].skipped = <<>>
    BY <2>1
  <2>6. Len(sess[Bob].root) > 0 /\ Len(sess[Bob].root) \in Length(Bob)
    BY <1>3, <2>3, <2>5
  <2>7. DOMAIN sess[Bob].skipped = {}
    BY <1>1, <2>5
  <2> QED
    BY <2>2, <2>4, <2>5, <2>6, <2>7 DEF Good
<1>8. sent = [p \in Party |-> <<>>] /\ opened = [p \in Party |-> [i \in 1 .. MaxSend |-> 0]]
      /\ sess = [p \in Party |-> sess[p]]
  BY DEF Init
<1>9. Typed
  BY <1>4, <1>6, <1>7, <1>8, MaxSendAssumption DEF Typed
<1>10. Sealed /\ Spent
  BY <1>8 DEF Sealed, Spent
<1> QED
  BY <1>9, <1>10 DEF IInv

-----------------------------------------------------------------------------

LEMMA SendStep ==
  ASSUME IInv, NEW p \in Party, Send(p)
  PROVE  IInv'
<1> DEFINE i == Len(sent[p]) + 1
           m == Encrypted(sess[p], Label[p], <<p, i>>)
           t == Encrypt(sess[p])
<1>1. /\ sess = [q \in Party |-> sess[q]] /\ sent \in [Party -> Seq(Message)]
      /\ Good(p, sess[p]) /\ CanEncrypt(sess[p]) /\ Len(sent[p]) < MaxSend
  BY DEF IInv, Typed, Send
<1>2. sent[p] \in Seq(Message) /\ Len(sent[p]) \in Nat /\ i \in Nat /\ i <= MaxSend
  BY <1>1, MaxSendAssumption
<1>3. sent' = [sent EXCEPT ![p] = Append(sent[p], m)] /\ sess' = [sess EXCEPT ![p] = t]
      /\ opened' = opened
  BY DEF Send
<1> DEFINE ad == Label[p]
           text == <<p, i>>
           s == sess[p]
<1>4. i = Len(sent[p]) + 1 /\ t = Encrypt(s) /\ m = Encrypted(s, ad, text) /\ text = <<p, i>>
  OBVIOUS
<1>5. ad \in {Label[q] : q \in Party} /\ text \in Party \X Nat /\ Good(p, s) /\ CanEncrypt(s)
  BY <1>1, <1>2
<1>6. s = sess[p]
  OBVIOUS
<1> HIDE DEF i, m, t, ad, text, s
<1>7. /\ Good(p, t) /\ t.recvCk = s.recvCk /\ t.skipped = s.skipped
      /\ Before(s.sendCk, t.sendCk)
      /\ m \in Message /\ m.ct.mk = s.sendCk /\ m.ct.text = text
      /\ Len(m.ct.mk.root) > 0 /\ Len(m.ct.mk.root) \in Length(p)
  BY <1>4, <1>5, EncryptGood
<1>8. /\ Good(p, t) /\ t.recvCk = sess[p].recvCk /\ t.skipped = sess[p].skipped
      /\ Before(sess[p].sendCk, t.sendCk)
      /\ m \in Message /\ m.ct.mk = sess[p].sendCk /\ m.ct.text = <<p, i>>
      /\ Len(m.ct.mk.root) > 0 /\ Len(m.ct.mk.root) \in Length(p)
  BY <1>4, <1>6, <1>7
<1>9. /\ Append(sent[p], m) \in Seq(Message) /\ Len(Append(sent[p], m)) = i
      /\ Append(sent[p], m)[i] = m
      /\ \A j \in 1 .. Len(sent[p]) : Append(sent[p], m)[j] = sent[p][j] /\ sent[p][j] \in Message
  BY <1>2, <1>4, <1>8
<1>10. sess'[p] = t /\ sess' = [q \in Party |-> sess'[q]]
  BY <1>1, <1>3
<1>11. sent'[p] = Append(sent[p], m) /\ sent' \in [Party -> Seq(Message)]
  BY <1>1, <1>3, <1>9
<1>12. \A q \in Party : q # p => sess'[q] = sess[q] /\ sent'[q] = sent[q]
  BY <1>1, <1>3
<1>13. Typed'
  <2>1. ASSUME NEW q \in Party PROVE Good(q, sess'[q]) /\ Len(sent'[q]) <= MaxSend
    <3>1. CASE q = p
      BY <1>2, <1>8, <1>9, <1>10, <1>11, <3>1
    <3>2. CASE q # p
      BY <1>12, <3>2 DEF IInv, Typed
    <3> QED
      BY <3>1, <3>2
  <2> QED
    BY <1>3, <1>10, <1>11, <2>1 DEF IInv, Typed
<1>14. Sealed'
  <2>1. sess[p].sendCk \in AnyChain /\ t.sendCk \in AnyChain
    BY <1>1, <1>8 DEF Good, Session
  <2>2. NotAfter(sess[p].sendCk, t.sendCk)
    BY <1>8, <2>1, Order
  <2>3. ASSUME NEW j \in 1 .. Len(sent[p])
        PROVE  /\ Before(sent[p][j].ct.mk, m.ct.mk) /\ Before(sent[p][j].ct.mk, t.sendCk)
               /\ sent[p][j].ct.text = <<p, j>>
               /\ Len(sent[p][j].ct.mk.root) > 0 /\ Len(sent[p][j].ct.mk.root) \in Length(p)
    <3>1. sent[p][j].ct.mk \in AnyChain
      BY <1>9 DEF Message
    <3>2. Before(sent[p][j].ct.mk, sess[p].sendCk)
      BY DEF IInv, Sealed
    <3>3. Before(sent[p][j].ct.mk, t.sendCk)
      BY <2>1, <2>2, <3>1, <3>2, Order
    <3> QED
      BY <1>8, <3>2, <3>3 DEF IInv, Sealed
  <2>4. ASSUME NEW j \in 1 .. i
        PROVE  /\ sent'[p][j].ct.text = <<p, j>>
               /\ Len(sent'[p][j].ct.mk.root) > 0 /\ Len(sent'[p][j].ct.mk.root) \in Length(p)
               /\ Before(sent'[p][j].ct.mk, sess'[p].sendCk)
    <3>1. CASE j = i
      BY <1>8, <1>9, <1>10, <1>11, <3>1
    <3>2. CASE j # i
      <4>1. j \in 1 .. Len(sent[p])
        BY <1>2, <1>4, <3>2
      <4> QED
        BY <1>9, <1>10, <1>11, <2>3, <4>1
    <3> QED
      BY <3>1, <3>2
  <2>5. ASSUME NEW j \in 1 .. i, NEW k \in 1 .. i, j < k
        PROVE  Before(sent'[p][j].ct.mk, sent'[p][k].ct.mk)
    <3>1. j \in 1 .. Len(sent[p])
      BY <1>2, <1>4, <2>5
    <3>2. CASE k = i
      BY <1>9, <1>11, <2>3, <3>1, <3>2
    <3>3. CASE k # i
      <4>1. k \in 1 .. Len(sent[p])
        BY <1>2, <1>4, <3>3
      <4>2. Before(sent[p][j].ct.mk, sent[p][k].ct.mk)
        BY <2>5, <3>1, <4>1 DEF IInv, Sealed
      <4> QED
        BY <1>9, <1>11, <3>1, <4>1, <4>2
    <3> QED
      BY <3>2, <3>3
  <2> QED
    BY <1>9, <1>11, <1>12, <2>4, <2>5 DEF IInv, Sealed
<1>15. Spent'
  <2>1. SUFFICES ASSUME NEW q \in Party, NEW j \in 1 .. MaxSend
                 PROVE  /\ opened[q][j] <= 1
                        /\ opened[q][j] > 0 => /\ j <= Len(sent'[q])
                                               /\ Gone(sess'[Peer(q)], sent'[q][j].ct.mk)
    BY <1>3 DEF Spent
  <2>2. opened[q][j] <= 1
    BY DEF IInv, Spent
  <2>3. ASSUME opened[q][j] > 0
        PROVE  j <= Len(sent'[q]) /\ Gone(sess'[Peer(q)], sent'[q][j].ct.mk)
    <3>1. j <= Len(sent[q]) /\ Gone(sess[Peer(q)], sent[q][j].ct.mk)
      BY <2>3 DEF IInv, Spent
    <3>2. j <= Len(sent'[q]) /\ sent'[q][j] = sent[q][j]
      <4>1. CASE q = p
        <5>1. j \in 1 .. Len(sent[p]) /\ j <= i
          BY <1>2, <1>4, <3>1, <4>1, MaxSendAssumption
        <5> QED
          BY <1>9, <1>11, <4>1, <5>1
      <4>2. CASE q # p
        BY <1>12, <3>1, <4>2
      <4> QED
        BY <4>1, <4>2
    <3>3. /\ sess'[Peer(q)].recvCk = sess[Peer(q)].recvCk
          /\ sess'[Peer(q)].skipped = sess[Peer(q)].skipped
      <4>1. CASE Peer(q) = p
        BY <1>8, <1>10, <4>1
      <4>2. CASE Peer(q) # p
        BY <1>12, <4>2, Parties
      <4> QED
        BY <4>1, <4>2
    <3> QED
      BY <3>1, <3>2, <3>3 DEF Gone
  <2> QED
    BY <2>2, <2>3
<1> QED
  BY <1>13, <1>14, <1>15 DEF IInv

LEMMA ReceiveStep ==
  ASSUME IInv, NEW p \in Party, NEW i \in 1 .. MaxSend, Receive(p, i)
  PROVE  IInv'
<1> DEFINE q == Peer(p)
           m == sent[q][i]
           fresh == FreshKey(p)
           t == Decrypted(sess[p], m.header, fresh)
<1>1. /\ sess = [r \in Party |-> sess[r]] /\ sent \in [Party -> Seq(Message)] /\ Good(p, sess[p])
      /\ q \in Party /\ q # p /\ Peer(q) = p /\ i \in 1 .. Len(sent[q])
      /\ opened \in [Party -> [1 .. MaxSend -> Nat]]
  BY Parties DEF IInv, Typed, Receive
<1>2. m \in Message /\ m.ct.text = <<q, i>> /\ m.ct.mk \in AnyChain
  <2>1. sent[q] \in Seq(Message)
    BY <1>1
  <2>2. m \in Message
    BY <1>1, <2>1
  <2>3. m.ct.text = <<q, i>>
    BY <1>1 DEF IInv, Sealed
  <2>4. m.ct.mk \in AnyChain
    BY <2>2 DEF Message
  <2> QED
    BY <2>2, <2>3, <2>4
<1>3. CASE ~ Decrypts(sess[p], m, Label[p], fresh)
  <2>1. sess' = sess /\ sent' = sent /\ opened' = opened
    BY <1>1, <1>3 DEF Receive, Stored
  <2> QED
    BY <2>1 DEF IInv, Typed, Sealed, Spent
<1>4. CASE Decrypts(sess[p], m, Label[p], fresh)
  <2>1. /\ sess' = [sess EXCEPT ![p] = t] /\ sent' = sent
        /\ opened' = [opened EXCEPT ![q][m.ct.text[2]] = @ + 1]
    BY <1>4 DEF Receive, Stored
  <2>2. opened' = [opened EXCEPT ![q] = [opened[q] EXCEPT ![i] = opened[q][i] + 1]]
    BY <1>2, <2>1
  <2>3. fresh \in AnyKey
    <3>1. sess[p].self \in AnyKey /\ p \in {"alice", "bob"}
      BY <1>1 DEF Good, Session, Party, Alice, Bob
    <3>2. sess[p].self.no + 1 \in Nat
      BY <3>1 DEF AnyKey
    <3> QED
      BY <3>1, <3>2 DEF FreshKey, Key, AnyKey
  <2> DEFINE s == sess[p]
             ad == Label[p]
  <2>4. /\ t = Decrypted(s, m.header, fresh) /\ Good(p, s) /\ m \in Message
        /\ Decrypts(s, m, ad, fresh) /\ s = sess[p]
    BY <1>1, <1>2, <1>4
  <2> HIDE DEF fresh, t, m, s, ad
  <2>5. /\ Good(p, t) /\ Follows(s, t)
        /\ \/ ~ Before(m.ct.mk, s.recvCk)
           \/ \E k \in DOMAIN s.skipped : s.skipped[k] = m.ct.mk
        /\ Before(m.ct.mk, t.recvCk)
        /\ \A k \in DOMAIN t.skipped : t.skipped[k] # m.ct.mk
    BY <2>4, <2>3, DecryptedGood
  <2>6. /\ Good(p, t) /\ Follows(sess[p], t)
        /\ \/ ~ Before(m.ct.mk, sess[p].recvCk)
           \/ \E k \in DOMAIN sess[p].skipped : sess[p].skipped[k] = m.ct.mk
        /\ Before(m.ct.mk, t.recvCk)
        /\ \A k \in DOMAIN t.skipped : t.skipped[k] # m.ct.mk
    BY <2>4, <2>5
  <2>7. /\ sess' = [r \in Party |-> sess'[r]] /\ sess'[p] = t
        /\ \A r \in Party : r # p => sess'[r] = sess[r]
    BY <1>1, <2>1
  <2>8. opened[q][i] = 0
    <3>1. ~ Gone(sess[p], m.ct.mk)
      BY <2>6 DEF Gone
    <3>2. opened[q][i] \in Nat /\ ~ (opened[q][i] > 0)
      BY <1>1, <3>1 DEF IInv, Spent, m
    <3> QED
      BY <3>2
  <2>9. /\ opened' \in [Party -> [1 .. MaxSend -> Nat]] /\ opened'[q][i] = 1
        /\ \A r \in Party : \A j \in 1 .. MaxSend :
             r # q \/ j # i => opened'[r][j] = opened[r][j]
    <3> DEFINE row == [opened[q] EXCEPT ![i] = opened[q][i] + 1]
    <3>1. opened[q] \in [1 .. MaxSend -> Nat]
      BY <1>1
    <3>2. /\ row \in [1 .. MaxSend -> Nat] /\ row[i] = 1
          /\ \A j \in 1 .. MaxSend : j # i => row[j] = opened[q][j]
      <4> DEFINE f == opened[q]
                 D == 1 .. MaxSend
      <4>1. f \in [D -> Nat] /\ i \in D /\ row = [f EXCEPT ![i] = 1]
        BY <2>8, <3>1
      <4>2. \A j \in D : f[j] = opened[q][j]
        OBVIOUS
      <4>3. row \in [D -> Nat] /\ row[i] = 1 /\ \A j \in D : j # i => row[j] = f[j]
        <5> HIDE DEF row, f, D
        <5> QED
          BY <4>1
      <4> QED
        BY <4>3
    <3>3. opened' = [opened EXCEPT ![q] = row]
      BY <2>2
    <3> HIDE DEF row, q
    <3>4. opened' \in [Party -> [1 .. MaxSend -> Nat]] /\ opened'[q] = row
      BY <1>1, <3>2, <3>3
    <3>5. \A r \in Party : r # q => opened'[r] = opened[r]
      BY <1>1, <3>3
    <3> QED
      BY <3>2, <3>4, <3>5
  <2>10. Typed'
    BY <2>1, <2>6, <2>7, <2>9 DEF IInv, Typed
  <2>11. Sealed'
    <3>1. /\ sess[p].sendCk \in AnyChain /\ t.sendCk \in AnyChain
          /\ NotAfter(sess[p].sendCk, t.sendCk)
      BY <1>1, <2>6 DEF Good, Session, Follows
    <3>2. ASSUME NEW j \in 1 .. Len(sent[p]) PROVE Before(sent[p][j].ct.mk, t.sendCk)
      <4>1. sent[p][j].ct.mk \in AnyChain /\ Before(sent[p][j].ct.mk, sess[p].sendCk)
        <5>1. sent[p] \in Seq(Message)
          BY <1>1
        <5>2. sent[p][j] \in Message
          BY <5>1
        <5> QED
          BY <5>2 DEF IInv, Sealed, Message
      <4> QED
        BY <3>1, <4>1, Order
    <3>3. \A r \in Party : \A j \in 1 .. Len(sent[r]) : Before(sent[r][j].ct.mk, sess'[r].sendCk)
      BY <2>7, <3>2 DEF IInv, Sealed
    <3> QED
      BY <2>1, <3>3 DEF IInv, Sealed
  <2>12. Spent'
    <3>1. SUFFICES ASSUME NEW r \in Party, NEW j \in 1 .. MaxSend
                   PROVE  /\ opened'[r][j] <= 1
                          /\ opened'[r][j] > 0 => /\ j <= Len(sent[r])
                                                  /\ Gone(sess'[Peer(r)], sent[r][j].ct.mk)
      BY <2>1 DEF Spent
    <3>2. CASE r = q /\ j = i
      <4>1. Gone(t, m.ct.mk)
        BY <2>6 DEF Gone
      <4>2. sess'[Peer(r)] = t /\ sent[r][j] = m /\ j <= Len(sent[r]) /\ opened'[r][j] = 1
        BY <1>1, <2>7, <2>9, <3>2 DEF m
      <4> QED
        BY <4>1, <4>2
    <3>3. CASE r = q /\ j # i
      <4>1. opened'[r][j] = opened[r][j] /\ sess'[Peer(r)] = t /\ Peer(r) = p
        BY <1>1, <2>7, <2>9, <3>3
      <4>2. opened[r][j] <= 1
        BY DEF IInv, Spent
      <4>3. ASSUME opened[r][j] > 0 PROVE j <= Len(sent[r]) /\ Gone(t, sent[r][j].ct.mk)
        <5>1. j <= Len(sent[r]) /\ Gone(sess[p], sent[r][j].ct.mk)
          BY <4>1, <4>3 DEF IInv, Spent
        <5>2. j \in 1 .. Len(sent[r]) /\ sent[r] \in Seq(Message)
          BY <1>1, <5>1
        <5>3. sent[r][j] \in Message
          BY <5>2
        <5>4. sent[r][j].ct.mk \in AnyChain
          BY <5>3 DEF Message
        <5> QED
          BY <1>1, <2>6, <5>1, <5>4, GoneStays DEF Good
      <4> QED
        BY <4>1, <4>2, <4>3
    <3>4. CASE r # q
      <4>1. r = p /\ Peer(r) = q /\ opened'[r][j] = opened[r][j] /\ sess'[Peer(r)] = sess[Peer(r)]
        BY <1>1, <2>7, <2>9, <3>4, Parties
      <4> QED
        BY <4>1 DEF IInv, Spent
    <3> QED
      BY <3>2, <3>3, <3>4
  <2> QED
    BY <2>10, <2>11, <2>12 DEF IInv
<1> QED
  BY <1>3, <1>4

LEMMA Inductive == IInv /\ [Next]_vars => IInv'
<1>1. SUFFICES ASSUME IInv, [Next]_vars PROVE IInv'
  OBVIOUS
<1>2. CASE UNCHANGED vars
  BY <1>1, <1>2 DEF vars, IInv, Typed, Sealed, Spent
<1>3. ASSUME NEW p \in Party, Send(p) PROVE IInv'
  BY <1>1, <1>3, SendStep
<1>4. ASSUME NEW p \in Party, NEW i \in 1 .. MaxSend, Receive(p, i) PROVE IInv'
  BY <1>1, <1>4, ReceiveStep
<1> QED
  BY <1>1, <1>2, <1>3, <1>4 DEF Next

LEMMA Always == Spec => []IInv
  BY Initially, Inductive, PTL DEF Spec

LEMMA MessagesSent ==
  ASSUME IInv, NEW p \in Party, NEW m \in Sent(p)
  PROVE  \E i \in 1 .. Len(sent[p]) :
           /\ m = sent[p][i] /\ i \in 1 .. MaxSend /\ m.ct.text = <<p, i>>
           /\ m.ct.mk \in AnyChain /\ Len(m.ct.mk.root) \in Nat
           /\ Len(m.ct.mk.root) > 0 /\ Len(m.ct.mk.root) \in Length(p)
           /\ Before(m.ct.mk, sess[p].sendCk)
<1>1. PICK i \in 1 .. Len(sent[p]) : m = sent[p][i]
  BY DEF Sent
<1>2. sent[p] \in Seq(Message) /\ Len(sent[p]) <= MaxSend /\ Len(sent[p]) \in Nat
  BY DEF IInv, Typed
<1>3. m \in Message
  BY <1>1, <1>2
<1>4. m.ct.mk \in AnyChain /\ Len(m.ct.mk.root) \in Nat
  BY <1>3 DEF Message, AnyChain
<1>5. i \in 1 .. MaxSend
  BY <1>2, MaxSendAssumption
<1> QED
  BY <1>1, <1>4, <1>5 DEF IInv, Sealed

LEMMA KeysApart == IInv => FreshMessageKeys
<1>1. ASSUME IInv, NEW p \in Party, NEW q \in Party, NEW m1 \in Sent(p), NEW m2 \in Sent(q),
             m1.ct.mk = m2.ct.mk
      PROVE  m1 = m2
  <2>1. PICK i \in 1 .. Len(sent[p]) :
           m1 = sent[p][i] /\ m1.ct.mk \in AnyChain /\ Len(m1.ct.mk.root) \in Nat
           /\ Len(m1.ct.mk.root) \in Length(p)
    BY <1>1, MessagesSent
  <2>2. PICK j \in 1 .. Len(sent[q]) : m2 = sent[q][j] /\ Len(m2.ct.mk.root) \in Length(q)
    BY <1>1, MessagesSent
  <2>3. q = p
    <3>1. CASE q # p
      BY <1>1, <2>1, <2>2, <3>1, Parity, Parties
    <3> QED
      BY <3>1
  <2>4. i < j \/ j < i \/ i = j
    OBVIOUS
  <2>5. ~ Before(m1.ct.mk, m1.ct.mk)
    BY <2>1, Order
  <2>6. i = j
    BY <1>1, <2>1, <2>2, <2>3, <2>4, <2>5 DEF IInv, Sealed
  <2> QED
    BY <2>1, <2>2, <2>3, <2>6
<1> QED
  BY <1>1 DEF FreshMessageKeys

\* For any number of messages in any order, any MAX_SKIP: no two messages are
\* sealed with one message key, of one party or of both (encrypt, ratchet.rs).
THEOREM KeysAreFresh == Spec => []FreshMessageKeys
  BY KeysApart, Always, PTL

\* However often and in whatever order a message is delivered, it is opened once
\* at most (decrypt and skip_until, ratchet.rs).
THEOREM OpensOnce == Spec => []OpenedOnce
<1>1. IInv => OpenedOnce
  BY DEF IInv, Spent, OpenedOnce
<1> QED
  BY <1>1, Always, PTL

\* What either end has stored does not give back the key of a message it sent or
\* opened: neither its chains nor the keys it keeps (ratchet.rs).
THEOREM SessionsForget == Spec => []ForwardSecrecy
<1>1. ASSUME IInv, NEW p \in Party, NEW m \in Sent(p)
      PROVE  ~ Derivable(sess[p], m.ct.mk)
  <2>1. PICK i \in 1 .. Len(sent[p]) :
           /\ m.ct.mk \in AnyChain /\ Len(m.ct.mk.root) \in Nat /\ Len(m.ct.mk.root) > 0
           /\ Len(m.ct.mk.root) \in Length(p) /\ Before(m.ct.mk, sess[p].sendCk)
    BY <1>1, MessagesSent
  <2>2. /\ Good(p, sess[p]) /\ sess[p].sendCk \in AnyChain /\ sess[p].recvCk \in AnyChain
        /\ Len(sess[p].root) \in Nat /\ sess[p].recvCk.root \in Seq(Mixed)
    BY <1>1 DEF IInv, Typed, Good, Session, AnyChain
  <2>3. ~ (sess[p].sendCk.root = m.ct.mk.root /\ sess[p].sendCk.n <= m.ct.mk.n)
    BY <2>1, <2>2 DEF Before, AnyChain
  <2>4. sess[p].recvCk.root # m.ct.mk.root
    <3>1. CASE sess[p].recvCk = NoChain
      <4>1. Len(sess[p].recvCk.root) = 0
        BY <3>1 DEF NoChain, Chain
      <4> QED
        BY <2>1, <4>1
    <3>2. CASE sess[p].recvCk # NoChain
      <4>1. Len(sess[p].recvCk.root) + 1 = Len(sess[p].root) /\ Len(sess[p].recvCk.root) \in Nat
        BY <2>2, <3>2 DEF Good
      <4>2. Len(sess[p].recvCk.root) + 1 \in Length(p)
        BY <2>2, <4>1 DEF Good
      <4>3. Len(sess[p].recvCk.root) \in Length(Peer(p))
        BY <4>1, <4>2, Parity
      <4> QED
        BY <2>1, <4>3, Parity
    <3> QED
      BY <3>1, <3>2
  <2>5. \A k \in DOMAIN sess[p].skipped : sess[p].skipped[k] # m.ct.mk
    BY <2>1, <2>2, Parity DEF Good
  <2> QED
    BY <2>3, <2>4, <2>5 DEF Derivable
<1>2. ASSUME IInv, NEW p \in Party, NEW m \in Sent(p), IsOpened(m)
      PROVE  ~ Derivable(sess[Peer(p)], m.ct.mk)
  <2> DEFINE s == sess[Peer(p)]
  <2>1. PICK i \in 1 .. Len(sent[p]) :
           /\ m = sent[p][i] /\ i \in 1 .. MaxSend /\ m.ct.text = <<p, i>>
           /\ m.ct.mk \in AnyChain /\ Len(m.ct.mk.root) \in Nat /\ Len(m.ct.mk.root) > 0
           /\ Len(m.ct.mk.root) \in Length(p)
    BY <1>2, MessagesSent
  <2>2. opened[p][i] > 0
    BY <1>2, <2>1 DEF IsOpened
  <2>3. Gone(s, m.ct.mk)
    BY <1>2, <2>1, <2>2 DEF IInv, Spent
  <2>4. Good(Peer(p), s) /\ s.recvCk \in AnyChain /\ s.sendCk \in AnyChain /\ Peer(p) \in Party
    BY <1>2, Parties DEF IInv, Typed, Good, Session
  <2> HIDE DEF s
  <2>5. ~ (s.recvCk.root = m.ct.mk.root /\ s.recvCk.n <= m.ct.mk.n)
    BY <2>1, <2>3, <2>4 DEF Gone, Before, AnyChain
  <2>6. s.sendCk.root # m.ct.mk.root
    <3>1. CASE s.sendCk = NoChain
      <4>1. Len(s.sendCk.root) = 0
        BY <3>1 DEF NoChain, Chain
      <4> QED
        BY <2>1, <4>1
    <3>2. CASE s.sendCk # NoChain
      <4>1. Len(s.sendCk.root) \in Length(Peer(p))
        BY <2>4, <3>2 DEF Good
      <4> QED
        BY <2>1, <4>1, Parity
    <3> QED
      BY <3>1, <3>2
  <2>7. \A k \in DOMAIN s.skipped : s.skipped[k] # m.ct.mk
    BY <2>3 DEF Gone
  <2>8. ~ Derivable(s, m.ct.mk)
    BY <2>5, <2>6, <2>7 DEF Derivable
  <2> QED
    BY <2>8 DEF s
<1>3. IInv => ForwardSecrecy
  BY <1>1, <1>2 DEF ForwardSecrecy
<1> QED
  BY <1>3, Always, PTL

-----------------------------------------------------------------------------
(***************************************************************************)
(* What one end knows of the other's chains.                               *)
(*                                                                         *)
(* A party's sending chains are numbered by its ratchet keys.  An end is   *)
(* either level with the other's newest chain or one chain behind it; what *)
(* it makes of the other's next key is the other's newest root.  So the    *)
(* keys it keeps are those of messages that exist, and a message it has    *)
(* not passed is sealed with the key its receiving chain comes to.         *)
(***************************************************************************)

\* The length of the root of p's chain number e.
EpochLen(p, e) == 2 * e + (IF p = Alice THEN 0 ELSE 1)

LEMMA EpochLens ==
  /\ Alice # Bob /\ Peer(Alice) = Bob /\ Peer(Bob) = Alice
  /\ \A n \in Nat : /\ EpochLen(Alice, n) \in Nat /\ EpochLen(Bob, n) \in Nat
                    /\ EpochLen(Alice, n + 1) = EpochLen(Bob, n) + 1
                    /\ EpochLen(Bob, n) = EpochLen(Alice, n) + 1
<1>1. Alice # Bob /\ Peer(Alice) = Bob /\ Peer(Bob) = Alice
  BY DEF Alice, Bob, Peer
<1> QED
  BY <1>1 DEF EpochLen

Shaped(p, s) ==
    /\ s.self.owner = p /\ Len(s.root) = EpochLen(p, s.self.no)
    /\ s.remote.no + (IF p = Alice THEN 1 ELSE 0) = s.self.no
    /\ s.recvCk = NoChain <=> s.remote.no = 0
    /\ s.remote.no > 0 => s.remote.owner = Peer(p)
    /\ s.sendCk.n = s.sendN
    /\ s.sendCk # NoChain => s.self.no > 0

\* M is what p sent: the messages of its newest chain and of the one before.
Written(p, s, M) ==
    /\ \A m \in M :
         /\ m.header.dh.owner = p /\ m.header.dh.no > 0 /\ m.header.dh.no <= s.self.no
         /\ m.ct.mk.n = m.header.n /\ m.ct.ad = Label[p]
         /\ Len(m.ct.mk.root) = EpochLen(p, m.header.dh.no)
         /\ m.header.dh.no = s.self.no =>
              m.ct.mk.root = s.root /\ m.header.prev = s.prevN /\ m.header.n < s.sendN
         /\ m.header.dh.no + 1 = s.self.no => m.header.n < s.prevN
    /\ \A m1, m2 \in M : m1.header.dh.no = m2.header.dh.no /\ m1.header.n = m2.header.n => m1 = m2

Complete(s, M) ==
    /\ \A n \in Nat : n < s.sendN => \E m \in M : m.header.dh.no = s.self.no /\ m.header.n = n
    /\ \A n \in Nat : n < s.prevN => \E m \in M : m.header.dh.no + 1 = s.self.no /\ m.header.n = n

\* s receives what o sends, M.
Behind(s, o) ==
    /\ o.self.no = s.remote.no + 1
    /\ o.root = KdfRk(s.root, DhOutput(s.self, o.self)) /\ s.recvN <= o.prevN
Level(s, o) ==
    /\ o.self.no = s.remote.no
    /\ s.recvCk # NoChain => s.recvCk.root = o.root
    /\ s.recvN <= o.sendN
Linked(s, o, M) ==
    /\ Behind(s, o) \/ Level(s, o)
    /\ \A m \in M : m.header.dh.no = s.remote.no => m.ct.mk.root = s.recvCk.root

PassedBy(s, m) ==
    \/ m.header.dh.no < s.remote.no
    \/ m.header.dh.no = s.remote.no /\ m.header.n < s.recvN

\* The keys s keeps are those of the messages of U it has passed.
Gap(s, U) ==
    /\ \A m \in U : PassedBy(s, m) => /\ SkippedKey(m.header) \in DOMAIN s.skipped
                                      /\ s.skipped[SkippedKey(m.header)] = m.ct.mk
    /\ \A k \in DOMAIN s.skipped : \E m \in U : PassedBy(s, m) /\ k = SkippedKey(m.header)

LEMMA KeyIs ==
  ASSUME NEW a \in AnyKey, NEW b \in AnyKey, a.owner = b.owner, a.no = b.no
  PROVE  a = b
  BY DEF AnyKey

LEMMA MessageIs ==
  ASSUME NEW m \in Message
  PROVE  /\ m.header.dh \in AnyKey /\ m.header.dh.no \in Nat
         /\ m.header.n \in Nat /\ m.header.prev \in Nat
         /\ m.ct.mk \in AnyChain /\ m.ct.mk = Chain(m.ct.mk.root, m.ct.mk.n)
         /\ SkippedKey(m.header) = <<m.header.dh, m.header.n>>
<1>1. m.header.dh \in AnyKey /\ m.header.n \in Nat /\ m.header.prev \in Nat /\ m.ct.mk \in AnyChain
  BY DEF Message
<1>2. m.header.dh.no \in Nat
  BY <1>1 DEF AnyKey
<1>3. m.ct.mk = Chain(m.ct.mk.root, m.ct.mk.n)
  BY <1>1 DEF AnyChain, Chain
<1> QED
  BY <1>1, <1>2, <1>3 DEF SkippedKey

LEMMA SessionIs ==
  ASSUME NEW p, NEW s, Good(p, s)
  PROVE  /\ s \in Session /\ s.self \in AnyKey /\ s.remote \in AnyKey /\ s.root \in Seq(Mixed)
         /\ s.self.no \in Nat /\ s.remote.no \in Nat
         /\ s.sendCk \in AnyChain /\ s.recvCk \in AnyChain /\ s.recvCk.root \in Seq(Mixed)
         /\ s.sendN \in Nat /\ s.recvN \in Nat /\ s.prevN \in Nat
         /\ s.skipped \in Buffer /\ s.recvCk.n = s.recvN
<1>1. s \in Session /\ s.recvCk.n = s.recvN
  BY DEF Good
<1>2. s.self \in AnyKey /\ s.remote \in AnyKey /\ s.recvCk \in AnyChain
  BY <1>1 DEF Session
<1>3. s.self.no \in Nat /\ s.remote.no \in Nat /\ s.recvCk.root \in Seq(Mixed)
  BY <1>2 DEF AnyKey, AnyChain
<1> QED
  BY <1>1, <1>2, <1>3 DEF Session

\* skip_until, field by field.
LEMMA SkipFields ==
  ASSUME NEW p, NEW s, Good(p, s), NEW until \in Nat, NEW t, t = SkipUntil(s, until)
  PROVE  /\ t.self = s.self /\ t.remote = s.remote /\ t.root = s.root
         /\ t.sendCk = s.sendCk /\ t.sendN = s.sendN /\ t.prevN = s.prevN
         /\ s.recvCk = NoChain \/ until <= s.recvN => t = s
         /\ s.recvCk # NoChain /\ s.recvN < until =>
              /\ t.recvN = until /\ t.recvCk = Chain(s.recvCk.root, until)
              /\ DOMAIN t.skipped = DOMAIN s.skipped \cup {<<s.remote, i>> : i \in s.recvN .. until - 1}
              /\ \A i \in s.recvN .. until - 1 :
                   t.skipped[<<s.remote, i>>] = Chain(s.recvCk.root, i)
              /\ \A k \in DOMAIN s.skipped :
                   k \notin {<<s.remote, i>> : i \in s.recvN .. until - 1} =>
                     t.skipped[k] = s.skipped[k]
<1>1. s \in Session /\ s.recvN \in Nat /\ s.recvCk.n = s.recvN
  BY SessionIs
<1>2. CASE s.recvCk = NoChain \/ until <= s.recvN
  <2>1. t = s
    BY <1>2 DEF SkipUntil
  <2> QED
    BY <1>1, <1>2, <2>1
<1>3. CASE s.recvCk # NoChain /\ s.recvN < until
  <2> DEFINE new == {<<s.remote, i>> : i \in s.recvN .. until - 1}
             D == DOMAIN s.skipped \cup new
             root == s.recvCk.root
             buf == [k \in D |-> IF k \in new THEN Chain(root, k[2]) ELSE s.skipped[k]]
  <2>1. \A k \in new : k[2] \in Nat
    BY <1>1
  <2>2. \A n \in Nat : Chain(root, s.recvCk.n + (n - s.recvN)) = Chain(root, n)
    <3>1. \A n \in Nat : s.recvCk.n + (n - s.recvN) = n
      BY <1>1
    <3> QED
      BY <3>1
  <2>3. [k \in D |-> IF k \in new THEN MessageKey(Chain(root, s.recvCk.n + (k[2] - s.recvN)))
                     ELSE s.skipped[k]] = buf
    BY <2>1, <2>2 DEF MessageKey
  <2>4. Chain(root, s.recvCk.n + (<<s.remote, until>>[2] - s.recvN)) = Chain(root, until)
    BY <2>2
  <2>5. ~ (s.recvCk = NoChain \/ until <= s.recvN)
    BY <1>1, <1>3
  <2>6. t = [s EXCEPT !.skipped = buf, !.recvCk = Chain(root, until), !.recvN = until]
    BY <2>3, <2>4, <2>5 DEF SkipUntil
  <2>7. /\ DOMAIN buf = D /\ \A i \in s.recvN .. until - 1 : buf[<<s.remote, i>>] = Chain(root, i)
        /\ \A k \in DOMAIN s.skipped : k \notin new => buf[k] = s.skipped[k]
    OBVIOUS
  <2> HIDE DEF buf
  <2>8. /\ t.self = s.self /\ t.remote = s.remote /\ t.root = s.root
        /\ t.sendCk = s.sendCk /\ t.sendN = s.sendN /\ t.prevN = s.prevN
        /\ t.skipped = buf /\ t.recvCk = Chain(root, until) /\ t.recvN = until
    BY <1>1, <2>6 DEF Session
  <2> QED
    BY <2>5, <2>7, <2>8
<1> QED
  BY <1>1, <1>2, <1>3

\* ratchet_dh, field by field.
LEMMA DhFields ==
  ASSUME NEW s \in Session, NEW theirs \in AnyKey, NEW fresh \in AnyKey,
         NEW t, t = RatchetDh(s, theirs, fresh)
  PROVE  /\ t.self = fresh /\ t.remote = theirs
         /\ t.root = KdfRk(KdfRk(s.root, DhOutput(s.self, theirs)), DhOutput(fresh, theirs))
         /\ t.sendCk = Chain(t.root, 0) /\ t.recvCk = Chain(KdfRk(s.root, DhOutput(s.self, theirs)), 0)
         /\ t.sendN = 0 /\ t.recvN = 0 /\ t.prevN = s.sendN /\ t.skipped = s.skipped
<1> DEFINE recvRoot == KdfRk(s.root, DhOutput(s.self, theirs))
           sendRoot == KdfRk(recvRoot, DhOutput(fresh, theirs))
<1>2. t = [s EXCEPT !.self = fresh, !.remote = theirs, !.root = sendRoot,
                    !.sendCk = Chain(sendRoot, 0), !.recvCk = Chain(recvRoot, 0),
                    !.sendN = 0, !.recvN = 0, !.prevN = s.sendN]
  BY DEF RatchetDh
<1> HIDE DEF recvRoot, sendRoot
<1>3. /\ t.self = fresh /\ t.remote = theirs /\ t.root = sendRoot
      /\ t.sendCk = Chain(sendRoot, 0) /\ t.recvCk = Chain(recvRoot, 0)
      /\ t.sendN = 0 /\ t.recvN = 0 /\ t.prevN = s.sendN /\ t.skipped = s.skipped
  BY <1>2 DEF Session
<1> QED
  BY <1>3 DEF recvRoot, sendRoot

\* Skipping keeps the keys of messages that exist, and all of them.
LEMMA SkipGap ==
  ASSUME NEW p, NEW s, Good(p, s), NEW U \in SUBSET Message, Gap(s, U), NEW until \in Nat,
         \A u \in U : u.header.dh.no = s.remote.no =>
           u.header.dh = s.remote /\ u.ct.mk = Chain(s.recvCk.root, u.header.n),
         s.recvCk # NoChain =>
           \A i \in Nat : s.recvN <= i /\ i < until =>
             \E u \in U : u.header.dh = s.remote /\ u.header.n = i
  PROVE  Gap(SkipUntil(s, until), U)
<1> DEFINE t == SkipUntil(s, until)
           new == {<<s.remote, i>> : i \in s.recvN .. until - 1}
<1>1. s.recvN \in Nat /\ s.remote.no \in Nat
  BY SessionIs
<1>2. CASE s.recvCk = NoChain \/ until <= s.recvN
  <2>1. t = s
    BY <1>2, SkipFields
  <2> QED
    BY <2>1
<1>3. CASE s.recvCk # NoChain /\ s.recvN < until
  <2>1. /\ t.remote = s.remote /\ t.recvN = until
        /\ DOMAIN t.skipped = DOMAIN s.skipped \cup new
        /\ \A i \in s.recvN .. until - 1 : t.skipped[<<s.remote, i>>] = Chain(s.recvCk.root, i)
        /\ \A k \in DOMAIN s.skipped : k \notin new => t.skipped[k] = s.skipped[k]
    BY <1>3, SkipFields
  <2> HIDE DEF t
  <2>2. ASSUME NEW u \in U
        PROVE  /\ u.header.n \in Nat /\ u.header.dh.no \in Nat
               /\ SkippedKey(u.header) = <<u.header.dh, u.header.n>>
    BY MessageIs
  <2>3. ASSUME NEW u \in U, PassedBy(t, u)
        PROVE  SkippedKey(u.header) \in DOMAIN t.skipped /\ t.skipped[SkippedKey(u.header)] = u.ct.mk
    <3>1. CASE PassedBy(s, u) /\ SkippedKey(u.header) \notin new
      BY <2>1, <3>1 DEF Gap
    <3>2. CASE SkippedKey(u.header) \in new
      <4>1. PICK i \in s.recvN .. until - 1 : u.header.dh = s.remote /\ u.header.n = i
        BY <2>2, <3>2
      <4> QED
        BY <2>1, <2>2, <3>2, <4>1
    <3>3. CASE ~ PassedBy(s, u)
      <4>1. u.header.dh.no = s.remote.no /\ u.header.n \in s.recvN .. until - 1
        BY <1>1, <2>1, <2>2, <2>3, <3>3 DEF PassedBy
      <4>2. SkippedKey(u.header) \in new
        BY <2>2, <4>1
      <4> QED
        BY <3>2, <4>2
    <3> QED
      BY <3>1, <3>2, <3>3
  <2>4. ASSUME NEW u \in U, PassedBy(s, u) PROVE PassedBy(t, u)
    BY <1>1, <1>3, <2>1, <2>2, <2>4 DEF PassedBy
  <2>5. ASSUME NEW k \in DOMAIN t.skipped
        PROVE  \E u \in U : PassedBy(t, u) /\ k = SkippedKey(u.header)
    <3>1. CASE k \in DOMAIN s.skipped
      BY <2>4, <3>1 DEF Gap
    <3>2. CASE k \in new
      <4>1. PICK i \in s.recvN .. until - 1 : k = <<s.remote, i>>
        BY <3>2
      <4>2. i \in Nat /\ s.recvN <= i /\ i < until
        BY <1>1
      <4>3. PICK u \in U : u.header.dh = s.remote /\ u.header.n = i
        BY <1>3, <4>2
      <4>4. PassedBy(t, u) /\ k = SkippedKey(u.header)
        BY <2>1, <2>2, <4>1, <4>2, <4>3 DEF PassedBy
      <4> QED
        BY <4>4
    <3> QED
      BY <2>1, <3>1, <3>2
  <2>6. Gap(t, U)
    BY <2>3, <2>5 DEF Gap
  <2> QED
    BY <2>6 DEF t
<1> QED
  BY <1>1, <1>2, <1>3

\* A turn passes the messages of the chain before, which were all passed already.
LEMMA TurnGap ==
  ASSUME NEW p, NEW s, Good(p, s), NEW U \in SUBSET Message, Gap(s, U),
         NEW theirs \in AnyKey, NEW fresh \in AnyKey, theirs.no = s.remote.no + 1,
         \A u \in U : u.header.dh.no = s.remote.no => u.header.n < s.recvN
  PROVE  Gap(RatchetDh(s, theirs, fresh), U)
<1> DEFINE t == RatchetDh(s, theirs, fresh)
<1>1. t.remote = theirs /\ t.recvN = 0 /\ t.skipped = s.skipped
  <2>1. t = RatchetDh(s, theirs, fresh)
    OBVIOUS
  <2>2. s \in Session
    BY SessionIs
  <2> HIDE DEF t
  <2> QED
    BY <2>1, <2>2, DhFields
<1>2. s.recvN \in Nat /\ s.remote.no \in Nat
  BY SessionIs
<1> HIDE DEF t
<1>3. \A u \in U : u.header.n \in Nat /\ u.header.dh.no \in Nat
  BY MessageIs
<1>4. \A u \in U : PassedBy(t, u) <=> PassedBy(s, u)
  BY <1>1, <1>2, <1>3 DEF PassedBy
<1>5. Gap(t, U)
  BY <1>1, <1>4 DEF Gap
<1> QED
  BY <1>5 DEF t

\* The message at which the chain stands is passed, and opened.
LEMMA StepGap ==
  ASSUME NEW p, NEW s, Good(p, s), NEW U \in SUBSET Message, Gap(s, U),
         NEW m \in U, m.header.dh = s.remote, m.header.n = s.recvN,
         \A u \in U : u.header.dh.no = m.header.dh.no /\ u.header.n = m.header.n => u = m,
         NEW t, t.remote = s.remote, t.recvN = s.recvN + 1, t.skipped = s.skipped
  PROVE  Gap(t, U \ {m})
<1>1. s.recvN \in Nat /\ s.remote.no \in Nat
  BY SessionIs
<1>2. \A u \in U : u.header.n \in Nat /\ u.header.dh.no \in Nat
  BY MessageIs
<1>3. \A u \in U : PassedBy(t, u) <=> PassedBy(s, u) \/ u = m
  BY <1>1, <1>2 DEF PassedBy
<1>4. ~ PassedBy(s, m)
  BY <1>1 DEF PassedBy
<1> QED
  BY <1>3, <1>4 DEF Gap

\* The key that is taken out is the one of the message it opens.
LEMMA TakeGap ==
  ASSUME NEW p, NEW s, Good(p, s), NEW U \in SUBSET Message, Gap(s, U), NEW m \in Message,
         SkippedKey(m.header) \in DOMAIN s.skipped,
         \A u \in U : u.header.dh.no = m.header.dh.no /\ u.header.n = m.header.n => u = m
  PROVE  LET t == Taken(s, SkippedKey(m.header)) IN
         /\ Gap(t, U \ {m}) /\ m \in U /\ PassedBy(s, m)
         /\ t.self = s.self /\ t.remote = s.remote /\ t.root = s.root
         /\ t.sendCk = s.sendCk /\ t.recvCk = s.recvCk
         /\ t.sendN = s.sendN /\ t.recvN = s.recvN /\ t.prevN = s.prevN
<1> DEFINE key == SkippedKey(m.header)
           D == DOMAIN s.skipped \ {key}
           buf == [k \in D |-> s.skipped[k]]
           t == Taken(s, key)
<1>1. s \in Session
  BY SessionIs
<1>2. t = [s EXCEPT !.skipped = buf]
  BY DEF Taken
<1>3. DOMAIN buf = D /\ \A k \in D : buf[k] = s.skipped[k]
  OBVIOUS
<1> HIDE DEF buf
<1>4. /\ t.self = s.self /\ t.remote = s.remote /\ t.root = s.root
      /\ t.sendCk = s.sendCk /\ t.recvCk = s.recvCk
      /\ t.sendN = s.sendN /\ t.recvN = s.recvN /\ t.prevN = s.prevN /\ t.skipped = buf
  BY <1>1, <1>2 DEF Session
<1>5. \A u \in U : SkippedKey(u.header) = key => u = m
  BY MessageIs
<1>6. m \in U /\ PassedBy(s, m)
  BY <1>5 DEF Gap
<1> HIDE DEF t
<1>7. \A u \in U : PassedBy(t, u) <=> PassedBy(s, u)
  BY <1>4 DEF PassedBy
<1>8. Gap(t, U \ {m})
  BY <1>3, <1>4, <1>5, <1>7 DEF Gap
<1> QED
  BY <1>4, <1>6, <1>8 DEF t

\* What a session p of a pair knows of its peer's, o, which has sent M; U is what
\* of it p has not opened.
Knows(p, s, o, M, U) ==
    /\ Good(p, s) /\ Good(Peer(p), o) /\ M \in SUBSET Message
    /\ Shaped(p, s) /\ Shaped(Peer(p), o) /\ Written(Peer(p), o, M) /\ Complete(o, M)
    /\ Linked(s, o, M) /\ U \subseteq M /\ Gap(s, U) /\ \A u \in M \ U : PassedBy(s, u)

\* A message that is not passed is on the receiving chain or on the next one.
LEMMA NotPassed ==
  ASSUME NEW p \in Party, NEW s, NEW o, NEW M, NEW U, Knows(p, s, o, M, U),
         NEW m \in M, ~ PassedBy(s, m)
  PROVE  \/ /\ m.header.dh.no = s.remote.no /\ m.header.dh = s.remote
            /\ s.recvCk # NoChain /\ s.recvN <= m.header.n
         \/ /\ m.header.dh.no = s.remote.no + 1 /\ m.header.dh # s.remote
            /\ Behind(s, o) /\ m.header.dh = o.self
<1>1. /\ m \in Message /\ m.header.dh \in AnyKey /\ m.header.dh.no \in Nat /\ m.header.n \in Nat
      /\ m.header.dh.owner = Peer(p) /\ m.header.dh.no > 0 /\ m.header.dh.no <= o.self.no
  BY MessageIs DEF Knows, Written
<1>2. /\ s.remote \in AnyKey /\ s.remote.no \in Nat /\ s.recvN \in Nat
      /\ o.self \in AnyKey /\ o.self.no \in Nat /\ o.self.owner = Peer(p)
  BY SessionIs DEF Knows, Shaped
<1>3. o.self.no <= s.remote.no + 1
  BY <1>2 DEF Knows, Linked, Behind, Level
<1>4. CASE m.header.dh.no = s.remote.no
  <2>1. s.recvCk # NoChain /\ s.remote.owner = Peer(p)
    BY <1>1, <1>4 DEF Knows, Shaped
  <2>2. m.header.dh = s.remote
    BY <1>1, <1>2, <1>4, <2>1, KeyIs
  <2>3. s.recvN <= m.header.n
    BY <1>1, <1>2, <1>4 DEF PassedBy
  <2> QED
    BY <1>4, <2>1, <2>2, <2>3
<1>5. CASE m.header.dh.no # s.remote.no
  <2>1. m.header.dh.no = s.remote.no + 1 /\ o.self.no = m.header.dh.no
    BY <1>1, <1>2, <1>3, <1>5 DEF PassedBy
  <2>2. m.header.dh = o.self
    BY <1>1, <1>2, <2>1, KeyIs
  <2>3. Behind(s, o)
    BY <1>2, <2>1 DEF Knows, Linked, Level
  <2> QED
    BY <1>5, <2>1, <2>2, <2>3
<1> QED
  BY <1>4, <1>5

\* A chain of the peer's that is p's receiving chain: every message p would skip
\* exists and was not opened.
LEMMA SkipsReal ==
  ASSUME NEW p \in Party, NEW s, NEW o, NEW M, NEW U, Knows(p, s, o, M, U), s.recvCk # NoChain,
         NEW until \in Nat,
         \/ o.self.no = s.remote.no /\ until <= o.sendN
         \/ o.self.no = s.remote.no + 1 /\ until <= o.prevN
  PROVE  Gap(SkipUntil(s, until), U)
<1>1. /\ s.remote \in AnyKey /\ s.remote.no \in Nat /\ s.recvN \in Nat /\ s.remote.no > 0
      /\ s.remote.owner = Peer(p) /\ o.self.no \in Nat /\ o.sendN \in Nat /\ o.prevN \in Nat
  BY SessionIs DEF Knows, Shaped
<1>2. ASSUME NEW u \in U
      PROVE  /\ u.header.dh \in AnyKey /\ u.header.dh.no \in Nat /\ u.header.n \in Nat
             /\ u.header.dh.owner = Peer(p)
             /\ u.ct.mk = Chain(u.ct.mk.root, u.header.n)
             /\ u.header.dh.no = s.remote.no => u.ct.mk.root = s.recvCk.root
  <2>1. u \in M /\ u \in Message
    BY DEF Knows
  <2> QED
    BY <2>1, MessageIs DEF Knows, Written, Linked
<1>3. \A u \in U : u.header.dh.no = s.remote.no =>
        u.header.dh = s.remote /\ u.ct.mk = Chain(s.recvCk.root, u.header.n)
  BY <1>1, <1>2, KeyIs
<1>4. ASSUME NEW i \in Nat, s.recvN <= i, i < until
      PROVE  \E u \in U : u.header.dh = s.remote /\ u.header.n = i
  <2>1. \E m \in M : m.header.dh.no = s.remote.no /\ m.header.n = i
    <3>1. CASE o.self.no = s.remote.no /\ until <= o.sendN
      <4>1. i < o.sendN
        BY <1>1, <1>4, <3>1
      <4> QED
        BY <3>1, <4>1 DEF Knows, Complete
    <3>2. CASE o.self.no = s.remote.no + 1 /\ until <= o.prevN
      <4>1. i < o.prevN
        BY <1>1, <1>4, <3>2
      <4>2. PICK m \in M : m.header.dh.no + 1 = o.self.no /\ m.header.n = i
        BY <4>1 DEF Knows, Complete
      <4>3. m.header.dh.no \in Nat
        BY MessageIs DEF Knows
      <4> QED
        BY <1>1, <3>2, <4>2, <4>3
    <3> QED
      BY <3>1, <3>2
  <2>2. PICK m \in M : m.header.dh.no = s.remote.no /\ m.header.n = i
    BY <2>1
  <2>3. ~ PassedBy(s, m)
    BY <1>1, <1>4, <2>2 DEF PassedBy
  <2>4. m \in U
    BY <2>3 DEF Knows
  <2> QED
    BY <1>3, <2>2, <2>4
<1>5. U \in SUBSET Message
  BY DEF Knows
<1>6. Good(p, s) /\ Gap(s, U)
  BY DEF Knows
<1> QED
  BY <1>3, <1>4, <1>5, <1>6, SkipGap

\* A session c that stands at m, having kept what it passed on the way.
Stands(c, m, U) ==
    /\ c.recvCk # NoChain /\ c.recvCk = m.ct.mk /\ c.remote = m.header.dh
    /\ c.recvN = m.header.n /\ Gap(c, U)

\* On its own chain: skip to the message.
LEMMA CatchesUp ==
  ASSUME NEW p \in Party, NEW s, NEW o, NEW M, NEW U, Knows(p, s, o, M, U),
         NEW m \in M, ~ PassedBy(s, m), m.header.dh = s.remote,
         NEW c, c = SkipUntil(s, m.header.n)
  PROVE  /\ Stands(c, m, U) /\ c.self = s.self /\ c.root = s.root
         /\ c.sendCk = s.sendCk /\ c.sendN = s.sendN /\ c.prevN = s.prevN
<1> DEFINE n == m.header.n
<1>1. /\ m \in Message /\ n \in Nat /\ m.ct.mk \in AnyChain
      /\ m.ct.mk = Chain(m.ct.mk.root, n) /\ m.header.dh.no <= o.self.no
      /\ m.ct.mk.root = s.recvCk.root
  <2>1. m \in Message
    BY DEF Knows
  <2> QED
    BY <2>1, MessageIs DEF Knows, Written, Linked
<1>2. Good(p, s) /\ s.recvN \in Nat /\ s.remote.no \in Nat /\ s.recvCk \in AnyChain
      /\ s.recvCk.n = s.recvN
  BY SessionIs DEF Knows
<1>3. s.recvCk # NoChain /\ s.recvN <= n
  BY NotPassed
<1>4. Gap(c, U)
  <2>1. \/ o.self.no = s.remote.no /\ n <= o.sendN
        \/ o.self.no = s.remote.no + 1 /\ n <= o.prevN
    <3>1. o.self.no \in Nat /\ o.sendN \in Nat /\ o.prevN \in Nat
      BY SessionIs DEF Knows
    <3>2. CASE o.self.no = s.remote.no
      <4>1. n < o.sendN
        BY <3>2 DEF Knows, Written
      <4> QED
        BY <1>1, <3>1, <3>2, <4>1
    <3>3. CASE o.self.no = s.remote.no + 1
      <4>1. n < o.prevN
        BY <3>3 DEF Knows, Written
      <4> QED
        BY <1>1, <3>1, <3>3, <4>1
    <3> QED
      BY <3>2, <3>3 DEF Knows, Linked, Behind, Level
  <2> QED
    BY <1>1, <1>3, <2>1, SkipsReal
<1>5. /\ c.self = s.self /\ c.remote = s.remote /\ c.root = s.root
      /\ c.sendCk = s.sendCk /\ c.sendN = s.sendN /\ c.prevN = s.prevN
      /\ n <= s.recvN => c = s
      /\ s.recvN < n => c.recvN = n /\ c.recvCk = Chain(s.recvCk.root, n)
  BY <1>1, <1>2, <1>3, SkipFields
<1>6. c.recvN = n /\ c.recvCk = m.ct.mk
  <2>1. CASE s.recvN < n
    BY <1>1, <1>5, <2>1
  <2>2. CASE ~ (s.recvN < n)
    <3>1. n = s.recvN /\ c = s
      BY <1>1, <1>2, <1>3, <1>5, <2>2
    <3>2. s.recvCk = Chain(s.recvCk.root, n)
      BY <1>2, <3>1 DEF AnyChain, Chain
    <3> QED
      BY <1>1, <3>1, <3>2
  <2> QED
    BY <2>1, <2>2
<1>7. m.ct.mk # NoChain
  <2>1. Len(m.ct.mk.root) = EpochLen(Peer(p), m.header.dh.no) /\ m.header.dh.no > 0
    BY DEF Knows, Written
  <2>2. Len(m.ct.mk.root) # 0
    BY <2>1, <1>1, MessageIs DEF EpochLen
  <2> QED
    BY <2>2 DEF NoChain, Chain
<1> QED
  BY <1>4, <1>5, <1>6, <1>7 DEF Stands

\* On the next chain: finish the old one, turn, and skip to the message.
LEMMA TurnsTo ==
  ASSUME NEW p \in Party, NEW s, NEW o, NEW M, NEW U, Knows(p, s, o, M, U),
         NEW m \in M, ~ PassedBy(s, m), m.header.dh # s.remote, NEW fresh \in AnyKey,
         NEW r, r = RatchetDh(SkipUntil(s, m.header.prev), m.header.dh, fresh),
         NEW c, c = SkipUntil(r, m.header.n)
  PROVE  /\ Stands(c, m, U) /\ c.self = fresh /\ c.root = KdfRk(o.root, DhOutput(fresh, o.self))
         /\ c.sendCk = Chain(c.root, 0) /\ c.sendN = 0 /\ c.prevN = s.sendN
         /\ r.recvN = 0 /\ m.header.dh = o.self /\ m.header.dh.no = s.remote.no + 1
<1> DEFINE n == m.header.n
           k == SkipUntil(s, m.header.prev)
<1>1. /\ m \in Message /\ m.header.dh \in AnyKey /\ n \in Nat /\ m.header.prev \in Nat
      /\ m.ct.mk = Chain(m.ct.mk.root, n)
  <2>1. m \in Message
    BY DEF Knows
  <2> QED
    BY <2>1, MessageIs DEF Knows, Written
<1>2. /\ m.header.dh.no = s.remote.no + 1 /\ m.header.dh = o.self /\ Behind(s, o)
  BY NotPassed
<1>3. /\ o.self.no = s.remote.no + 1 /\ o.root = KdfRk(s.root, DhOutput(s.self, o.self))
      /\ s.recvN <= o.prevN
  BY <1>2 DEF Behind
<1>4. /\ m.ct.mk.root = o.root /\ m.header.prev = o.prevN /\ n < o.sendN
  BY <1>2, <1>3 DEF Knows, Written
<1>5. /\ Good(p, s) /\ s.recvN \in Nat /\ s.remote.no \in Nat
      /\ o.sendN \in Nat /\ o.prevN \in Nat /\ o.root \in Seq(Mixed)
  BY SessionIs DEF Knows
<1>6. U \in SUBSET Message /\ \A u \in U : u \in M
  BY DEF Knows
<1>7. Good(p, k) /\ k.self = s.self /\ k.root = s.root /\ k.sendN = s.sendN
      /\ k.remote = s.remote
  <2>1. Good(p, k)
    BY <1>1, <1>5, SkipGood
  <2> QED
    BY <1>1, <1>5, <2>1, SkipFields
<1>8. Gap(k, U) /\ \A u \in U : u.header.dh.no = s.remote.no => u.header.n < k.recvN
  <2>1. CASE s.recvCk = NoChain
    <3>1. k = s /\ s.remote.no = 0
      BY <1>1, <1>5, <2>1, SkipFields DEF Knows, Shaped
    <3>2. \A u \in U : u.header.dh.no # 0
      BY <1>6 DEF Knows, Written
    <3> QED
      BY <3>1, <3>2 DEF Knows
  <2>2. CASE s.recvCk # NoChain
    <3>1. o.self.no = s.remote.no + 1 /\ m.header.prev <= o.prevN
      BY <1>3, <1>4, <1>5
    <3>2. Gap(k, U)
      BY <1>1, <2>2, <3>1, SkipsReal
    <3>3. k.recvN \in Nat /\ o.prevN <= k.recvN
      <4>1. CASE m.header.prev <= s.recvN
        <5>1. k = s
          BY <1>1, <1>5, <4>1, SkipFields
        <5> QED
          BY <1>4, <1>5, <4>1, <5>1
      <4>2. CASE s.recvN < m.header.prev
        <5>1. k.recvN = m.header.prev
          BY <1>1, <1>5, <2>2, <4>2, SkipFields
        <5> QED
          BY <1>4, <1>5, <5>1
      <4> QED
        BY <1>1, <1>5, <4>1, <4>2
    <3>4. ASSUME NEW u \in U, u.header.dh.no = s.remote.no PROVE u.header.n < k.recvN
      <4>1. u.header.n < o.prevN
        BY <1>3, <1>6, <3>4 DEF Knows, Written
      <4>2. u.header.n \in Nat
        BY <1>6, MessageIs
      <4> QED
        BY <1>5, <3>3, <4>1, <4>2
    <3> QED
      BY <3>2, <3>4
  <2> QED
    BY <2>1, <2>2
<1> HIDE DEF k
<1>9. r = RatchetDh(k, m.header.dh, fresh)
  BY DEF k
<1>10. /\ r.self = fresh /\ r.remote = m.header.dh
       /\ r.root = KdfRk(o.root, DhOutput(fresh, o.self))
       /\ r.sendCk = Chain(r.root, 0) /\ r.recvCk = Chain(o.root, 0)
       /\ r.sendN = 0 /\ r.recvN = 0 /\ r.prevN = s.sendN
  <2>1. k \in Session
    BY <1>7, SessionIs
  <2>2. /\ r.self = fresh /\ r.remote = m.header.dh
        /\ r.root = KdfRk(KdfRk(k.root, DhOutput(k.self, m.header.dh)), DhOutput(fresh, m.header.dh))
        /\ r.sendCk = Chain(r.root, 0)
        /\ r.recvCk = Chain(KdfRk(k.root, DhOutput(k.self, m.header.dh)), 0)
        /\ r.sendN = 0 /\ r.recvN = 0 /\ r.prevN = k.sendN
    BY <1>1, <1>9, <2>1, DhFields
  <2>3. KdfRk(k.root, DhOutput(k.self, m.header.dh)) = o.root
    BY <1>2, <1>3, <1>7
  <2> QED
    BY <1>2, <1>7, <2>2, <2>3
<1>11. Good(p, r)
  BY <1>1, <1>7, <1>9, DhGood
<1>12. Gap(r, U)
  BY <1>1, <1>2, <1>6, <1>7, <1>8, <1>9, TurnGap
<1>13. \A u \in U : u.header.dh.no = r.remote.no =>
         u.header.dh = r.remote /\ u.ct.mk = Chain(r.recvCk.root, u.header.n)
  <2> SUFFICES ASSUME NEW u \in U, u.header.dh.no = r.remote.no
               PROVE  u.header.dh = r.remote /\ u.ct.mk = Chain(r.recvCk.root, u.header.n)
    OBVIOUS
  <2>1. u \in M /\ u \in Message /\ m \in Message
    BY <1>6, <1>1
  <2>2. u.header.dh.owner = Peer(p) /\ m.header.dh.owner = Peer(p)
    BY <2>1 DEF Knows, Written
  <2>3. u.header.dh = r.remote
    BY <1>10, <2>1, <2>2, MessageIs, KeyIs
  <2>4. u.ct.mk.root = o.root /\ u.ct.mk.n = u.header.n
    BY <1>2, <1>10, <2>1 DEF Knows, Written
  <2>5. r.recvCk.root = o.root
    BY <1>10 DEF Chain
  <2> QED
    BY <2>1, <2>3, <2>4, <2>5, MessageIs
<1>14. ASSUME NEW i \in Nat, r.recvN <= i, i < n
       PROVE  \E u \in U : u.header.dh = r.remote /\ u.header.n = i
  <2>1. i < o.sendN
    BY <1>1, <1>4, <1>5, <1>14
  <2>2. PICK u \in M : u.header.dh.no = o.self.no /\ u.header.n = i
    BY <2>1 DEF Knows, Complete
  <2>3. ~ PassedBy(s, u)
    BY <1>3, <1>5, <2>2 DEF PassedBy
  <2>4. u \in U
    BY <2>3 DEF Knows
  <2> QED
    BY <1>2, <1>10, <1>13, <2>2, <2>4
<1>15. Gap(c, U)
  BY <1>1, <1>6, <1>11, <1>12, <1>13, <1>14, SkipGap
<1>16. r.recvCk # NoChain /\ Len(o.root) # 0
  <2>1. Len(o.root) # 0
    BY <1>5 DEF Knows, Good
  <2>2. r.recvCk.root = o.root /\ NoChain.root = <<>> /\ Len(NoChain.root) = 0
    BY <1>10 DEF NoChain, Chain
  <2> QED
    BY <2>1, <2>2
<1>17. /\ c.self = r.self /\ c.remote = r.remote /\ c.root = r.root
       /\ c.sendCk = r.sendCk /\ c.sendN = r.sendN /\ c.prevN = r.prevN
       /\ n <= r.recvN => c = r
       /\ r.recvN < n => c.recvN = n /\ c.recvCk = Chain(r.recvCk.root, n)
  BY <1>1, <1>11, <1>16, SkipFields
<1>18. c.recvN = n /\ c.recvCk = m.ct.mk
  <2>1. r.recvCk.root = o.root
    BY <1>10 DEF Chain
  <2>2. CASE r.recvN < n
    BY <1>1, <1>4, <1>17, <2>1, <2>2
  <2>3. CASE ~ (r.recvN < n)
    <3>1. n = 0 /\ c = r
      BY <1>1, <1>10, <1>17, <2>3
    <3> QED
      BY <1>1, <1>4, <1>10, <3>1
  <2> QED
    BY <2>2, <2>3
<1>19. c.recvCk # NoChain
  <2>1. c.recvCk.root = o.root /\ NoChain.root = <<>> /\ Len(NoChain.root) = 0
    BY <1>1, <1>4, <1>18 DEF NoChain, Chain
  <2> QED
    BY <1>16, <2>1
<1> QED
  BY <1>2, <1>10, <1>15, <1>17, <1>18, <1>19 DEF Stands

\* encrypt, field by field.
LEMMA EncryptFields ==
  ASSUME NEW p, NEW s, Good(p, s), NEW ad, NEW text,
         NEW t, t = Encrypt(s), NEW m, m = Encrypted(s, ad, text)
  PROVE  /\ t.self = s.self /\ t.remote = s.remote /\ t.root = s.root /\ t.recvCk = s.recvCk
         /\ t.recvN = s.recvN /\ t.prevN = s.prevN /\ t.skipped = s.skipped
         /\ t.sendN = s.sendN + 1 /\ t.sendCk.n = s.sendCk.n + 1
         /\ m.header.dh = s.self /\ m.header.prev = s.prevN /\ m.header.n = s.sendN
         /\ m.ct.mk = s.sendCk /\ m.ct.ad = ad
<1> DEFINE ck == Chain(s.sendCk.root, s.sendCk.n + 1)
           n == s.sendN + 1
<1>1. s \in Session
  BY SessionIs
<1>2. t = [s EXCEPT !.sendCk = ck, !.sendN = n]
  BY <1>1 DEF Encrypt, KdfCk, Session
<1>3. ck.n = s.sendCk.n + 1
  BY DEF Chain
<1> HIDE DEF ck, n
<1>4. /\ t.self = s.self /\ t.remote = s.remote /\ t.root = s.root /\ t.recvCk = s.recvCk
      /\ t.recvN = s.recvN /\ t.prevN = s.prevN /\ t.skipped = s.skipped
      /\ t.sendN = n /\ t.sendCk = ck
  BY <1>1, <1>2 DEF Session
<1>5. /\ m.header.dh = s.self /\ m.header.prev = s.prevN /\ m.header.n = s.sendN
      /\ m.ct.mk = s.sendCk /\ m.ct.ad = ad
  BY DEF Encrypted, Header, Seal, MessageKey
<1> QED
  BY <1>3, <1>4, <1>5 DEF n

\* What the peer q of p knows, after p has sealed one more message.
LEMMA SealedKnown ==
  ASSUME NEW p \in Party, NEW q \in Party, q = Peer(p), NEW s, NEW o, NEW M, NEW U,
         Knows(q, o, s, M, U), CanEncrypt(s), NEW text \in Party \X Nat,
         NEW t, t = Encrypt(s), NEW m, m = Encrypted(s, Label[p], text)
  PROVE  Knows(q, o, t, M \cup {m}, U \cup {m})
<1>1. Peer(q) = p /\ Good(p, s) /\ Good(q, o)
  BY Parties DEF Knows
<1>2. Good(p, t) /\ m \in Message
  BY <1>1, EncryptGood
<1>3. /\ t.self = s.self /\ t.remote = s.remote /\ t.root = s.root /\ t.recvCk = s.recvCk
      /\ t.recvN = s.recvN /\ t.prevN = s.prevN
      /\ t.sendN = s.sendN + 1 /\ t.sendCk.n = s.sendCk.n + 1
      /\ m.header.dh = s.self /\ m.header.prev = s.prevN /\ m.header.n = s.sendN
      /\ m.ct.mk = s.sendCk /\ m.ct.ad = Label[p]
  BY <1>1, EncryptFields
<1>4. /\ s.self.no \in Nat /\ s.sendN \in Nat /\ s.prevN \in Nat /\ s.remote.no \in Nat
      /\ o.recvN \in Nat /\ o.remote.no \in Nat
  BY <1>1, SessionIs
<1>5. /\ s.self.owner = p /\ s.sendCk # NoChain /\ s.self.no > 0 /\ s.sendCk.n = s.sendN
      /\ s.sendCk.root = s.root /\ Len(s.root) = EpochLen(p, s.self.no)
  BY <1>1 DEF Knows, Shaped, CanEncrypt, Good
<1>6. Shaped(p, t)
  <2>1. t.sendCk.n = t.sendN
    BY <1>3, <1>5
  <2>2. Shaped(p, s)
    BY <1>1 DEF Knows
  <2> QED
    BY <1>3, <1>5, <2>1, <2>2 DEF Shaped
<1>7. ASSUME NEW u \in M
      PROVE  /\ u.header.dh.no \in Nat /\ u.header.n \in Nat
             /\ u.header.dh.owner = p /\ u.header.dh.no > 0 /\ u.header.dh.no <= s.self.no
             /\ u.ct.mk.n = u.header.n /\ u.ct.ad = Label[p]
             /\ Len(u.ct.mk.root) = EpochLen(p, u.header.dh.no)
             /\ u.header.dh.no = s.self.no =>
                  u.ct.mk.root = s.root /\ u.header.prev = s.prevN /\ u.header.n < s.sendN
             /\ u.header.dh.no + 1 = s.self.no => u.header.n < s.prevN
  BY <1>1, MessageIs DEF Knows, Written
<1>8. Written(p, t, M \cup {m})
  <2>1. ASSUME NEW u \in M \cup {m}
        PROVE  /\ u.header.dh.owner = p /\ u.header.dh.no > 0 /\ u.header.dh.no <= t.self.no
               /\ u.ct.mk.n = u.header.n /\ u.ct.ad = Label[p]
               /\ Len(u.ct.mk.root) = EpochLen(p, u.header.dh.no)
               /\ u.header.dh.no = t.self.no =>
                    u.ct.mk.root = t.root /\ u.header.prev = t.prevN /\ u.header.n < t.sendN
               /\ u.header.dh.no + 1 = t.self.no => u.header.n < t.prevN
    <3>1. CASE u \in M
      <4>1. /\ u.header.dh.owner = p /\ u.header.dh.no > 0 /\ u.header.dh.no <= t.self.no
            /\ u.ct.mk.n = u.header.n /\ u.ct.ad = Label[p]
            /\ Len(u.ct.mk.root) = EpochLen(p, u.header.dh.no)
        BY <1>3, <1>7, <3>1
      <4>2. u.header.dh.no = t.self.no =>
              u.ct.mk.root = t.root /\ u.header.prev = t.prevN /\ u.header.n < t.sendN
        <5>1. SUFFICES ASSUME u.header.dh.no = t.self.no
                       PROVE  u.ct.mk.root = t.root /\ u.header.prev = t.prevN /\ u.header.n < t.sendN
          OBVIOUS
        <5>2. u.ct.mk.root = s.root /\ u.header.prev = s.prevN /\ u.header.n < s.sendN
          BY <1>3, <1>7, <3>1, <5>1
        <5>3. u.header.n < s.sendN + 1
          BY <1>4, <1>7, <3>1, <5>2
        <5> QED
          BY <1>3, <5>2, <5>3
      <4>3. u.header.dh.no + 1 = t.self.no => u.header.n < t.prevN
        BY <1>3, <1>7, <3>1
      <4> QED
        BY <4>1, <4>2, <4>3
    <3>2. CASE u = m
      <4>1. u.header.dh = t.self /\ u.header.n = s.sendN /\ u.ct.mk = s.sendCk
        BY <1>3, <3>2
      <4>2. /\ u.header.dh.owner = p /\ u.header.dh.no > 0 /\ u.header.dh.no <= t.self.no
            /\ u.ct.mk.n = u.header.n /\ u.ct.ad = Label[p]
        BY <1>3, <1>4, <1>5, <3>2, <4>1
      <4>3. Len(u.ct.mk.root) = EpochLen(p, u.header.dh.no)
        BY <1>3, <1>5, <4>1
      <4>4. u.ct.mk.root = t.root /\ u.header.prev = t.prevN /\ u.header.n < t.sendN
        BY <1>3, <1>4, <1>5, <3>2, <4>1
      <4>5. ~ (u.header.dh.no + 1 = t.self.no)
        BY <1>3, <1>4, <4>1
      <4> QED
        BY <4>2, <4>3, <4>4, <4>5
    <3> QED
      BY <3>1, <3>2
  <2>2. \A u \in M : ~ (u.header.dh.no = m.header.dh.no /\ u.header.n = m.header.n)
    BY <1>3, <1>4, <1>7
  <2>3. \A u1, u2 \in M : u1.header.dh.no = u2.header.dh.no /\ u1.header.n = u2.header.n => u1 = u2
    BY <1>1 DEF Knows, Written
  <2>4. \A u1, u2 \in M \cup {m} :
          u1.header.dh.no = u2.header.dh.no /\ u1.header.n = u2.header.n => u1 = u2
    BY <2>2, <2>3
  <2> QED
    BY <2>1, <2>4 DEF Written
<1>9. Complete(t, M \cup {m})
  <2>1. Complete(s, M)
    BY DEF Knows
  <2>2. ASSUME NEW n \in Nat, n < t.sendN
        PROVE  \E u \in M \cup {m} : u.header.dh.no = t.self.no /\ u.header.n = n
    <3>1. CASE n < s.sendN
      BY <1>3, <2>1, <3>1 DEF Complete
    <3>2. CASE ~ (n < s.sendN)
      <4>1. n = s.sendN
        BY <1>3, <1>4, <2>2, <3>2
      <4> QED
        BY <1>3, <4>1
    <3> QED
      BY <3>1, <3>2
  <2>3. \A n \in Nat : n < t.prevN =>
          \E u \in M \cup {m} : u.header.dh.no + 1 = t.self.no /\ u.header.n = n
    BY <1>3, <2>1 DEF Complete
  <2> QED
    BY <2>2, <2>3 DEF Complete
<1>10. Behind(o, s) \/ Level(o, s)
  BY DEF Knows, Linked
<1>11. ~ PassedBy(o, m)
  <2>1. CASE Behind(o, s)
    BY <1>3, <1>4, <2>1 DEF Behind, PassedBy
  <2>2. CASE Level(o, s)
    BY <1>3, <1>4, <2>2 DEF Level, PassedBy
  <2> QED
    BY <1>10, <2>1, <2>2
<1>12. Linked(o, t, M \cup {m})
  <2>1. Behind(o, t) \/ Level(o, t)
    <3>1. CASE Behind(o, s)
      BY <1>3, <3>1 DEF Behind
    <3>2. CASE Level(o, s)
      BY <1>3, <1>4, <3>2 DEF Level
    <3> QED
      BY <1>10, <3>1, <3>2
  <2>2. m.header.dh.no = o.remote.no => m.ct.mk.root = o.recvCk.root
    <3> SUFFICES ASSUME m.header.dh.no = o.remote.no PROVE m.ct.mk.root = o.recvCk.root
      OBVIOUS
    <3>1. Level(o, s)
      BY <1>3, <1>4, <1>10 DEF Behind
    <3>2. o.recvCk # NoChain
      BY <1>1, <1>3, <1>5 DEF Knows, Shaped
    <3> QED
      BY <1>3, <1>5, <3>1, <3>2 DEF Level
  <2>3. \A u \in M : u.header.dh.no = o.remote.no => u.ct.mk.root = o.recvCk.root
    BY DEF Knows, Linked
  <2> QED
    BY <2>1, <2>2, <2>3 DEF Linked
<1>13. Gap(o, U \cup {m})
  BY <1>11 DEF Knows, Gap
<1>14. U \cup {m} \subseteq M \cup {m} /\ \A u \in (M \cup {m}) \ (U \cup {m}) : PassedBy(o, u)
  BY DEF Knows
<1>15. M \cup {m} \in SUBSET Message /\ Shaped(q, o)
  BY <1>2 DEF Knows
<1> QED
  BY <1>1, <1>2, <1>6, <1>8, <1>9, <1>12, <1>13, <1>14, <1>15 DEF Knows

\* A change of p's session that leaves its receiving side and its keys alone.
LEMMA KnowsStill ==
  ASSUME NEW p \in Party, NEW s, NEW o, NEW N, NEW V, Knows(p, s, o, N, V),
         NEW t, Good(p, t), Shaped(p, t),
         t.self = s.self, t.remote = s.remote, t.root = s.root, t.recvCk = s.recvCk,
         t.recvN = s.recvN, t.skipped = s.skipped
  PROVE  Knows(p, t, o, N, V)
<1>1. Linked(t, o, N)
  BY DEF Knows, Linked, Behind, Level
<1>2. \A u : PassedBy(t, u) <=> PassedBy(s, u)
  BY DEF PassedBy
<1>3. Gap(t, V)
  BY <1>2 DEF Knows, Gap
<1> QED
  BY <1>1, <1>2, <1>3 DEF Knows

\* What one has passed lies before one's receiving chain.
LEMMA PassedIsBefore ==
  ASSUME NEW p \in Party, NEW s, NEW o, NEW M, NEW U, Knows(p, s, o, M, U),
         NEW m \in M, PassedBy(s, m)
  PROVE  Before(m.ct.mk, s.recvCk)
<1>1. /\ m.header.dh.no \in Nat /\ m.header.n \in Nat /\ m.ct.mk.n = m.header.n
      /\ m.header.dh.no > 0 /\ Len(m.ct.mk.root) = EpochLen(Peer(p), m.header.dh.no)
  BY MessageIs DEF Knows, Written
<1>2. /\ s.recvN \in Nat /\ s.remote.no \in Nat /\ s.recvCk.n = s.recvN
      /\ s.self.no \in Nat /\ s.recvCk \in AnyChain
  BY SessionIs DEF Knows
<1>3. s.remote.no > 0 /\ m.header.dh.no <= s.remote.no
  BY <1>1, <1>2 DEF PassedBy
<1>4. /\ s.recvCk # NoChain /\ Len(s.root) = EpochLen(p, s.self.no)
      /\ s.remote.no + (IF p = Alice THEN 1 ELSE 0) = s.self.no
  BY <1>3 DEF Knows, Shaped
<1>5. Len(s.recvCk.root) + 1 = Len(s.root) /\ Len(s.recvCk.root) \in Nat
  BY <1>2, <1>4 DEF Knows, Good, AnyChain
<1>6. Len(s.recvCk.root) = EpochLen(Peer(p), s.remote.no)
  <2>1. CASE p = Alice
    <3>1. s.self.no = s.remote.no + 1
      BY <1>4, <2>1
    <3>2. /\ EpochLen(Alice, s.remote.no + 1) = EpochLen(Bob, s.remote.no) + 1
          /\ EpochLen(Bob, s.remote.no) \in Nat /\ Peer(Alice) = Bob
      BY <1>2, EpochLens
    <3>3. Len(s.recvCk.root) + 1 = EpochLen(Bob, s.remote.no) + 1
      BY <1>4, <1>5, <2>1, <3>1, <3>2
    <3>4. Len(s.recvCk.root) = EpochLen(Bob, s.remote.no)
      BY <1>5, <3>2, <3>3
    <3> QED
      BY <2>1, <3>2, <3>4
  <2>2. CASE p = Bob
    <3>1. /\ EpochLen(Bob, s.remote.no) = EpochLen(Alice, s.remote.no) + 1
          /\ EpochLen(Alice, s.remote.no) \in Nat /\ Peer(Bob) = Alice /\ Alice # Bob
      BY <1>2, EpochLens
    <3>2. s.self.no = s.remote.no
      BY <1>2, <1>4, <2>2, <3>1
    <3>3. Len(s.recvCk.root) + 1 = EpochLen(Alice, s.remote.no) + 1
      BY <1>4, <1>5, <2>2, <3>1, <3>2
    <3>4. Len(s.recvCk.root) = EpochLen(Alice, s.remote.no)
      BY <1>5, <3>1, <3>3
    <3> QED
      BY <2>2, <3>1, <3>4
  <2> QED
    BY <2>1, <2>2 DEF Party
<1>7. CASE m.header.dh.no < s.remote.no
  <2>1. Len(m.ct.mk.root) < Len(s.recvCk.root)
    BY <1>1, <1>2, <1>6, <1>7 DEF EpochLen
  <2> QED
    BY <2>1 DEF Before
<1>8. CASE m.header.dh.no = s.remote.no /\ m.header.n < s.recvN
  BY <1>1, <1>2, <1>6, <1>8 DEF Before
<1> QED
  BY <1>7, <1>8 DEF PassedBy

\* What p knows after opening m, and what its peer q knows of it then.
Opening(p, q, s, o, t, M, U, N, V, m) ==
    Knows(p, t, o, M, U \ {m}) /\ Knows(q, o, t, N, V)

\* With a key it kept.
LEMMA OpensKept ==
  ASSUME NEW p \in Party, NEW q \in Party, q = Peer(p), NEW s, NEW o, NEW M, NEW U, NEW N, NEW V,
         Knows(p, s, o, M, U), Knows(q, o, s, N, V), NEW m \in M, IsBuffered(s, m.header),
         NEW t, t = Taken(s, SkippedKey(m.header)), Good(p, t)
  PROVE  Opening(p, q, s, o, t, M, U, N, V, m)
<1>1. Peer(q) = p /\ Good(p, s) /\ U \in SUBSET Message /\ m \in Message /\ Gap(s, U)
  BY Parties DEF Knows
<1>2. \A u \in U : u.header.dh.no = m.header.dh.no /\ u.header.n = m.header.n => u = m
  BY DEF Knows, Written
<1>3. /\ Gap(t, U \ {m}) /\ m \in U /\ PassedBy(s, m)
      /\ t.self = s.self /\ t.remote = s.remote /\ t.root = s.root
      /\ t.sendCk = s.sendCk /\ t.recvCk = s.recvCk
      /\ t.sendN = s.sendN /\ t.recvN = s.recvN /\ t.prevN = s.prevN
  BY <1>1, <1>2, TakeGap DEF IsBuffered
<1>4. Shaped(p, t)
  BY <1>3 DEF Knows, Shaped
<1>5. Linked(t, o, M)
  BY <1>3 DEF Knows, Linked, Behind, Level
<1>6. \A u \in M \ (U \ {m}) : PassedBy(t, u)
  BY <1>3 DEF Knows, PassedBy
<1>7. Knows(p, t, o, M, U \ {m})
  BY <1>3, <1>4, <1>5, <1>6 DEF Knows
<1>8. Written(p, t, N) /\ Complete(t, N) /\ Linked(o, t, N)
  BY <1>1, <1>3 DEF Knows, Written, Complete, Linked, Behind, Level
<1>9. Knows(q, o, t, N, V)
  BY <1>1, <1>4, <1>8 DEF Knows
<1> QED
  BY <1>7, <1>9 DEF Opening

\* The step over the message at which the chain stands, field by field.
Stepped(c) == [c EXCEPT !.recvCk = KdfCk(@), !.recvN = @ + 1]

LEMMA StepFields ==
  ASSUME NEW p, NEW c, Good(p, c), NEW t, t = Stepped(c)
  PROVE  /\ t.self = c.self /\ t.remote = c.remote /\ t.root = c.root /\ t.sendCk = c.sendCk
         /\ t.sendN = c.sendN /\ t.prevN = c.prevN /\ t.skipped = c.skipped
         /\ t.recvN = c.recvN + 1 /\ t.recvCk.root = c.recvCk.root /\ t.recvCk # NoChain
<1> DEFINE ck == Chain(c.recvCk.root, c.recvCk.n + 1)
           n == c.recvN + 1
<1>1. c \in Session /\ c.recvCk.n = c.recvN /\ c.recvN \in Nat
  BY SessionIs
<1>2. t = [c EXCEPT !.recvCk = ck, !.recvN = n]
  BY <1>1 DEF Stepped, KdfCk, Session
<1>3. ck.root = c.recvCk.root /\ ck # NoChain
  <2>1. ck.n = c.recvN + 1 /\ NoChain.n = 0 /\ ck.root = c.recvCk.root
    BY <1>1 DEF Chain, NoChain
  <2> QED
    BY <1>1, <2>1
<1> HIDE DEF ck, n
<1>4. /\ t.self = c.self /\ t.remote = c.remote /\ t.root = c.root /\ t.sendCk = c.sendCk
      /\ t.sendN = c.sendN /\ t.prevN = c.prevN /\ t.skipped = c.skipped
      /\ t.recvN = n /\ t.recvCk = ck
  BY <1>1, <1>2 DEF Session
<1> QED
  BY <1>3, <1>4 DEF n

\* With the next key of the receiving chain.
LEMMA OpensNext ==
  ASSUME NEW p \in Party, NEW q \in Party, q = Peer(p), NEW s, NEW o, NEW M, NEW U, NEW N, NEW V,
         Knows(p, s, o, M, U), Knows(q, o, s, N, V),
         NEW m \in M, ~ PassedBy(s, m), m.header.dh = s.remote,
         NEW c, c = SkipUntil(s, m.header.n),
         NEW t, t = Stepped(c), Good(p, t)
  PROVE  Opening(p, q, s, o, t, M, U, N, V, m)
<1>1. Peer(q) = p /\ Good(p, s) /\ Good(q, o) /\ U \in SUBSET Message /\ m \in Message /\ m \in U
  BY Parties DEF Knows
<1>2. /\ m.header.n \in Nat /\ s.remote.no \in Nat /\ s.recvN \in Nat
      /\ o.sendN \in Nat /\ o.prevN \in Nat /\ o.self.no \in Nat
  BY <1>1, MessageIs, SessionIs
<1>3. /\ Stands(c, m, U) /\ c.self = s.self /\ c.root = s.root
      /\ c.sendCk = s.sendCk /\ c.sendN = s.sendN /\ c.prevN = s.prevN
  BY CatchesUp
<1>4. Good(p, c)
  BY <1>1, <1>2, SkipGood
<1>5. /\ t.self = s.self /\ t.remote = s.remote /\ t.root = s.root /\ t.sendCk = s.sendCk
      /\ t.sendN = s.sendN /\ t.prevN = s.prevN /\ t.skipped = c.skipped
      /\ t.recvN = m.header.n + 1 /\ t.recvCk.root = m.ct.mk.root /\ t.recvCk # NoChain
  <2>1. /\ t.self = c.self /\ t.remote = c.remote /\ t.root = c.root /\ t.sendCk = c.sendCk
        /\ t.sendN = c.sendN /\ t.prevN = c.prevN /\ t.skipped = c.skipped
        /\ t.recvN = c.recvN + 1 /\ t.recvCk.root = c.recvCk.root /\ t.recvCk # NoChain
    BY <1>4, StepFields
  <2> QED
    BY <1>3, <2>1 DEF Stands
<1>6. /\ m.ct.mk.root = s.recvCk.root /\ m.header.dh.no > 0
      /\ s.recvCk # NoChain /\ s.recvN <= m.header.n
  BY NotPassed DEF Knows, Written, Linked
<1>7. \A u \in U : u.header.dh.no = m.header.dh.no /\ u.header.n = m.header.n => u = m
  BY DEF Knows, Written
<1>8. Gap(t, U \ {m})
  <2>1. /\ m.header.dh = c.remote /\ m.header.n = c.recvN /\ Gap(c, U)
        /\ t.remote = c.remote /\ t.recvN = c.recvN + 1 /\ t.skipped = c.skipped
    BY <1>3, <1>5 DEF Stands
  <2> QED
    BY <1>1, <1>4, <1>7, <2>1, StepGap
<1>9. Shaped(p, t)
  BY <1>5, <1>6 DEF Knows, Shaped
<1>10. Linked(t, o, M)
  <2>1. CASE Behind(s, o)
    <3>1. m.header.n < o.prevN
      BY <2>1 DEF Knows, Written, Behind
    <3>2. t.recvN <= o.prevN
      BY <1>2, <1>5, <3>1
    <3> QED
      BY <1>5, <1>6, <2>1, <3>2 DEF Knows, Linked, Behind
  <2>2. CASE Level(s, o)
    <3>1. m.header.n < o.sendN
      BY <2>2 DEF Knows, Written, Level
    <3>2. t.recvN <= o.sendN
      BY <1>2, <1>5, <3>1
    <3> QED
      BY <1>5, <1>6, <2>2, <3>2 DEF Knows, Linked, Level
  <2> QED
    BY <2>1, <2>2 DEF Knows, Linked
<1>11. \A u \in M \ (U \ {m}) : PassedBy(t, u)
  <2>1. ASSUME NEW u \in M, PassedBy(s, u) PROVE PassedBy(t, u)
    <3>1. u.header.n \in Nat
      BY MessageIs DEF Knows
    <3> QED
      BY <1>2, <1>5, <1>6, <2>1, <3>1 DEF PassedBy
  <2>2. PassedBy(t, m)
    BY <1>2, <1>5 DEF PassedBy
  <2> QED
    BY <2>1, <2>2 DEF Knows
<1>12. Knows(p, t, o, M, U \ {m})
  BY <1>8, <1>9, <1>10, <1>11 DEF Knows
<1>13. Written(p, t, N) /\ Complete(t, N) /\ Linked(o, t, N)
  <2>1. Written(p, s, N) /\ Complete(s, N) /\ Linked(o, s, N)
    BY <1>1 DEF Knows
  <2>2. Written(p, t, N)
    BY <1>5, <2>1 DEF Written
  <2>3. Complete(t, N)
    BY <1>5, <2>1 DEF Complete
  <2>4. Linked(o, t, N)
    BY <1>5, <2>1 DEF Linked, Behind, Level
  <2> QED
    BY <2>2, <2>3, <2>4
<1>14. Knows(q, o, t, N, V)
  BY <1>1, <1>9, <1>13 DEF Knows
<1> QED
  BY <1>12, <1>14 DEF Opening

\* With a key of the next chain, after a turn of the ratchet.
LEMMA OpensTurned ==
  ASSUME NEW p \in Party, NEW q \in Party, q = Peer(p), NEW s, NEW o, NEW M, NEW U, NEW N, NEW V,
         Knows(p, s, o, M, U), Knows(q, o, s, N, V),
         NEW m \in M, ~ PassedBy(s, m), m.header.dh # s.remote,
         NEW fresh \in AnyKey, fresh.owner = p, fresh.no = s.self.no + 1,
         NEW r, r = RatchetDh(SkipUntil(s, m.header.prev), m.header.dh, fresh),
         NEW c, c = SkipUntil(r, m.header.n), Good(p, c),
         NEW t, t = Stepped(c), Good(p, t)
  PROVE  Opening(p, q, s, o, t, M, U, N, V, m)
<1>0. Good(p, c)
  OBVIOUS
<1>1. Peer(q) = p /\ Good(p, s) /\ Good(q, o) /\ U \in SUBSET Message /\ m \in Message /\ m \in U
  BY Parties DEF Knows
<1>2. /\ m.header.n \in Nat /\ s.remote.no \in Nat /\ s.recvN \in Nat /\ s.self.no \in Nat
      /\ o.sendN \in Nat /\ o.prevN \in Nat /\ o.self.no \in Nat /\ o.remote.no \in Nat
      /\ s.sendN \in Nat /\ o.root \in Seq(Mixed) /\ o.self \in AnyKey
  BY <1>1, MessageIs, SessionIs
<1>3. /\ Stands(c, m, U) /\ c.self = fresh /\ c.root = KdfRk(o.root, DhOutput(fresh, o.self))
      /\ c.sendCk = Chain(c.root, 0) /\ c.sendN = 0 /\ c.prevN = s.sendN
      /\ m.header.dh = o.self /\ m.header.dh.no = s.remote.no + 1
  BY TurnsTo
<1>4. /\ t.self = fresh /\ t.remote = o.self /\ t.root = KdfRk(o.root, DhOutput(fresh, o.self))
      /\ t.sendCk = Chain(t.root, 0) /\ t.sendN = 0 /\ t.prevN = s.sendN /\ t.skipped = c.skipped
      /\ t.recvN = m.header.n + 1 /\ t.recvCk.root = m.ct.mk.root /\ t.recvCk # NoChain
  <2>1. /\ t.self = c.self /\ t.remote = c.remote /\ t.root = c.root /\ t.sendCk = c.sendCk
        /\ t.sendN = c.sendN /\ t.prevN = c.prevN /\ t.skipped = c.skipped
        /\ t.recvN = c.recvN + 1 /\ t.recvCk.root = c.recvCk.root /\ t.recvCk # NoChain
    BY <1>0, StepFields
  <2> QED
    BY <1>3, <2>1 DEF Stands
<1>5. /\ Behind(s, o) /\ o.self.owner = q
      /\ m.ct.mk.root = o.root /\ m.header.n < o.sendN
      /\ Len(o.root) = EpochLen(q, o.self.no)
  BY <1>1, <1>3, NotPassed DEF Knows, Shaped, Written
<1>6. o.self.no = s.remote.no + 1
  BY <1>5 DEF Behind
<1>7. \A u \in U : u.header.dh.no = m.header.dh.no /\ u.header.n = m.header.n => u = m
  BY DEF Knows, Written
<1>8. Gap(t, U \ {m})
  <2>1. /\ m.header.dh = c.remote /\ m.header.n = c.recvN /\ Gap(c, U)
        /\ t.remote = c.remote /\ t.recvN = c.recvN + 1 /\ t.skipped = c.skipped
    BY <1>3, <1>4 DEF Stands
  <2> QED
    BY <1>0, <1>1, <1>7, <2>1, StepGap
<1>9. /\ s.remote.no + (IF p = Alice THEN 1 ELSE 0) = s.self.no
      /\ o.remote.no + (IF q = Alice THEN 1 ELSE 0) = o.self.no
  BY <1>1 DEF Knows, Shaped
<1>10. /\ o.self.no + (IF p = Alice THEN 1 ELSE 0) = s.self.no + 1
       /\ o.remote.no = s.self.no
       /\ EpochLen(p, s.self.no + 1) = EpochLen(q, o.self.no) + 1
  <2>0. Alice # Bob /\ Peer(Alice) = Bob /\ Peer(Bob) = Alice
    BY EpochLens
  <2>1. CASE p = Alice
    <3>1. q = Bob /\ o.self.no + 1 = s.self.no + 1 /\ o.self.no = s.self.no /\ o.remote.no = o.self.no
      BY <1>2, <1>6, <1>9, <2>0, <2>1
    <3>2. EpochLen(Alice, s.self.no + 1) = EpochLen(Bob, s.self.no) + 1
      BY <1>2, EpochLens
    <3> QED
      BY <2>1, <3>1, <3>2
  <2>2. CASE p = Bob
    <3>1. q = Alice /\ o.self.no = s.self.no + 1 /\ o.remote.no + 1 = o.self.no /\ o.remote.no = s.self.no
      BY <1>2, <1>6, <1>9, <2>0, <2>2
    <3>2. EpochLen(Bob, o.self.no) = EpochLen(Alice, o.self.no) + 1
      BY <1>2, EpochLens
    <3>3. o.self.no + (IF p = Alice THEN 1 ELSE 0) = s.self.no + 1
      BY <1>2, <2>0, <2>2, <3>1
    <3> QED
      BY <2>2, <3>1, <3>2, <3>3
  <2> QED
    BY <2>1, <2>2 DEF Party
<1>11. Shaped(p, t)
  <2>1. Len(t.root) = Len(o.root) + 1
    BY <1>2, <1>4 DEF KdfRk
  <2>2. Len(t.root) = EpochLen(p, t.self.no)
    BY <1>4, <1>5, <1>10, <2>1
  <2>3. t.remote.no + (IF p = Alice THEN 1 ELSE 0) = t.self.no
    BY <1>4, <1>10
  <2>4. t.remote.no > 0 /\ t.remote.owner = q /\ t.self.no > 0 /\ t.self.owner = p
    BY <1>2, <1>4, <1>5, <1>6
  <2>5. t.sendCk.n = t.sendN
    BY <1>4 DEF Chain
  <2> QED
    BY <1>4, <2>2, <2>3, <2>4, <2>5 DEF Shaped
<1>12. Linked(t, o, M)
  <2>1. t.recvN <= o.sendN
    BY <1>2, <1>4, <1>5
  <2>2. Level(t, o)
    BY <1>4, <1>5, <2>1 DEF Level
  <2>3. \A u \in M : u.header.dh.no = t.remote.no => u.ct.mk.root = t.recvCk.root
    BY <1>4, <1>5 DEF Knows, Written
  <2> QED
    BY <2>2, <2>3 DEF Linked
<1>13. \A u \in M \ (U \ {m}) : PassedBy(t, u)
  <2>1. ASSUME NEW u \in M, PassedBy(s, u) PROVE PassedBy(t, u)
    <3>1. u.header.dh.no \in Nat
      BY MessageIs DEF Knows
    <3> QED
      BY <1>2, <1>4, <1>6, <2>1, <3>1 DEF PassedBy
  <2>2. PassedBy(t, m)
    BY <1>2, <1>3, <1>4 DEF PassedBy
  <2> QED
    BY <2>1, <2>2 DEF Knows
<1>14. Knows(p, t, o, M, U \ {m})
  BY <1>8, <1>11, <1>12, <1>13 DEF Knows
<1>15. Written(p, s, N) /\ Complete(s, N) /\ N \in SUBSET Message
  BY <1>1 DEF Knows
<1>16. Written(p, t, N)
  <2>0. t.self.no = s.self.no + 1
    BY <1>4
  <2>1. ASSUME NEW u \in N
        PROVE  /\ u.header.dh.owner = p /\ u.header.dh.no > 0 /\ u.header.dh.no <= t.self.no
               /\ u.ct.mk.n = u.header.n /\ u.ct.ad = Label[p]
               /\ Len(u.ct.mk.root) = EpochLen(p, u.header.dh.no)
               /\ u.header.dh.no # t.self.no
               /\ u.header.dh.no + 1 = t.self.no => u.header.n < t.prevN
    <3>1. u.header.dh.no \in Nat /\ u.header.dh.no <= s.self.no
      BY <1>15, MessageIs DEF Written
    <3>2. u.header.dh.no <= t.self.no /\ u.header.dh.no # t.self.no
      BY <1>2, <2>0, <3>1
    <3>3. u.header.dh.no + 1 = t.self.no => u.header.dh.no = s.self.no
      BY <1>2, <2>0, <3>1
    <3> QED
      BY <1>4, <1>15, <3>2, <3>3 DEF Written
  <2>2. \A u1, u2 \in N : u1.header.dh.no = u2.header.dh.no /\ u1.header.n = u2.header.n => u1 = u2
    BY <1>15 DEF Written
  <2> QED
    BY <2>1, <2>2 DEF Written
<1>17. Complete(t, N)
  <2>1. ASSUME NEW n \in Nat, n < t.prevN
        PROVE  \E u \in N : u.header.dh.no + 1 = t.self.no /\ u.header.n = n
    <3>1. \E u \in N : u.header.dh.no = s.self.no /\ u.header.n = n
      BY <1>4, <1>15, <2>1 DEF Complete
    <3> QED
      BY <1>4, <3>1
  <2>2. \A n \in Nat : ~ (n < t.sendN)
    BY <1>4
  <2> QED
    BY <2>1, <2>2 DEF Complete
<1>18. Linked(o, t, N)
  <2>1. Level(o, s)
    BY <1>2, <1>10 DEF Knows, Linked, Behind
  <2>2. DhOutput(fresh, o.self) = DhOutput(o.self, t.self)
    BY <1>4 DEF DhOutput
  <2>3. Behind(o, t)
    BY <1>4, <1>10, <2>1, <2>2 DEF Behind, Level
  <2> QED
    BY <2>3 DEF Knows, Linked
<1>19. Knows(q, o, t, N, V)
  BY <1>1, <1>11, <1>15, <1>16, <1>17, <1>18 DEF Knows
<1> QED
  BY <1>14, <1>19 DEF Opening

\* A message that was passed and opened is not opened again: what is opened with a
\* key that was not kept was not passed.
LEMMA NotKeptNotPassed ==
  ASSUME NEW p \in Party, NEW s, NEW o, NEW M, NEW U, Knows(p, s, o, M, U), NEW m \in M,
         ~ IsBuffered(s, m.header),
         ~ Before(m.ct.mk, s.recvCk) \/ \E k \in DOMAIN s.skipped : s.skipped[k] = m.ct.mk
  PROVE  ~ PassedBy(s, m)
<1> SUFFICES ASSUME PassedBy(s, m) PROVE FALSE
  OBVIOUS
<1>1. Before(m.ct.mk, s.recvCk)
  BY PassedIsBefore
<1>2. PICK k \in DOMAIN s.skipped : s.skipped[k] = m.ct.mk
  BY <1>1
<1>3. PICK u \in U : PassedBy(s, u) /\ k = SkippedKey(u.header)
  BY DEF Knows, Gap
<1>4. u \in M /\ u.ct.mk = m.ct.mk
  BY <1>2, <1>3 DEF Knows, Gap
<1>5. ASSUME NEW w \in M
      PROVE  /\ w.header.dh.no \in Nat /\ w.ct.mk.n = w.header.n
             /\ Len(w.ct.mk.root) = EpochLen(Peer(p), w.header.dh.no)
  BY MessageIs DEF Knows, Written
<1>6. u.header.n = m.header.n
  BY <1>4, <1>5
<1>7. u.header.dh.no = m.header.dh.no
  <2>1. EpochLen(Peer(p), u.header.dh.no) = EpochLen(Peer(p), m.header.dh.no)
    BY <1>4, <1>5
  <2>2. u.header.dh.no \in Nat /\ m.header.dh.no \in Nat
    BY <1>4, <1>5
  <2> QED
    BY <2>1, <2>2 DEF EpochLen
<1>8. u = m
  BY <1>4, <1>6, <1>7 DEF Knows, Written
<1> QED
  BY <1>3, <1>8 DEF IsBuffered

\* A decrypt that succeeds keeps the two ends in step.
LEMMA DecryptedKnown ==
  ASSUME NEW p \in Party, NEW q \in Party, q = Peer(p), NEW s, NEW o, NEW M, NEW U, NEW N, NEW V,
         Knows(p, s, o, M, U), Knows(q, o, s, N, V), NEW m \in M,
         NEW fresh \in AnyKey, fresh.owner = p, fresh.no = s.self.no + 1,
         NEW ad, Decrypts(s, m, ad, fresh), NEW t, t = Decrypted(s, m.header, fresh)
  PROVE  Opening(p, q, s, o, t, M, U, N, V, m)
<1>1. Good(p, s) /\ m \in Message
  BY DEF Knows
<1>2. /\ Good(p, t)
      /\ ~ Before(m.ct.mk, s.recvCk) \/ \E k \in DOMAIN s.skipped : s.skipped[k] = m.ct.mk
  BY <1>1, DecryptedGood
<1>3. m.header.dh \in AnyKey /\ m.header.n \in Nat /\ m.header.prev \in Nat
  BY <1>1, MessageIs
<1>4. CASE IsBuffered(s, m.header)
  <2>1. t = Taken(s, SkippedKey(m.header))
    BY <1>4 DEF Decrypted, Taken
  <2> QED
    BY <1>2, <1>4, <2>1, OpensKept
<1>5. CASE ~ IsBuffered(s, m.header)
  <2>1. ~ PassedBy(s, m)
    BY <1>2, <1>5, NotKeptNotPassed
  <2>2. t = Stepped(SkipUntil(Ratcheted(s, m.header, fresh), m.header.n))
    BY <1>5 DEF Decrypted, CaughtUp, Stepped
  <2>3. CASE m.header.dh = s.remote
    <3>1. t = Stepped(SkipUntil(s, m.header.n))
      BY <2>2, <2>3 DEF Ratcheted, IsNewDh
    <3> QED
      BY <1>2, <2>1, <2>3, <3>1, OpensNext
  <2>4. CASE m.header.dh # s.remote
    <3> DEFINE k == SkipUntil(s, m.header.prev)
               r == RatchetDh(k, m.header.dh, fresh)
               c == SkipUntil(r, m.header.n)
    <3>1. t = Stepped(c)
      BY <2>2, <2>4 DEF Ratcheted, IsNewDh
    <3>2. /\ k = SkipUntil(s, m.header.prev) /\ r = RatchetDh(k, m.header.dh, fresh)
          /\ r = RatchetDh(SkipUntil(s, m.header.prev), m.header.dh, fresh)
          /\ c = SkipUntil(r, m.header.n)
      OBVIOUS
    <3> HIDE DEF k, r, c
    <3>3. Good(p, k)
      BY <1>1, <1>3, <3>2, SkipGood
    <3>4. Good(p, r)
      BY <1>3, <3>2, <3>3, DhGood
    <3>5. Good(p, c)
      BY <1>3, <3>2, <3>4, SkipGood
    <3> QED
      BY <1>2, <2>1, <2>4, <3>1, <3>2, <3>5, OpensTurned
  <2> QED
    BY <2>3, <2>4
<1> QED
  BY <1>4, <1>5

-----------------------------------------------------------------------------

\* What p's peer has sent and p has not opened.
Unopened(p) == {m \in Sent(Peer(p)) : ~ IsOpened(m)}

InStep == \A p \in Party : Knows(p, sess[p], sess[Peer(p)], Sent(Peer(p)), Unopened(p))

LEMMA InitiallyInStep == Init /\ IInv => InStep
<1> SUFFICES ASSUME Init, IInv PROVE InStep
  OBVIOUS
<1>1. /\ Alice \in Party /\ Bob \in Party /\ Alice # Bob /\ Party = {Alice, Bob}
      /\ Peer(Alice) = Bob /\ Peer(Bob) = Alice
  BY DEF Party, Alice, Bob, Peer
<1>2. Good(Alice, sess[Alice]) /\ Good(Bob, sess[Bob])
  BY <1>1 DEF IInv, Typed
<1> DEFINE a == sess[Alice]
           b == sess[Bob]
           first == FirstKey
           spk == SignedPreKey(Bob)
           rk == KdfRk(<<Secret>>, DhOutput(first, spk))
<1>3. /\ a = [self |-> first, remote |-> spk, root |-> rk,
              sendCk |-> Chain(rk, 0), recvCk |-> NoChain,
              sendN |-> 0, recvN |-> 0, prevN |-> 0, skipped |-> <<>>]
      /\ b = [self |-> spk, remote |-> NoKey, root |-> <<Secret>>,
              sendCk |-> NoChain, recvCk |-> NoChain,
              sendN |-> 0, recvN |-> 0, prevN |-> 0, skipped |-> <<>>]
  BY <1>1 DEF Init, InitAsSender, InitAsReceiver
<1>4. /\ Len(<<Secret>>) = 1 /\ Len(rk) = 2 /\ Chain(rk, 0).n = 0 /\ NoChain.n = 0
      /\ DOMAIN <<>> = {} /\ DhOutput(first, spk) = DhOutput(spk, first)
  <2>1. Len(<<Secret>>) = 1 /\ Len(rk) = 2
    BY DEF KdfRk
  <2>2. Chain(rk, 0).n = 0 /\ NoChain.n = 0
    BY DEF Chain, NoChain
  <2>3. DhOutput(first, spk) = DhOutput(spk, first)
    BY DEF DhOutput
  <2>4. DOMAIN <<>> = {}
    OBVIOUS
  <2> QED
    BY <2>1, <2>2, <2>3, <2>4
<1>5. /\ first.owner = Alice /\ first.no = 1 /\ spk.owner = Bob /\ spk.no = 0 /\ NoKey.no = 0
  BY DEF FirstKey, SignedPreKey, NoKey, Key
<1>6. rk = KdfRk(<<Secret>>, DhOutput(spk, first))
  BY <1>4
<1> DEFINE ck == Chain(rk, 0)
<1>7. ck.n = 0
  BY <1>4
<1> HIDE DEF rk, first, spk, ck
<1>8. /\ a.self = first /\ a.remote = spk /\ a.root = rk /\ a.sendCk.n = 0 /\ a.recvCk = NoChain
      /\ a.sendN = 0 /\ a.recvN = 0 /\ a.prevN = 0 /\ DOMAIN a.skipped = {}
  <2>1. a = [self |-> first, remote |-> spk, root |-> rk, sendCk |-> ck, recvCk |-> NoChain,
             sendN |-> 0, recvN |-> 0, prevN |-> 0, skipped |-> <<>>]
    BY <1>3 DEF ck
  <2>2. /\ a.self = first /\ a.remote = spk /\ a.root = rk /\ a.sendCk = ck /\ a.recvCk = NoChain
        /\ a.sendN = 0 /\ a.recvN = 0 /\ a.prevN = 0 /\ a.skipped = <<>>
    BY <2>1
  <2> QED
    BY <1>4, <1>7, <2>2
<1>9. /\ b.self = spk /\ b.remote = NoKey /\ b.root = <<Secret>> /\ b.sendCk = NoChain
      /\ b.recvCk = NoChain /\ b.sendN = 0 /\ b.recvN = 0 /\ b.prevN = 0 /\ DOMAIN b.skipped = {}
  <2>1. /\ b.self = spk /\ b.remote = NoKey /\ b.root = <<Secret>> /\ b.sendCk = NoChain
        /\ b.recvCk = NoChain /\ b.sendN = 0 /\ b.recvN = 0 /\ b.prevN = 0 /\ b.skipped = <<>>
    BY <1>3
  <2> QED
    BY <1>4, <2>1
<1> HIDE DEF a, b
<1>10. Shaped(Alice, a)
  <2>1. EpochLen(Alice, 1) = 2
    BY DEF EpochLen
  <2>2. Len(a.root) = EpochLen(Alice, a.self.no)
    BY <1>4, <1>5, <1>8, <2>1
  <2>3. a.remote.no + (IF Alice = Alice THEN 1 ELSE 0) = a.self.no
    BY <1>5, <1>8
  <2> QED
    BY <1>1, <1>5, <1>8, <2>2, <2>3 DEF Shaped
<1>11. Shaped(Bob, b)
  <2>1. EpochLen(Bob, 0) = 1
    BY <1>1 DEF EpochLen
  <2>2. Len(b.root) = EpochLen(Bob, b.self.no)
    BY <1>4, <1>5, <1>9, <2>1
  <2>3. b.remote.no + (IF Bob = Alice THEN 1 ELSE 0) = b.self.no
    BY <1>1, <1>5, <1>9
  <2>4. b.sendCk.n = b.sendN
    BY <1>4, <1>9
  <2> QED
    BY <1>1, <1>5, <1>9, <2>2, <2>3, <2>4 DEF Shaped
<1>12. Written(Alice, a, {}) /\ Written(Bob, b, {})
  BY DEF Written
<1>13. Complete(a, {}) /\ Complete(b, {})
  BY <1>8, <1>9 DEF Complete
<1>14. Linked(a, b, {})
  <2>1. Level(a, b)
    BY <1>5, <1>8, <1>9 DEF Level
  <2> QED
    BY <2>1 DEF Linked
<1>15. Linked(b, a, {})
  <2>1. Behind(b, a)
    BY <1>5, <1>6, <1>8, <1>9 DEF Behind
  <2> QED
    BY <2>1 DEF Linked
<1>16. Gap(a, {}) /\ Gap(b, {})
  BY <1>8, <1>9 DEF Gap
<1>17. Knows(Alice, a, b, {}, {}) /\ Knows(Bob, b, a, {}, {})
  <2>1. Good(Alice, a) /\ Good(Bob, b)
    BY <1>2 DEF a, b
  <2> QED
    BY <1>1, <1>10, <1>11, <1>12, <1>13, <1>14, <1>15, <1>16, <2>1 DEF Knows
<1>18. \A p \in Party : Sent(p) = {}
  BY DEF Init, Sent
<1>19. Sent(Alice) = {} /\ Sent(Bob) = {} /\ Unopened(Alice) = {} /\ Unopened(Bob) = {}
  BY <1>1, <1>18 DEF Unopened
<1>20. Knows(Alice, sess[Alice], sess[Bob], Sent(Bob), Unopened(Alice))
       /\ Knows(Bob, sess[Bob], sess[Alice], Sent(Alice), Unopened(Bob))
  BY <1>17, <1>19 DEF a, b
<1> QED
  BY <1>1, <1>20 DEF InStep

LEMMA SendInStep ==
  ASSUME IInv, InStep, NEW p \in Party, Send(p)
  PROVE  InStep'
<1> DEFINE q == Peer(p)
           s == sess[p]
           o == sess[q]
           i == Len(sent[p]) + 1
           text == <<p, i>>
           m == Encrypted(s, Label[p], text)
           t == Encrypt(s)
<1>1. /\ q \in Party /\ q # p /\ q = Peer(p) /\ Peer(q) = p /\ \A r \in Party : r = p \/ r = q
  BY Parties
<1>2. /\ sess = [r \in Party |-> sess[r]] /\ sent \in [Party -> Seq(Message)]
      /\ opened \in [Party -> [1 .. MaxSend -> Nat]] /\ Len(sent[p]) < MaxSend /\ CanEncrypt(s)
  BY DEF IInv, Typed, Send
<1>3. sent[p] \in Seq(Message) /\ Len(sent[p]) \in Nat /\ i \in 1 .. MaxSend
  BY <1>2, MaxSendAssumption
<1>4. sent' = [sent EXCEPT ![p] = Append(sent[p], m)] /\ sess' = [sess EXCEPT ![p] = t]
      /\ opened' = opened
  BY DEF Send
<1>5. Knows(p, s, o, Sent(q), Unopened(p)) /\ Knows(q, o, s, Sent(p), Unopened(q))
  BY <1>1 DEF InStep
<1>6. text \in Party \X Nat /\ t = Encrypt(s) /\ m = Encrypted(s, Label[p], text)
  BY <1>3
<1>7. /\ sess'[p] = t /\ sess'[q] = o /\ sent'[p] = Append(sent[p], m) /\ sent'[q] = sent[q]
  BY <1>1, <1>2, <1>4
<1>8. m.ct.text = text
  BY DEF Encrypted, Seal
<1> HIDE DEF q, s, o, m, t
<1>9. Knows(q, o, t, Sent(p) \cup {m}, Unopened(q) \cup {m})
  BY <1>1, <1>2, <1>5, <1>6, SealedKnown
<1>10. Good(p, t) /\ Shaped(p, t) /\ m \in Message
  BY <1>1, <1>9 DEF Knows
<1>11. Knows(p, t, o, Sent(q), Unopened(p))
  <2>1. /\ t.self = s.self /\ t.remote = s.remote /\ t.root = s.root /\ t.recvCk = s.recvCk
        /\ t.recvN = s.recvN /\ t.skipped = s.skipped
    <3>1. Good(p, s)
      BY <1>5 DEF Knows
    <3> QED
      BY <1>6, <3>1, EncryptFields
  <2> QED
    BY <1>5, <1>10, <2>1, KnowsStill
<1>12. Sent(p)' = Sent(p) \cup {m}
  <2>1. /\ Len(Append(sent[p], m)) = i /\ Append(sent[p], m)[i] = m
        /\ \A j \in 1 .. Len(sent[p]) : Append(sent[p], m)[j] = sent[p][j]
    BY <1>3, <1>10
  <2>2. \A j : j \in 1 .. i <=> j \in 1 .. Len(sent[p]) \/ j = i
    BY <1>3
  <2>3. \A u : u \in Sent(p)' <=> \E j \in 1 .. i : u = Append(sent[p], m)[j]
    BY <1>7, <2>1 DEF Sent
  <2>4. \A u : u \in Sent(p) <=> \E j \in 1 .. Len(sent[p]) : u = sent[p][j]
    BY DEF Sent
  <2>5. \A u : u \in Sent(p)' <=> u \in Sent(p) \/ u = m
    BY <2>1, <2>2, <2>3, <2>4
  <2> QED
    BY <2>5
<1>13. Sent(q)' = Sent(q)
  BY <1>7 DEF Sent
<1>14. ~ IsOpened(m)
  <2>1. opened[p][i] \in Nat
    BY <1>2, <1>3
  <2>2. ~ (i <= Len(sent[p]))
    BY <1>3
  <2>3. ~ (opened[p][i] > 0)
    BY <1>3, <2>2 DEF IInv, Spent
  <2>4. m.ct.text[1] = p /\ m.ct.text[2] = i
    BY <1>8
  <2> QED
    BY <2>3, <2>4 DEF IsOpened
<1>15. \A u : IsOpened(u)' <=> IsOpened(u)
  BY <1>4 DEF IsOpened
<1>16. Unopened(q)' = Unopened(q) \cup {m}
  <2>1. Unopened(q) = {u \in Sent(p) : ~ IsOpened(u)}
    BY <1>1 DEF Unopened
  <2>2. Unopened(q)' = {u \in Sent(p)' : ~ IsOpened(u)'}
    BY <1>1 DEF Unopened
  <2>3. \A u : u \in Unopened(q)' <=> u \in Sent(p)' /\ ~ IsOpened(u)'
    BY <2>2
  <2>4. \A u : u \in Unopened(q) <=> u \in Sent(p) /\ ~ IsOpened(u)
    BY <2>1
  <2>5. \A u : u \in Unopened(q)' <=> u \in Unopened(q) \/ u = m
    BY <1>12, <1>14, <1>15, <2>3, <2>4
  <2> QED
    BY <2>5
<1>17. Unopened(p)' = Unopened(p)
  BY <1>1, <1>13, <1>15 DEF Unopened
<1>18. Knows(p, sess'[p], sess'[q], Sent(q)', Unopened(p)')
  BY <1>7, <1>11, <1>13, <1>17
<1>19. Knows(q, sess'[q], sess'[p], Sent(p)', Unopened(q)')
  BY <1>7, <1>9, <1>12, <1>16
<1> QED
  BY <1>1, <1>18, <1>19 DEF InStep

LEMMA ReceiveInStep ==
  ASSUME IInv, InStep, NEW p \in Party, NEW i \in 1 .. MaxSend, Receive(p, i)
  PROVE  InStep'
<1> DEFINE q == Peer(p)
           m == sent[q][i]
           fresh == FreshKey(p)
           ad == Label[p]
           s == sess[p]
           o == sess[q]
           t == Decrypted(s, m.header, fresh)
<1>1. /\ sess = [r \in Party |-> sess[r]] /\ sent \in [Party -> Seq(Message)]
      /\ q \in Party /\ q # p /\ Peer(q) = p /\ q = Peer(p) /\ i \in 1 .. Len(sent[q])
      /\ opened \in [Party -> [1 .. MaxSend -> Nat]] /\ \A r \in Party : r = p \/ r = q
  BY Parties DEF IInv, Typed, Receive
<1>2. CASE ~ Decrypts(s, m, ad, fresh)
  <2>1. sess' = sess /\ sent' = sent /\ opened' = opened
    BY <1>1, <1>2 DEF Receive, Stored
  <2> QED
    BY <2>1 DEF InStep, Unopened, Sent, IsOpened
<1>3. CASE Decrypts(s, m, ad, fresh)
  <2>1. /\ sess' = [sess EXCEPT ![p] = t] /\ sent' = sent
        /\ opened' = [opened EXCEPT ![q][m.ct.text[2]] = @ + 1]
    BY <1>3 DEF Receive, Stored
  <2>2. m \in Sent(q) /\ \A r \in Party : \A j \in 1 .. Len(sent[r]) : sent[r][j].ct.text = <<r, j>>
    BY <1>1 DEF Sent, IInv, Sealed
  <2>3. opened' = [opened EXCEPT ![q] = [opened[q] EXCEPT ![i] = opened[q][i] + 1]]
    <3>1. m.ct.text = <<q, i>>
      BY <1>1, <2>2
    <3>2. m.ct.text[2] = i
      BY <3>1
    <3> QED
      BY <2>1, <3>2
  <2>4. Knows(p, s, o, Sent(q), Unopened(p)) /\ Knows(q, o, s, Sent(p), Unopened(q))
    BY <1>1 DEF InStep
  <2>5. fresh \in AnyKey /\ fresh.owner = p /\ fresh.no = s.self.no + 1
    <3>1. s.self.no \in Nat /\ p \in {"alice", "bob"}
      BY <2>4, SessionIs DEF Knows, Party, Alice, Bob
    <3>2. s.self.no + 1 \in Nat
      BY <3>1
    <3> QED
      BY <3>1, <3>2 DEF FreshKey, Key, AnyKey
  <2>6. t = Decrypted(s, m.header, fresh) /\ Decrypts(s, m, ad, fresh)
    BY <1>3
  <2>7. sess'[p] = t /\ sess'[q] = o
    BY <1>1, <2>1
  <2>8. m = sent[q][i] /\ m.ct.text = <<q, i>>
    BY <1>1, <2>2
  <2> HIDE DEF q, m, s, o, t, fresh, ad
  <2>9. Opening(p, q, s, o, t, Sent(q), Unopened(p), Sent(p), Unopened(q), m)
    BY <1>1, <2>2, <2>4, <2>5, <2>6, DecryptedKnown
  <2>10. Knows(p, t, o, Sent(q), Unopened(p) \ {m}) /\ Knows(q, o, t, Sent(p), Unopened(q))
    BY <2>9 DEF Opening
  <2>11. Sent(p)' = Sent(p) /\ Sent(q)' = Sent(q)
    BY <2>1 DEF Sent
  <2>12. /\ opened'[p] = opened[p] /\ opened'[q] = [opened[q] EXCEPT ![i] = opened[q][i] + 1]
         /\ opened[q] \in [1 .. MaxSend -> Nat]
    BY <1>1, <2>3
  <2>13. \A u \in Sent(p) : IsOpened(u)' <=> IsOpened(u)
    <3>1. \A u \in Sent(p) : u.ct.text[1] = p
      BY <2>2 DEF Sent
    <3> QED
      BY <2>12, <3>1 DEF IsOpened
  <2>14. ASSUME NEW u \in Sent(q) PROVE IsOpened(u)' <=> IsOpened(u) \/ u = m
    <3>1. PICK j \in 1 .. Len(sent[q]) : u = sent[q][j]
      BY DEF Sent
    <3>2. u.ct.text[1] = q /\ u.ct.text[2] = j /\ u.ct.text = <<q, j>>
      BY <1>1, <2>2, <3>1
    <3>3. IsOpened(u) <=> opened[q][j] > 0
      BY <3>2 DEF IsOpened
    <3>4. IsOpened(u)' <=> opened'[q][j] > 0
      BY <3>2 DEF IsOpened
    <3>5. CASE j = i
      <4>1. u = m
        BY <2>8, <3>1, <3>5
      <4>2. opened[q][i] \in Nat
        BY <2>12
      <4>3. opened'[q][i] = opened[q][i] + 1
        BY <2>12
      <4>4. opened'[q][i] > 0
        BY <4>2, <4>3
      <4> QED
        BY <3>4, <3>5, <4>1, <4>4
    <3>6. CASE j # i
      <4>1. u # m
        BY <2>8, <3>2, <3>6
      <4>2. j \in 1 .. MaxSend
        BY <1>1, MaxSendAssumption DEF IInv, Typed
      <4>3. opened'[q][j] = opened[q][j]
        BY <2>12, <3>6, <4>2
      <4> QED
        BY <3>3, <3>4, <4>1, <4>3
    <3> QED
      BY <3>5, <3>6
  <2>15. Unopened(q)' = Unopened(q)
    <3>1. Unopened(q) = {u \in Sent(p) : ~ IsOpened(u)}
      BY <1>1 DEF Unopened
    <3>2. Unopened(q)' = {u \in Sent(p)' : ~ IsOpened(u)'}
      BY <1>1 DEF Unopened
    <3> QED
      BY <2>11, <2>13, <3>1, <3>2
  <2>16. Unopened(p)' = Unopened(p) \ {m}
    <3>1. Unopened(p) = {u \in Sent(q) : ~ IsOpened(u)}
      BY <1>1 DEF Unopened
    <3>2. Unopened(p)' = {u \in Sent(q)' : ~ IsOpened(u)'}
      BY <1>1 DEF Unopened
    <3> QED
      BY <2>11, <2>14, <3>1, <3>2
  <2>17. Knows(p, sess'[p], sess'[q], Sent(q)', Unopened(p)')
    BY <2>7, <2>10, <2>11, <2>16
  <2>18. Knows(q, sess'[q], sess'[p], Sent(p)', Unopened(q)')
    BY <2>7, <2>10, <2>11, <2>15
  <2> QED
    BY <1>1, <2>17, <2>18 DEF InStep
<1> QED
  BY <1>2, <1>3

LEMMA StayInStep == IInv /\ InStep /\ [Next]_vars => InStep'
<1>1. SUFFICES ASSUME IInv, InStep, [Next]_vars PROVE InStep'
  OBVIOUS
<1>2. CASE UNCHANGED vars
  BY <1>1, <1>2 DEF vars, InStep, Unopened, Sent, IsOpened
<1>3. ASSUME NEW p \in Party, Send(p) PROVE InStep'
  BY <1>1, <1>3, SendInStep
<1>4. ASSUME NEW p \in Party, NEW i \in 1 .. MaxSend, Receive(p, i) PROVE InStep'
  BY <1>1, <1>4, ReceiveInStep
<1> QED
  BY <1>1, <1>2, <1>3, <1>4 DEF Next

LEMMA AlwaysInStep == Spec => []InStep
  BY InitiallyInStep, StayInStep, Always, Initially, PTL DEF Spec

LEMMA PassedIs ==
  ASSUME InStep, NEW p \in Party, NEW m \in Sent(Peer(p))
  PROVE  /\ Passed(p, m) <=> PassedBy(sess[p], m)
         /\ m \in Message /\ m.header.dh.no > 0
<1>1. Knows(p, sess[p], sess[Peer(p)], Sent(Peer(p)), Unopened(p))
  BY DEF InStep
<1> DEFINE s == sess[p]
<1>2. /\ m \in Message /\ m.header.dh \in AnyKey /\ m.header.dh.no \in Nat /\ m.header.dh.no > 0
      /\ m.header.dh.owner = Peer(p) /\ s.remote \in AnyKey /\ s.remote.no \in Nat
      /\ s.remote.no > 0 => s.remote.owner = Peer(p)
  <2>1. m \in Message /\ Good(p, s)
    BY <1>1 DEF Knows
  <2> QED
    BY <1>1, <2>1, MessageIs, SessionIs DEF Knows, Written, Shaped
<1>3. NoKey.no = 0
  BY DEF NoKey, Key
<1>4. m.header.dh = s.remote <=> m.header.dh.no = s.remote.no
  BY <1>2, KeyIs
<1>5. m.header.dh.no < s.remote.no => s.remote # NoKey
  BY <1>2, <1>3
<1> QED
  BY <1>2, <1>4, <1>5 DEF Passed, ChainBehind, PassedBy

\* For any number of messages in any order, any MAX_SKIP: a session keeps the keys
\* of the messages it has passed and not opened, each under its own number, and no
\* other key: none leaks and none is missing (skip_until and decrypt, ratchet.rs).
THEOREM KeysKeptAreMissing == Spec => []BufferIsTheGap
<1>1. ASSUME InStep, NEW p \in Party
      PROVE  LET missing == { m \in Sent(Peer(p)) : Passed(p, m) /\ ~ IsOpened(m) } IN
             /\ DOMAIN sess[p].skipped = { SkippedKey(m.header) : m \in missing }
             /\ \A m \in missing : sess[p].skipped[SkippedKey(m.header)] = m.ct.mk
  <2> DEFINE missing == { m \in Sent(Peer(p)) : Passed(p, m) /\ ~ IsOpened(m) }
  <2>1. Gap(sess[p], Unopened(p))
    BY <1>1 DEF InStep, Knows
  <2>2. \A m : m \in missing <=> m \in Unopened(p) /\ PassedBy(sess[p], m)
    BY <1>1, PassedIs DEF Unopened
  <2> HIDE DEF missing
  <2>3. \A m \in missing : /\ SkippedKey(m.header) \in DOMAIN sess[p].skipped
                          /\ sess[p].skipped[SkippedKey(m.header)] = m.ct.mk
    BY <2>1, <2>2 DEF Gap
  <2>4. \A k \in DOMAIN sess[p].skipped : \E m \in missing : k = SkippedKey(m.header)
    BY <2>1, <2>2 DEF Gap
  <2>5. \A k : k \in DOMAIN sess[p].skipped <=> k \in { SkippedKey(m.header) : m \in missing }
    BY <2>3, <2>4
  <2>6. DOMAIN sess[p].skipped = { SkippedKey(m.header) : m \in missing }
    BY <2>5
  <2> QED
    BY <2>3, <2>6 DEF missing
<1>2. InStep => BufferIsTheGap
  BY <1>1 DEF BufferIsTheGap
<1> QED
  BY <1>2, AlwaysInStep, PTL

\* A message the session has passed and not opened opens with the key that was kept.
LEMMA OpensBuffered ==
  ASSUME NEW p \in Party, NEW s, NEW o, NEW M, NEW U, Knows(p, s, o, M, U),
         NEW m \in U, PassedBy(s, m), NEW ad, m.ct.ad = ad, NEW fresh
  PROVE  Decrypts(s, m, ad, fresh)
<1>1. SkippedKey(m.header) \in DOMAIN s.skipped /\ s.skipped[SkippedKey(m.header)] = m.ct.mk
  BY DEF Knows, Gap
<1> QED
  BY <1>1 DEF Decrypts, IsBuffered, Opens

\* A message the session has not passed opens with a key of its own.
LEMMA OpensAhead ==
  ASSUME NEW p \in Party, NEW s, NEW o, NEW M, NEW U, Knows(p, s, o, M, U),
         NEW m \in M, ~ PassedBy(s, m), NEW ad, m.ct.ad = ad, NEW fresh \in AnyKey,
         \/ m.header.dh = s.remote /\ m.header.n <= s.recvN + MaxSkip
         \/ /\ m.header.dh # s.remote
            /\ m.header.prev <= s.recvN + MaxSkip /\ m.header.n <= MaxSkip
  PROVE  Decrypts(s, m, ad, fresh)
<1>1. ~ IsBuffered(s, m.header)
  <2> SUFFICES ASSUME IsBuffered(s, m.header) PROVE FALSE
    OBVIOUS
  <2>1. PICK u \in U : PassedBy(s, u) /\ SkippedKey(u.header) = SkippedKey(m.header)
    BY DEF Knows, Gap, IsBuffered
  <2>2. u \in M /\ u \in Message /\ m \in Message
    BY <2>1 DEF Knows
  <2>3. u.header.dh = m.header.dh /\ u.header.n = m.header.n
    BY <2>1, <2>2, MessageIs
  <2>4. u = m
    BY <2>2, <2>3 DEF Knows, Written
  <2> QED
    BY <2>1, <2>4
<1>2. MaxSkip \in Nat /\ 0 + MaxSkip = MaxSkip
  BY MaxSkipAssumption
<1>3. CASE m.header.dh = s.remote
  <2> DEFINE c == SkipUntil(s, m.header.n)
  <2>1. c = CaughtUp(s, m.header, fresh) /\ c = SkipUntil(s, m.header.n)
    BY <1>3 DEF CaughtUp, Ratcheted, IsNewDh
  <2> HIDE DEF c
  <2>2. c.recvCk # NoChain /\ c.recvCk = m.ct.mk
    BY <1>3, <2>1, CatchesUp DEF Stands
  <2>3. WithinWindow(s, m.header, fresh)
    BY <1>3 DEF WithinWindow, Ratcheted, IsNewDh, CanSkip
  <2> QED
    BY <1>1, <2>1, <2>2, <2>3 DEF Decrypts, Opens, MessageKey
<1>4. CASE m.header.dh # s.remote
  <2> DEFINE r == RatchetDh(SkipUntil(s, m.header.prev), m.header.dh, fresh)
             c == SkipUntil(r, m.header.n)
  <2>1. r = Ratcheted(s, m.header, fresh) /\ c = CaughtUp(s, m.header, fresh)
    BY <1>4 DEF CaughtUp, Ratcheted, IsNewDh
  <2>2. r = RatchetDh(SkipUntil(s, m.header.prev), m.header.dh, fresh) /\ c = SkipUntil(r, m.header.n)
    OBVIOUS
  <2> HIDE DEF r, c
  <2>3. c.recvCk # NoChain /\ c.recvCk = m.ct.mk /\ r.recvN = 0
    BY <1>4, <2>2, TurnsTo DEF Stands
  <2>4. WithinWindow(s, m.header, fresh)
    BY <1>2, <1>4, <2>1, <2>3 DEF WithinWindow, CanSkip
  <2> QED
    BY <1>1, <2>1, <2>3, <2>4 DEF Decrypts, Opens, MessageKey
<1> QED
  BY <1>3, <1>4

\* If both ends bind their messages to the same label, as the comment of encrypt
\* asks (ratchet.rs:253), a message that was sent, not opened and is in reach
\* opens, whatever came before it, for any number of messages and any MAX_SKIP.
THEOREM AllInReachOpen ==
  ASSUME Label[Alice] = Label[Bob]
  PROVE  Spec => []Decryptable
<1>1. ASSUME InStep, NEW p \in Party, NEW m \in Sent(Peer(p)), ~ IsOpened(m), InReach(p, m)
      PROVE  Decrypts(sess[p], m, Label[p], FreshKey(p))
  <2> DEFINE s == sess[p]
             o == sess[Peer(p)]
             M == Sent(Peer(p))
             U == Unopened(p)
             fresh == FreshKey(p)
             ad == Label[p]
  <2>1. Knows(p, s, o, M, U) /\ m \in M /\ m \in U
    BY <1>1 DEF InStep, Unopened
  <2>2. m \in Message /\ m.header.dh.no > 0 /\ (Passed(p, m) <=> PassedBy(s, m))
    BY <1>1, PassedIs
  <2>3. m.ct.ad = ad
    <3>1. m.ct.ad = Label[Peer(p)]
      BY <2>1 DEF Knows, Written
    <3> QED
      BY <3>1 DEF Party, Peer
  <2>4. fresh \in AnyKey
    <3>1. s.self.no \in Nat /\ p \in {"alice", "bob"}
      BY <2>1, SessionIs DEF Knows, Party, Alice, Bob
    <3>2. s.self.no + 1 \in Nat
      BY <3>1
    <3> QED
      BY <3>1, <3>2 DEF FreshKey, Key, AnyKey
  <2>5. s.remote.no \in Nat /\ m.header.dh.no \in Nat /\ NoKey.no = 0
    BY <2>1, <2>2, SessionIs, MessageIs DEF Knows, NoKey, Key
  <2>6. \/ Passed(p, m)
        \/ m.header.dh = s.remote /\ m.header.n <= s.recvN + MaxSkip
        \/ /\ m.header.dh # s.remote
           /\ m.header.prev <= s.recvN + MaxSkip /\ m.header.n <= MaxSkip
    <3>1. ChainAhead(p, m) => m.header.dh # s.remote
      BY <2>2, <2>5 DEF ChainAhead
    <3> QED
      BY <1>1, <3>1 DEF InReach
  <2> HIDE DEF s, o, M, U, fresh, ad
  <2>7. CASE PassedBy(s, m)
    <3>1. Decrypts(s, m, ad, fresh)
      BY <2>1, <2>3, <2>7, OpensBuffered
    <3> QED
      BY <3>1 DEF s, ad, fresh
  <2>8. CASE ~ PassedBy(s, m)
    <3>1. Decrypts(s, m, ad, fresh)
      BY <2>1, <2>2, <2>3, <2>4, <2>6, <2>8, OpensAhead
    <3> QED
      BY <3>1 DEF s, ad, fresh
  <2> QED
    BY <2>7, <2>8
<1>2. InStep => Decryptable
  BY <1>1 DEF Decryptable
<1> QED
  BY <1>2, AlwaysInStep, PTL

=============================================================================
