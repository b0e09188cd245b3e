-------------------------- MODULE Conversation_proofs --------------------------
(***************************************************************************)
(* Proofs about Conversation.  First, whatever overlaps, fails or ends:    *)
(* a message whose key is used up is kept, about to be kept, or torn.      *)
(***************************************************************************)
EXTENDS Conversation, FiniteSetTheorems, TLAPS

LEMMA Parties ==
  /\ \A p \in Party : Peer(p) \in Party /\ Peer(p) # p /\ Peer(Peer(p)) = p
  /\ \A p, q \in Party : q # p => q = Peer(p)
  BY DEF Party, Peer, Alice, Bob

IsSeq(f) == f \in Seq({f[i] : i \in DOMAIN f})

LEMMA SeqIs ==
  ASSUME NEW S, NEW f \in Seq(S)
  PROVE  IsSeq(f) /\ Len(f) \in Nat /\ DOMAIN f = 1 .. Len(f)
<1>1. Len(f) \in Nat /\ DOMAIN f = 1 .. Len(f) /\ f = [i \in 1 .. Len(f) |-> f[i]]
  OBVIOUS
<1>2. f \in [1 .. Len(f) -> {f[i] : i \in DOMAIN f}]
  BY <1>1
<1> QED
  BY <1>1, <1>2 DEF IsSeq

IsLonger(g, f, m) ==
    /\ Len(f) \in Nat /\ DOMAIN f = 1 .. Len(f)
    /\ IsSeq(g) /\ Len(g) = Len(f) + 1 /\ DOMAIN g = 1 .. Len(f) + 1
    /\ g[Len(f) + 1] = m /\ \A i \in 1 .. Len(f) : g[i] = f[i]
Longer(f, m) == Append(f, m)

LEMMA Appended == \A f, m : IsSeq(f) => IsLonger(Longer(f, m), f, m)
<1> SUFFICES ASSUME NEW f, IsSeq(f), NEW m PROVE IsLonger(Longer(f, m), f, m)
  OBVIOUS
<1> DEFINE g == Longer(f, m)
<1>0. g = Append(f, m)
  BY DEF Longer
<1> HIDE DEF g
<1> DEFINE S == {f[i] : i \in DOMAIN f}
           T == S \cup {m}
<1>1. f \in Seq(S)
  BY DEF IsSeq
<1>2. Len(f) \in Nat /\ DOMAIN f = 1 .. Len(f)
  BY <1>1, SeqIs
<1>3. f \in [1 .. Len(f) -> T]
  BY <1>1
<1> HIDE DEF S
<1>4. f \in Seq(T) /\ m \in T
  BY <1>2, <1>3
<1> HIDE DEF T
<1>5. g \in Seq(T) /\ Len(g) = Len(f) + 1 /\ g[Len(f) + 1] = m /\ \A i \in 1 .. Len(f) : g[i] = f[i]
  BY <1>0, <1>4
<1>6. IsSeq(g) /\ DOMAIN g = 1 .. Len(g)
  BY <1>5, SeqIs
<1>7. IsLonger(g, f, m)
  BY <1>2, <1>5, <1>6 DEF IsLonger
<1> QED
  BY <1>7 DEF g

\* One slot of one client changes.
IsOps(f) == f = [p \in Party |-> [s \in Slot |-> f[p][s]]]
With(f, p, s, op) == [f EXCEPT ![p][s] = op]

LEMMA SlotSet ==
  ASSUME NEW f, IsOps(f), NEW p \in Party, NEW s \in Slot, NEW op
  PROVE  LET g == With(f, p, s, op) IN
         /\ IsOps(g) /\ g[p][s] = op
         /\ \A q \in Party : \A t \in Slot : q # p \/ t # s => g[q][t] = f[q][t]
<1> DEFINE g == With(f, p, s, op)
<1>0. f = [q \in Party |-> [t \in Slot |-> f[q][t]]] /\ g = [f EXCEPT ![p][s] = op]
  BY DEF IsOps, With
<1> HIDE DEF g
<1> DEFINE r == [f[p] EXCEPT ![s] = op]
<1>1. f[p] = [t \in Slot |-> f[p][t]]
  BY <1>0
<1>2. r = [t \in Slot |-> r[t]] /\ r[s] = op /\ \A t \in Slot : t # s => r[t] = f[p][t]
  BY <1>1
<1>3. g = [f EXCEPT ![p] = r]
  BY <1>0
<1> HIDE DEF r
<1>4. g[p] = r /\ DOMAIN g = Party /\ \A q \in Party : q # p => g[q] = f[q]
  BY <1>0, <1>3
<1>5. \A q \in Party : g[q] = [t \in Slot |-> g[q][t]]
  BY <1>0, <1>2, <1>4
<1>6. g = [q \in Party |-> g[q]]
  BY <1>0, <1>3
<1>7. g = [q \in Party |-> [t \in Slot |-> g[q][t]]]
  BY <1>5, <1>6, Zenon
<1>8. IsOps(g) /\ g[p][s] = op
        /\ \A q \in Party : \A t \in Slot : q # p \/ t # s => g[q][t] = f[q][t]
  BY <1>2, <1>4, <1>7 DEF IsOps
<1> QED
  BY <1>8 DEF g

-----------------------------------------------------------------------------

Typed ==
    /\ ops = [p \in Party |-> [s \in Slot |-> ops[p][s]]]
    /\ row = [p \in Party |-> row[p]] /\ issued = [p \in Party |-> issued[p]]
    /\ sent = [p \in Party |-> sent[p]] /\ stored = [p \in Party |-> stored[p]]
    /\ torn = [p \in Party |-> torn[p]]
    /\ opened \in [Party -> [1 .. MaxSend -> Nat]]

\* Every message has its number, and one for every save under way is left.
Numbered ==
    \A p \in Party :
      /\ IsSeq(issued[p]) /\ \A i \in 1 .. Len(issued[p]) : issued[p][i].ct.text = <<p, i>>
      /\ Len(issued[p]) + Cardinality(Steps(p, "save")) <= MaxSend

\* What is handled was issued.
Sourced ==
    \A p \in Party :
      /\ sent[p] \subseteq Messages(p)
      /\ \A s \in Steps(p, "transmit") : ops[p][s].msg \in Messages(p)
      /\ \A s \in Steps(p, "keep") : ops[p][s].msg \in Messages(Peer(p))

InHands(p) == {ops[p][s].msg : s \in Steps(p, "store")}
Kept(p) == stored[p] \cup torn[p] \cup InHands(p)

\* What is kept was issued and opened, and the other way round.
Booked ==
    /\ \A p \in Party : \A i \in 1 .. MaxSend : opened[p][i] > 0 => i <= Len(issued[p])
    /\ \A p \in Party : Kept(p) \subseteq Messages(Peer(p))
    /\ \A p \in Party : \A m \in Messages(Peer(p)) : IsOpened(m) <=> m \in Kept(p)

KInv == Typed /\ Numbered /\ Sourced /\ Booked

LEMMA KInit == Init => KInv
<1> SUFFICES ASSUME Init PROVE KInv
  OBVIOUS
<1>1. \A p \in Party : \A s \in Slot : ops[p][s].step = "none"
  BY DEF Init, NoOp
<1>2. \A p \in Party : /\ Steps(p, "save") = {} /\ Steps(p, "transmit") = {}
                       /\ Steps(p, "keep") = {} /\ Steps(p, "store") = {}
  BY <1>1 DEF Steps
<1>3. \A p \in Party : issued[p] = <<>> /\ Messages(p) = {}
  BY DEF Init, Messages
<1>4. IsSeq(<<>>) /\ Len(<<>>) = 0 /\ Cardinality({}) = 0
  <2>1. <<>> \in Seq({})
    OBVIOUS
  <2> QED
    BY <2>1, SeqIs, FS_EmptySet
<1>5. Typed
  <2>1. \A p \in Party : ops[p] = [s \in Slot |-> ops[p][s]]
    BY DEF Init
  <2>2. ops = [p \in Party |-> ops[p]]
    BY DEF Init
  <2>3. ops = [p \in Party |-> [s \in Slot |-> ops[p][s]]]
    BY <2>1, <2>2, Zenon
  <2>4. /\ row = [p \in Party |-> row[p]] /\ issued = [p \in Party |-> issued[p]]
        /\ sent = [p \in Party |-> sent[p]] /\ stored = [p \in Party |-> stored[p]]
        /\ torn = [p \in Party |-> torn[p]]
    BY DEF Init
  <2>5. opened \in [Party -> [1 .. MaxSend -> Nat]]
    BY DEF Init
  <2> QED
    BY <2>3, <2>4, <2>5, Zenon DEF Typed
<1>6. Numbered
  <2>1. \A p \in Party : IsSeq(issued[p]) /\ Len(issued[p]) = 0 /\ Cardinality(Steps(p, "save")) = 0
    BY <1>2, <1>3, <1>4
  <2>2. 0 + 0 <= MaxSend /\ \A i : i \notin 1 .. 0
    BY ConversationAssumption
  <2> QED
    BY <2>1, <2>2 DEF Numbered
<1>7. Sourced
  BY <1>2 DEF Init, Sourced
<1>8. \A p \in Party : Kept(p) = {}
  BY <1>2 DEF Init, Kept, InHands
<1>9. Booked
  BY <1>3, <1>8, Parties DEF Init, Booked
<1> QED
  BY <1>5, <1>6, <1>7, <1>9 DEF KInv

-----------------------------------------------------------------------------
(***************************************************************************)
(* The effects a step may have, and what they preserve.                    *)
(***************************************************************************)

LEMMA SlotSteps ==
  ASSUME Typed, NEW p \in Party, NEW s \in Slot, NEW op, ops' = [ops EXCEPT ![p][s] = op]
  PROVE  /\ ops' = [q \in Party |-> [t \in Slot |-> ops'[q][t]]] /\ ops'[p][s] = op
         /\ \A q \in Party : \A t \in Slot : q # p \/ t # s => ops'[q][t] = ops[q][t]
         /\ \A q \in Party : \A step : \A t \in Slot :
              t \in Steps(q, step)' <=> IF q = p /\ t = s THEN op.step = step ELSE t \in Steps(q, step)
<1>1. IsOps(ops) /\ ops' = With(ops, p, s, op)
  BY DEF Typed, IsOps, With
<1>2. /\ IsOps(With(ops, p, s, op)) /\ With(ops, p, s, op)[p][s] = op
      /\ \A q \in Party : \A t \in Slot : q # p \/ t # s => With(ops, p, s, op)[q][t] = ops[q][t]
  BY <1>1, SlotSet
<1>3. /\ IsOps(ops') /\ ops'[p][s] = op
      /\ \A q \in Party : \A t \in Slot : q # p \/ t # s => ops'[q][t] = ops[q][t]
  BY <1>1, <1>2
<1>4. \A q \in Party : \A step : \A t \in Slot :
        t \in Steps(q, step)' <=> IF q = p /\ t = s THEN op.step = step ELSE t \in Steps(q, step)
  BY <1>3 DEF Steps
<1> QED
  BY <1>3, <1>4 DEF IsOps

LEMMA StepsIn == \A q : \A step : Steps(q, step) \subseteq Slot /\ Steps(q, step)' \subseteq Slot
  BY DEF Steps

\* No handler comes or goes with a message it is to store.
LEMMA SameHands ==
  ASSUME Typed, NEW p \in Party, NEW s \in Slot, NEW op, ops' = [ops EXCEPT ![p][s] = op],
         ops[p][s].step # "store", op.step # "store"
  PROVE  \A q \in Party : InHands(q)' = InHands(q)
<1> SUFFICES ASSUME NEW q \in Party PROVE InHands(q)' = InHands(q)
  OBVIOUS
<1>1. s \notin Steps(p, "store")
  BY DEF Steps
<1>2. \A t \in Slot : t \in Steps(q, "store")' <=> t \in Steps(q, "store")
  BY <1>1, SlotSteps
<1>3. Steps(q, "store")' = Steps(q, "store")
  BY <1>2, StepsIn
<1>4. \A t \in Steps(q, "store") : ops'[q][t] = ops[q][t]
  <2>1. ASSUME NEW t \in Steps(q, "store") PROVE ops'[q][t] = ops[q][t]
    <3>1. t \in Slot /\ (q # p \/ t # s)
      BY <1>1 DEF Steps
    <3> QED
      BY <3>1, SlotSteps
  <2> QED
    BY <2>1
<1> QED
  BY <1>3, <1>4 DEF InHands

\* The room for messages: one save more, or not one more.
LEMMA Room ==
  ASSUME Typed, Numbered, NEW p \in Party, NEW s \in Slot, NEW op,
         ops' = [ops EXCEPT ![p][s] = op], NEW n \in Nat,
         IF op.step = "save" THEN Len(issued[p]) + Cardinality(Steps(p, "save")) < MaxSend /\ n = Len(issued[p])
         ELSE \/ n = Len(issued[p])
              \/ n = Len(issued[p]) + 1 /\ ops[p][s].step = "save"
  PROVE  /\ n + Cardinality(Steps(p, "save"))' <= MaxSend
         /\ \A q \in Party : q # p => Steps(q, "save")' = Steps(q, "save")
<1> DEFINE A == Steps(p, "save")
           B == Steps(p, "save")'
           len == Len(issued[p])
<1>1. /\ IsFiniteSet(A) /\ IsFiniteSet(B) /\ Cardinality(A) \in Nat /\ Cardinality(B) \in Nat
  <2>1. IsFiniteSet(A) /\ IsFiniteSet(B)
    BY StepsIn, ConversationAssumption, FS_Subset
  <2> QED
    BY <2>1, FS_CardinalityType
<1>2. len \in Nat /\ len + Cardinality(A) <= MaxSend /\ MaxSend \in Nat
  <2>1. IsSeq(issued[p])
    BY DEF Numbered
  <2>2. len \in Nat
    BY <2>1, SeqIs DEF IsSeq
  <2> QED
    BY <2>2, ConversationAssumption DEF Numbered
<1>3. s \in A <=> ops[p][s].step = "save"
  BY DEF Steps
<1>4. \A t \in Slot : t \in B <=> IF t = s THEN op.step = "save" ELSE t \in A
  <2>1. \A q \in Party : \A step : \A t \in Slot :
          t \in Steps(q, step)' <=> IF q = p /\ t = s THEN op.step = step ELSE t \in Steps(q, step)
    BY SlotSteps, Zenon
  <2> QED
    BY <2>1
<1>5. A \subseteq Slot /\ B \subseteq Slot
  BY StepsIn
<1>6. \A q \in Party : q # p => Steps(q, "save")' = Steps(q, "save")
  <2>1. \A q \in Party : q # p => \A t \in Slot : t \in Steps(q, "save")' <=> t \in Steps(q, "save")
    BY SlotSteps
  <2> QED
    BY <2>1, StepsIn
<1>7. n + Cardinality(B) <= MaxSend
  <2> HIDE DEF A, B, len
  <2>1. CASE op.step = "save"
    <3>1. B = A \cup {s}
      BY <1>4, <1>5, <2>1
    <3>2. Cardinality(B) <= Cardinality(A) + 1
      BY <1>1, <3>1, FS_AddElement
    <3> QED
      BY <1>1, <1>2, <2>1, <3>2 DEF len, A
  <2>2. CASE op.step # "save" /\ n = Len(issued[p])
    <3>1. B \subseteq A
      BY <1>4, <1>5, <2>2
    <3>2. Cardinality(B) <= Cardinality(A)
      BY <1>1, <3>1, FS_Subset
    <3> QED
      BY <1>1, <1>2, <2>2, <3>2 DEF len
  <2>3. CASE op.step # "save" /\ n = Len(issued[p]) + 1 /\ ops[p][s].step = "save"
    <3>1. B = A \ {s} /\ s \in A
      BY <1>3, <1>4, <1>5, <2>3
    <3>2. Cardinality(B) = Cardinality(A) - 1
      BY <1>1, <3>1, FS_RemoveElement
    <3> QED
      BY <1>1, <1>2, <2>3, <3>2 DEF len
  <2> QED
    BY <2>1, <2>2, <2>3
<1>8. Cardinality(B) = Cardinality(Steps(p, "save"))'
  OBVIOUS
<1> QED
  BY <1>6, <1>7, <1>8

\* A step that issues, opens and keeps nothing.
LEMMA Quiet ==
  ASSUME KInv, NEW p \in Party, NEW s \in Slot, NEW op, ops' = [ops EXCEPT ![p][s] = op],
         issued' = issued, opened' = opened, stored' = stored, torn' = torn,
         row' = [q \in Party |-> row'[q]], sent' = [q \in Party |-> sent'[q]],
         \A q \in Party : sent'[q] \subseteq Messages(q),
         ops[p][s].step # "store", op.step # "store",
         op.step = "transmit" => op.msg \in Messages(p),
         op.step = "keep" => op.msg \in Messages(Peer(p)),
         op.step = "save" => Len(issued[p]) + Cardinality(Steps(p, "save")) < MaxSend
  PROVE  KInv'
<1>1. Typed /\ Numbered /\ Sourced /\ Booked
  BY DEF KInv
<1>2. \A q \in Party : Messages(q)' = Messages(q)
  BY DEF Messages
<1>3. /\ ops' = [q \in Party |-> [t \in Slot |-> ops'[q][t]]] /\ ops'[p][s] = op
      /\ \A q \in Party : \A t \in Slot : q # p \/ t # s => ops'[q][t] = ops[q][t]
      /\ \A q \in Party : \A step : \A t \in Slot :
           t \in Steps(q, step)' <=> IF q = p /\ t = s THEN op.step = step ELSE t \in Steps(q, step)
  BY <1>1, SlotSteps
<1>4. Typed'
  <2>1. /\ issued' = [q \in Party |-> issued'[q]] /\ stored' = [q \in Party |-> stored'[q]]
        /\ torn' = [q \in Party |-> torn'[q]] /\ opened' \in [Party -> [1 .. MaxSend -> Nat]]
    BY <1>1 DEF Typed
  <2> QED
    BY <1>3, <2>1, Zenon DEF Typed
<1>5. Numbered'
  <2>1. Len(issued[p]) \in Nat
    BY <1>1, SeqIs DEF Numbered, IsSeq
  <2>2. /\ Len(issued[p]) + Cardinality(Steps(p, "save"))' <= MaxSend
        /\ \A q \in Party : q # p => Steps(q, "save")' = Steps(q, "save")
    BY <1>1, <2>1, Room
  <2>3. \A q \in Party : Len(issued[q]) + Cardinality(Steps(q, "save"))' <= MaxSend
    BY <1>1, <2>2 DEF Numbered
  <2> QED
    BY <1>1, <2>3 DEF Numbered
<1>6. Sourced'
  <2>1. ASSUME NEW q \in Party, NEW t \in Steps(q, "transmit")' PROVE ops'[q][t].msg \in Messages(q)
    <3>1. t \in Slot
      BY StepsIn
    <3>2. CASE q = p /\ t = s
      BY <1>3, <2>1, <3>1, <3>2
    <3>3. CASE ~ (q = p /\ t = s)
      BY <1>1, <1>3, <2>1, <3>1, <3>3 DEF Sourced
    <3> QED
      BY <3>2, <3>3
  <2>2. ASSUME NEW q \in Party, NEW t \in Steps(q, "keep")' PROVE ops'[q][t].msg \in Messages(Peer(q))
    <3>1. t \in Slot
      BY StepsIn
    <3>2. CASE q = p /\ t = s
      BY <1>3, <2>2, <3>1, <3>2
    <3>3. CASE ~ (q = p /\ t = s)
      BY <1>1, <1>3, <2>2, <3>1, <3>3 DEF Sourced
    <3> QED
      BY <3>2, <3>3
  <2> QED
    BY <1>2, <2>1, <2>2, Parties DEF Sourced
<1>7. Booked'
  <2>1. \A q \in Party : Kept(q)' = Kept(q)
    BY <1>1, SameHands DEF Kept
  <2>2. \A m : IsOpened(m)' <=> IsOpened(m)
    BY DEF IsOpened
  <2> QED
    BY <1>1, <1>2, <2>1, <2>2, Parties DEF Booked
<1> QED
  BY <1>4, <1>5, <1>6, <1>7 DEF KInv

\* A step that issues m.
LEMMA Issue ==
  ASSUME KInv, NEW p \in Party, NEW s \in Slot, NEW op, ops' = [ops EXCEPT ![p][s] = op],
         NEW m, m.ct.text = <<p, Len(issued[p]) + 1>>,
         issued' = [issued EXCEPT ![p] = Append(issued[p], m)],
         row' = [q \in Party |-> row'[q]],
         sent' = sent, opened' = opened, stored' = stored, torn' = torn,
         ops[p][s].step = "save", op.step = "transmit", op.msg = m
  PROVE  KInv'
<1> DEFINE n == Len(issued[p]) + 1
<1>1. Typed /\ Numbered /\ Sourced /\ Booked
  BY DEF KInv
<1>2. /\ issued = [q \in Party |-> issued[q]] /\ IsSeq(issued[p]) /\ Len(issued[p]) \in Nat /\ n \in Nat
  <2>1. IsSeq(issued[p])
    BY <1>1 DEF Numbered
  <2>2. Len(issued[p]) \in Nat
    BY <2>1, SeqIs DEF IsSeq
  <2> QED
    BY <1>1, <2>1, <2>2 DEF Typed
<1>3. /\ issued'[p] = Append(issued[p], m) /\ issued' = [q \in Party |-> issued'[q]]
      /\ \A q \in Party : q # p => issued'[q] = issued[q]
  BY <1>2
<1>4. /\ DOMAIN issued[p] = 1 .. Len(issued[p])
      /\ IsSeq(issued'[p]) /\ Len(issued'[p]) = n /\ DOMAIN issued'[p] = 1 .. n
      /\ issued'[p][n] = m /\ \A i \in 1 .. Len(issued[p]) : issued'[p][i] = issued[p][i]
  <2> DEFINE f == issued[p]
             g == issued'[p]
  <2>1. IsSeq(f) /\ g = Longer(f, m)
    BY <1>2, <1>3 DEF Longer
  <2> HIDE DEF f, g
  <2>2. IsLonger(g, f, m)
    BY <2>1, Appended
  <2> QED
    BY <2>2 DEF f, g, IsLonger
<1>5. /\ ops' = [q \in Party |-> [t \in Slot |-> ops'[q][t]]] /\ ops'[p][s] = op
      /\ \A q \in Party : \A t \in Slot : q # p \/ t # s => ops'[q][t] = ops[q][t]
      /\ \A q \in Party : \A step : \A t \in Slot :
           t \in Steps(q, step)' <=> IF q = p /\ t = s THEN op.step = step ELSE t \in Steps(q, step)
  BY <1>1, SlotSteps
<1>6. /\ n + Cardinality(Steps(p, "save"))' <= MaxSend
      /\ \A q \in Party : q # p => Steps(q, "save")' = Steps(q, "save")
  BY <1>1, <1>2, Room
<1>7. Cardinality(Steps(p, "save"))' \in Nat
  <2>1. IsFiniteSet(Steps(p, "save")')
    BY StepsIn, ConversationAssumption, FS_Subset
  <2> QED
    BY <2>1, FS_CardinalityType
<1>8. n \in 1 .. MaxSend
  BY <1>2, <1>6, <1>7, ConversationAssumption
<1>9. Messages(p)' = Messages(p) \cup {m}
  <2>1. \A i : i \in 1 .. n <=> i \in 1 .. Len(issued[p]) \/ i = n
    BY <1>2
  <2>2. \A x : x \in Messages(p)' <=> \E i \in 1 .. n : x = issued'[p][i]
    BY <1>4 DEF Messages
  <2>3. \A x : x \in Messages(p) <=> \E i \in 1 .. Len(issued[p]) : x = issued[p][i]
    BY <1>4 DEF Messages
  <2>4. \A x : x \in Messages(p)' <=> x \in Messages(p) \/ x = m
    BY <1>4, <2>1, <2>2, <2>3
  <2> QED
    BY <2>4
<1>10. \A q \in Party : q # p => Messages(q)' = Messages(q)
  BY <1>3 DEF Messages
<1>11. Typed'
  <2>1. /\ sent' = [q \in Party |-> sent'[q]] /\ stored' = [q \in Party |-> stored'[q]]
        /\ torn' = [q \in Party |-> torn'[q]] /\ opened' \in [Party -> [1 .. MaxSend -> Nat]]
    BY <1>1 DEF Typed
  <2> QED
    BY <1>3, <1>5, <2>1, Zenon DEF Typed
<1>12. Numbered'
  <2>1. ASSUME NEW q \in Party
        PROVE  /\ IsSeq(issued'[q]) /\ \A i \in 1 .. Len(issued'[q]) : issued'[q][i].ct.text = <<q, i>>
               /\ Len(issued'[q]) + Cardinality(Steps(q, "save"))' <= MaxSend
    <3>1. CASE q # p
      BY <1>1, <1>3, <1>6, <3>1 DEF Numbered
    <3>2. CASE q = p
      <4>1. ASSUME NEW i \in 1 .. n PROVE issued'[p][i].ct.text = <<p, i>>
        <5>1. CASE i = n
          BY <1>4, <5>1
        <5>2. CASE i # n
          <6>1. i \in 1 .. Len(issued[p])
            BY <1>2, <5>2
          <6> QED
            BY <1>1, <1>4, <6>1 DEF Numbered
        <5> QED
          BY <5>1, <5>2
      <4> QED
        BY <1>4, <1>6, <3>2, <4>1
    <3> QED
      BY <3>1, <3>2
  <2> QED
    BY <2>1 DEF Numbered
<1>13. \A q \in Party : Messages(q) \subseteq Messages(q)'
  BY <1>9, <1>10
<1>14. Sourced'
  <2>1. ASSUME NEW q \in Party, NEW t \in Steps(q, "transmit")' PROVE ops'[q][t].msg \in Messages(q)'
    <3>1. t \in Slot
      BY StepsIn
    <3>2. CASE q = p /\ t = s
      BY <1>5, <1>9, <3>2
    <3>3. CASE ~ (q = p /\ t = s)
      <4>1. t \in Steps(q, "transmit") /\ ops'[q][t] = ops[q][t]
        BY <1>5, <2>1, <3>1, <3>3
      <4> QED
        BY <1>1, <1>13, <4>1 DEF Sourced
    <3> QED
      BY <3>2, <3>3
  <2>2. ASSUME NEW q \in Party, NEW t \in Steps(q, "keep")' PROVE ops'[q][t].msg \in Messages(Peer(q))'
    <3>1. t \in Slot
      BY StepsIn
    <3>2. ~ (q = p /\ t = s)
      BY <1>5, <2>2, <3>1
    <3>3. t \in Steps(q, "keep") /\ ops'[q][t] = ops[q][t]
      BY <1>5, <2>2, <3>1, <3>2
    <3> QED
      BY <1>1, <1>13, <3>3, Parties DEF Sourced
  <2>3. \A q \in Party : sent'[q] \subseteq Messages(q)'
    BY <1>1, <1>13 DEF Sourced
  <2> QED
    BY <2>1, <2>2, <2>3 DEF Sourced
<1>15. \A q \in Party : Kept(q)' = Kept(q)
  <2>1. \A q \in Party : InHands(q)' = InHands(q)
    BY <1>1, SameHands
  <2> QED
    BY <2>1 DEF Kept
<1>16. \A x : IsOpened(x)' <=> IsOpened(x)
  BY DEF IsOpened
<1>17. ~ IsOpened(m) /\ m \notin Messages(p)
  <2>1. opened[p][n] \in Nat /\ ~ (n <= Len(issued[p]))
    <3> DEFINE D == 1 .. MaxSend
    <3>1. n \in D /\ opened \in [Party -> [D -> Nat]]
      BY <1>1, <1>8 DEF Typed
    <3>2. ~ (n <= Len(issued[p]))
      BY <1>2
    <3> HIDE DEF D, n
    <3>3. opened[p] \in [D -> Nat]
      BY <3>1
    <3> QED
      BY <3>1, <3>2, <3>3
  <2>2. ~ (opened[p][n] > 0)
    BY <1>1, <1>8, <2>1 DEF Booked
  <2>3. m.ct.text[1] = p /\ m.ct.text[2] = n
    OBVIOUS
  <2>4. ~ IsOpened(m)
    BY <2>2, <2>3 DEF IsOpened
  <2>5. \A i \in 1 .. Len(issued[p]) : issued[p][i].ct.text = <<p, i>> /\ i # n
    BY <1>1, <1>2 DEF Numbered
  <2>6. \A i \in 1 .. Len(issued[p]) : issued[p][i].ct.text[2] # n
    BY <2>5
  <2>7. m \notin Messages(p)
    BY <1>4, <2>3, <2>6 DEF Messages
  <2> QED
    BY <2>4, <2>7
<1>18. Booked'
  <2>1. \A q \in Party : \A i \in 1 .. MaxSend : opened'[q][i] > 0 => i <= Len(issued'[q])
    <3>1. \A i \in 1 .. MaxSend : i <= Len(issued[p]) => i <= n
      BY <1>2
    <3> QED
      BY <1>1, <1>3, <1>4, <3>1 DEF Booked
  <2>2. \A q \in Party : Kept(q)' \subseteq Messages(Peer(q))'
    BY <1>1, <1>13, <1>15, Parties DEF Booked
  <2>3. ASSUME NEW q \in Party, NEW x \in Messages(Peer(q))' PROVE IsOpened(x)' <=> x \in Kept(q)'
    <3>1. CASE x \in Messages(Peer(q))
      BY <1>1, <1>15, <1>16, <3>1 DEF Booked
    <3>2. CASE x \notin Messages(Peer(q))
      <4>1. Peer(q) = p /\ x = m
        BY <1>9, <1>10, <2>3, <3>2, Parties
      <4>2. m \notin Kept(q)
        BY <1>1, <1>17, <4>1 DEF Booked
      <4> QED
        BY <1>15, <1>16, <1>17, <4>1, <4>2
    <3> QED
      BY <3>1, <3>2
  <2> QED
    BY <2>1, <2>2, <2>3 DEF Booked
<1> QED
  BY <1>11, <1>12, <1>14, <1>18 DEF KInv

\* A step that opens m, and is to store it.
LEMMA Opening ==
  ASSUME KInv, NEW p \in Party, NEW s \in Slot, NEW op, ops' = [ops EXCEPT ![p][s] = op],
         NEW m \in Messages(Peer(p)), opened' = [opened EXCEPT ![Peer(p)][m.ct.text[2]] = @ + 1],
         row' = [q \in Party |-> row'[q]],
         issued' = issued, sent' = sent, stored' = stored, torn' = torn,
         ops[p][s].step = "keep", op.step = "store", op.msg = m
  PROVE  KInv'
<1> DEFINE q == Peer(p)
<1>1. Typed /\ Numbered /\ Sourced /\ Booked
  BY DEF KInv
<1>2. /\ q \in Party /\ q # p /\ Peer(q) = p /\ \A r \in Party : r = p \/ r = q
  BY Parties
<1>3. \A r \in Party : Messages(r)' = Messages(r)
  BY DEF Messages
<1>4. /\ ops' = [r \in Party |-> [t \in Slot |-> ops'[r][t]]] /\ ops'[p][s] = op
      /\ \A r \in Party : \A t \in Slot : r # p \/ t # s => ops'[r][t] = ops[r][t]
      /\ \A r \in Party : \A step : \A t \in Slot :
           t \in Steps(r, step)' <=> IF r = p /\ t = s THEN op.step = step ELSE t \in Steps(r, step)
  BY <1>1, SlotSteps
<1>5. \A r \in Party : Len(issued[r]) \in Nat /\ DOMAIN issued[r] = 1 .. Len(issued[r])
  BY <1>1, SeqIs DEF Numbered, IsSeq
<1>6. PICK i \in 1 .. Len(issued[q]) : m = issued[q][i]
  BY <1>2, <1>5 DEF Messages
<1>7. m.ct.text = <<q, i>>
  BY <1>1, <1>2, <1>6 DEF Numbered
<1>8. \A r \in Party : Len(issued[r]) <= MaxSend
  <2> SUFFICES ASSUME NEW r \in Party PROVE Len(issued[r]) <= MaxSend
    OBVIOUS
  <2>1. IsFiniteSet(Steps(r, "save"))
    BY StepsIn, ConversationAssumption, FS_Subset
  <2>2. Cardinality(Steps(r, "save")) \in Nat
    BY <2>1, FS_CardinalityType
  <2>3. Len(issued[r]) + Cardinality(Steps(r, "save")) <= MaxSend
    BY <1>1 DEF Numbered
  <2> QED
    BY <1>5, <2>2, <2>3, ConversationAssumption
<1>9. /\ opened' \in [Party -> [1 .. MaxSend -> Nat]] /\ opened'[p] = opened[p]
      /\ opened'[q][i] > 0 /\ \A j \in 1 .. MaxSend : j # i => opened'[q][j] = opened[q][j]
  <2> DEFINE D == 1 .. MaxSend
             f == opened[q]
             n == opened[q][i] + 1
             g == [f EXCEPT ![i] = n]
  <2>1. i \in D /\ opened \in [Party -> [D -> Nat]]
    BY <1>1, <1>2, <1>5, <1>6, <1>8, ConversationAssumption DEF Typed
  <2>2. m.ct.text[2] = i
    BY <1>7
  <2>3. opened' = [opened EXCEPT ![q] = g]
    BY <2>2
  <2>4. f \in [D -> Nat] /\ n \in Nat /\ n > 0
    <3> HIDE DEF D, q
    <3>1. f \in [D -> Nat]
      BY <1>2, <2>1
    <3>2. f[i] \in Nat
      BY <2>1, <3>1
    <3> QED
      BY <3>1, <3>2
  <2>8. q \in Party /\ p \in Party /\ q # p
    BY <1>2
  <2> HIDE DEF q, f, D, n
  <2>5. g \in [D -> Nat] /\ g[i] = n /\ \A j \in D : j # i => g[j] = f[j]
    BY <2>1, <2>4
  <2> HIDE DEF g
  <2>6. /\ opened' \in [Party -> [D -> Nat]] /\ opened'[q] = g /\ opened'[p] = opened[p]
    BY <2>1, <2>3, <2>5, <2>8
  <2>7. opened'[q][i] > 0 /\ \A j \in D : j # i => opened'[q][j] = opened[q][j]
    BY <2>4, <2>5, <2>6 DEF f
  <2> QED
    BY <2>6, <2>7 DEF D
<1>10. Typed'
  <2>1. /\ issued' = [r \in Party |-> issued'[r]] /\ sent' = [r \in Party |-> sent'[r]]
        /\ stored' = [r \in Party |-> stored'[r]] /\ torn' = [r \in Party |-> torn'[r]]
    BY <1>1 DEF Typed
  <2> QED
    BY <1>4, <1>9, <2>1, Zenon DEF Typed
<1>11. Numbered'
  <2>1. /\ Len(issued[p]) + Cardinality(Steps(p, "save"))' <= MaxSend
        /\ \A r \in Party : r # p => Steps(r, "save")' = Steps(r, "save")
    BY <1>1, <1>5, Room
  <2>2. \A r \in Party : Len(issued[r]) + Cardinality(Steps(r, "save"))' <= MaxSend
    BY <1>1, <2>1 DEF Numbered
  <2> QED
    BY <1>1, <2>2 DEF Numbered
<1>12. Sourced'
  <2>1. ASSUME NEW r \in Party, NEW t \in Slot
        PROVE  /\ t \in Steps(r, "transmit")' => t \in Steps(r, "transmit") /\ ops'[r][t] = ops[r][t]
               /\ t \in Steps(r, "keep")' => t \in Steps(r, "keep") /\ ops'[r][t] = ops[r][t]
    BY <1>4
  <2>2. \A r \in Party : \A t \in Steps(r, "transmit")' : ops'[r][t].msg \in Messages(r)
    BY <1>1, <2>1, StepsIn DEF Sourced
  <2>3. \A r \in Party : \A t \in Steps(r, "keep")' : ops'[r][t].msg \in Messages(Peer(r))
    BY <1>1, <2>1, StepsIn DEF Sourced
  <2> QED
    BY <1>1, <1>3, <2>2, <2>3, Parties DEF Sourced
<1>13. Kept(p)' = Kept(p) \cup {m} /\ Kept(q)' = Kept(q)
  <2>1. s \notin Steps(p, "store")
    BY DEF Steps
  <2>2. \A t \in Slot : t \in Steps(p, "store")' <=> t \in Steps(p, "store") \/ t = s
    BY <1>4
  <2>3. \A t \in Slot : t \in Steps(q, "store")' <=> t \in Steps(q, "store")
    BY <1>2, <1>4
  <2>4. \A t \in Slot : ops'[q][t] = ops[q][t]
    BY <1>2, <1>4
  <2>5. InHands(q)' = InHands(q)
    BY <2>3, <2>4, StepsIn DEF InHands
  <2>6. \A t \in Steps(p, "store") : ops'[p][t] = ops[p][t]
    BY <1>4, <2>1, StepsIn
  <2>7. InHands(p)' = InHands(p) \cup {m}
    <3>1. \A x : x \in InHands(p)' <=> \E t \in Steps(p, "store")' : x = ops'[p][t].msg
      BY DEF InHands
    <3>2. \A x : x \in InHands(p) <=> \E t \in Steps(p, "store") : x = ops[p][t].msg
      BY DEF InHands
    <3>3. \A x : x \in InHands(p)' <=> x \in InHands(p) \/ x = m
      BY <1>4, <2>2, <2>6, <3>1, <3>2, StepsIn
    <3> QED
      BY <3>3
  <2> QED
    BY <2>5, <2>7 DEF Kept
<1>14. Booked'
  <2>1. ASSUME NEW r \in Party, NEW j \in 1 .. MaxSend, opened'[r][j] > 0 PROVE j <= Len(issued[r])
    <3>1. CASE r = q /\ j = i
      BY <1>5, <1>6, <3>1
    <3>2. CASE ~ (r = q /\ j = i)
      <4>1. opened'[r][j] = opened[r][j]
        BY <1>2, <1>9, <3>2
      <4> QED
        BY <1>1, <2>1, <4>1 DEF Booked
    <3> QED
      BY <3>1, <3>2
  <2>2. \A r \in Party : Kept(r)' \subseteq Messages(Peer(r))
    BY <1>1, <1>2, <1>13 DEF Booked
  <2>3. ASSUME NEW x \in Messages(q) PROVE IsOpened(x)' <=> x \in Kept(p)'
    <3>1. PICK j \in 1 .. Len(issued[q]) : x = issued[q][j]
      BY <1>2, <1>5 DEF Messages
    <3>2. x.ct.text = <<q, j>> /\ j \in 1 .. MaxSend
      BY <1>1, <1>2, <1>5, <1>8, <3>1, ConversationAssumption DEF Numbered
    <3>3. x.ct.text[1] = q /\ x.ct.text[2] = j
      BY <3>2
    <3>4. (IsOpened(x) <=> opened[q][j] > 0) /\ (IsOpened(x)' <=> opened'[q][j] > 0)
      BY <3>3 DEF IsOpened
    <3>5. CASE j = i
      BY <1>6, <1>9, <1>13, <3>1, <3>4, <3>5
    <3>6. CASE j # i
      <4>1. x # m
        BY <1>7, <3>2, <3>6
      <4>2. IsOpened(x)' <=> IsOpened(x)
        BY <1>9, <3>2, <3>4, <3>6
      <4>3. IsOpened(x) <=> x \in Kept(p)
        BY <1>1 DEF Booked
      <4> QED
        BY <1>13, <4>1, <4>2, <4>3
    <3> QED
      BY <3>5, <3>6
  <2>4. ASSUME NEW x \in Messages(p) PROVE IsOpened(x)' <=> x \in Kept(q)'
    <3>1. PICK j \in 1 .. Len(issued[p]) : x = issued[p][j]
      BY <1>5 DEF Messages
    <3>2. x.ct.text[1] = p
      BY <1>1, <3>1 DEF Numbered
    <3>3. IsOpened(x)' <=> IsOpened(x)
      BY <1>9, <3>2 DEF IsOpened
    <3> QED
      BY <1>1, <1>2, <1>13, <3>3 DEF Booked
  <2>5. \A r \in Party : \A x \in Messages(Peer(r)) : IsOpened(x)' <=> x \in Kept(r)'
    BY <1>2, <2>3, <2>4
  <2> QED
    BY <1>3, <2>1, <2>2, <2>5, Parties DEF Booked
<1> QED
  BY <1>10, <1>11, <1>12, <1>14 DEF KInv

\* Messages change hands, from a handler to the messages table or to the torn.
LEMMA Handing ==
  ASSUME KInv, UNCHANGED <<row, issued, sent, opened>>,
         ops' = [q \in Party |-> [t \in Slot |-> ops'[q][t]]],
         stored' = [q \in Party |-> stored'[q]], torn' = [q \in Party |-> torn'[q]],
         \A q \in Party : \A t \in Slot : ops'[q][t] = ops[q][t] \/ ops'[q][t] = NoOp,
         \A q \in Party : Kept(q)' = Kept(q)
  PROVE  KInv'
<1>0. row' = row /\ issued' = issued /\ sent' = sent /\ opened' = opened
  OBVIOUS
<1>1. Typed /\ Numbered /\ Sourced /\ Booked
  BY DEF KInv
<1>2. \A q \in Party : Messages(q)' = Messages(q)
  BY <1>0 DEF Messages
<1>3. \A q \in Party : \A t \in Slot :
        /\ t \in Steps(q, "save")' => t \in Steps(q, "save") /\ ops'[q][t] = ops[q][t]
        /\ t \in Steps(q, "transmit")' => t \in Steps(q, "transmit") /\ ops'[q][t] = ops[q][t]
        /\ t \in Steps(q, "keep")' => t \in Steps(q, "keep") /\ ops'[q][t] = ops[q][t]
  BY DEF Steps, NoOp
<1>4. Typed'
  <2>1. /\ row' = [q \in Party |-> row'[q]] /\ issued' = [q \in Party |-> issued'[q]]
        /\ sent' = [q \in Party |-> sent'[q]] /\ opened' \in [Party -> [1 .. MaxSend -> Nat]]
    BY <1>0, <1>1 DEF Typed
  <2> QED
    BY <2>1, Zenon DEF Typed
<1>5. Numbered'
  <2> SUFFICES ASSUME NEW q \in Party PROVE Len(issued[q]) + Cardinality(Steps(q, "save"))' <= MaxSend
    BY <1>0, <1>1 DEF Numbered
  <2> DEFINE A == Steps(q, "save")
             B == Steps(q, "save")'
  <2>1. B \subseteq A
    BY <1>3, StepsIn
  <2>2. IsFiniteSet(A)
    BY StepsIn, ConversationAssumption, FS_Subset
  <2>3. Len(issued[q]) \in Nat
    BY <1>1, SeqIs DEF Numbered, IsSeq
  <2>4. Len(issued[q]) + Cardinality(A) <= MaxSend
    BY <1>1 DEF Numbered
  <2>5. B = Steps(q, "save")' /\ MaxSend \in Nat
    BY ConversationAssumption
  <2> HIDE DEF A, B
  <2>6. IsFiniteSet(B) /\ Cardinality(B) <= Cardinality(A)
    BY <2>1, <2>2, FS_Subset
  <2>7. Cardinality(A) \in Nat /\ Cardinality(B) \in Nat
    BY <2>2, <2>6, FS_CardinalityType
  <2>8. Len(issued[q]) + Cardinality(B) <= MaxSend
    BY <2>3, <2>4, <2>5, <2>6, <2>7
  <2> QED
    BY <2>8 DEF B
<1>6. Sourced'
  <2>1. \A q \in Party : \A t \in Steps(q, "transmit")' : ops'[q][t].msg \in Messages(q)
    BY <1>1, <1>3, StepsIn DEF Sourced
  <2>2. \A q \in Party : \A t \in Steps(q, "keep")' : ops'[q][t].msg \in Messages(Peer(q))
    BY <1>1, <1>3, StepsIn DEF Sourced
  <2> QED
    BY <1>0, <1>1, <1>2, <2>1, <2>2, Parties DEF Sourced
<1>7. Booked'
  <2>1. \A m : IsOpened(m)' <=> IsOpened(m)
    BY <1>0 DEF IsOpened
  <2> QED
    BY <1>0, <1>1, <1>2, <2>1, Parties DEF Booked
<1> QED
  BY <1>4, <1>5, <1>6, <1>7 DEF KInv

-----------------------------------------------------------------------------
(***************************************************************************)
(* The steps of the clients.                                               *)
(***************************************************************************)

LEMMA Same ==
  Typed => /\ row = [q \in Party |-> row[q]] /\ issued = [q \in Party |-> issued[q]]
           /\ sent = [q \in Party |-> sent[q]] /\ stored = [q \in Party |-> stored[q]]
           /\ torn = [q \in Party |-> torn[q]]
  BY DEF Typed

LEMMA KStartText ==
  ASSUME KInv, NEW p \in Party, NEW s \in Slot, StartText(p, s) PROVE KInv'
<1>1. /\ ops[p][s] = NoOp /\ Len(issued[p]) + Cardinality(Steps(p, "save")) < MaxSend
      /\ UNCHANGED <<row, issued, sent, stored, opened, torn>>
  BY DEF StartText, MayStart
<1>2. PICK read : ops' = [ops EXCEPT ![p][s] = [step |-> "save", kind |-> "text", read |-> read]]
  BY Zenon DEF StartText
<1> DEFINE op == [step |-> "save", kind |-> "text", read |-> read]
<1>3. op.step = "save" /\ ops[p][s].step = "none" /\ ops' = [ops EXCEPT ![p][s] = op]
  BY <1>1, <1>2 DEF NoOp
<1>4. /\ row' = [q \in Party |-> row'[q]] /\ sent' = [q \in Party |-> sent'[q]]
      /\ \A q \in Party : sent'[q] \subseteq Messages(q)
  BY <1>1, Same DEF KInv, Sourced
<1> HIDE DEF op
<1> QED
  BY <1>1, <1>3, <1>4, Quiet

LEMMA KStartEvent ==
  ASSUME KInv, NEW p \in Party, NEW s \in Slot, StartEvent(p, s) PROVE KInv'
<1> DEFINE op == [step |-> "save", kind |-> "event", read |-> row[p]]
<1>1. /\ ops[p][s] = NoOp /\ Len(issued[p]) + Cardinality(Steps(p, "save")) < MaxSend
      /\ UNCHANGED <<row, issued, sent, stored, opened, torn>>
  BY DEF StartEvent, MayStart
<1>2. op.step = "save" /\ ops[p][s].step = "none" /\ ops' = [ops EXCEPT ![p][s] = op]
  BY <1>1 DEF NoOp, StartEvent
<1>3. /\ row' = [q \in Party |-> row'[q]] /\ sent' = [q \in Party |-> sent'[q]]
      /\ \A q \in Party : sent'[q] \subseteq Messages(q)
  BY <1>1, Same DEF KInv, Sourced
<1> HIDE DEF op
<1> QED
  BY <1>1, <1>2, <1>3, Quiet

LEMMA KSaveSent ==
  ASSUME KInv, NEW p \in Party, NEW s \in Slot, SaveSent(p, s) PROVE KInv'
<1> DEFINE m == Message(p, ops[p][s])
           op == [step |-> "transmit", msg |-> m]
<1>1. ops[p][s].step = "save" /\ UNCHANGED <<sent, stored, opened, torn>>
  BY DEF SaveSent
<1>2. row' = [q \in Party |-> row'[q]] /\ sent' = [q \in Party |-> sent'[q]]
  <2>1. row = [q \in Party |-> row[q]] /\ sent = [q \in Party |-> sent[q]]
    BY Same DEF KInv
  <2>2. row' = row \/ row' = [row EXCEPT ![p] = Encrypt(ToSend(p, ops[p][s].read))]
    BY DEF SaveSent
  <2> QED
    BY <1>1, <2>1, <2>2
<1>3. \/ issued' = [issued EXCEPT ![p] = Append(issued[p], m)] /\ ops' = [ops EXCEPT ![p][s] = op]
      \/ issued' = issued /\ ops' = [ops EXCEPT ![p][s] = NoOp]
  BY Zenon DEF SaveSent, Issued
<1>4. m.ct.text = <<p, Len(issued[p]) + 1>> /\ op.step = "transmit" /\ op.msg = m
  BY DEF Message, Encrypted, Seal
<1> HIDE DEF op, m
<1>5. CASE issued' = [issued EXCEPT ![p] = Append(issued[p], m)] /\ ops' = [ops EXCEPT ![p][s] = op]
  BY <1>1, <1>2, <1>4, <1>5, Issue
<1>6. CASE issued' = issued /\ ops' = [ops EXCEPT ![p][s] = NoOp]
  <2>1. NoOp.step = "none" /\ \A q \in Party : sent'[q] \subseteq Messages(q)
    BY <1>1 DEF NoOp, KInv, Sourced
  <2> QED
    BY <1>1, <1>2, <1>6, <2>1, Quiet
<1> QED
  BY <1>3, <1>5, <1>6

LEMMA KTransmit ==
  ASSUME KInv, NEW p \in Party, NEW s \in Slot, Transmit(p, s) PROVE KInv'
<1> DEFINE m == ops[p][s].msg
<1>1. /\ ops[p][s].step = "transmit" /\ UNCHANGED <<row, issued, stored, opened, torn>>
      /\ sent' = [sent EXCEPT ![p] = @ \cup {m}] /\ ops' = [ops EXCEPT ![p][s] = NoOp]
  BY DEF Transmit
<1>2. /\ row = [q \in Party |-> row[q]] /\ sent = [q \in Party |-> sent[q]]
      /\ \A q \in Party : sent[q] \subseteq Messages(q)
  BY Same DEF KInv, Sourced
<1>3. m \in Messages(p) /\ NoOp.step = "none"
  <2>1. s \in Steps(p, "transmit")
    BY <1>1 DEF Steps
  <2> QED
    BY <2>1 DEF KInv, Sourced, NoOp
<1> HIDE DEF m
<1>4. sent' = [q \in Party |-> sent'[q]] /\ \A q \in Party : sent'[q] \subseteq Messages(q)
  BY <1>1, <1>2, <1>3
<1>5. row' = [q \in Party |-> row'[q]]
  BY <1>1, <1>2
<1> QED
  BY <1>1, <1>3, <1>4, <1>5, Quiet

LEMMA KDecryptNext ==
  ASSUME KInv, NEW p \in Party, NEW s \in Slot, NEW m \in sent[Peer(p)], DecryptNext(p, s, m)
  PROVE  KInv'
<1>1. /\ ops[p][s] = NoOp /\ UNCHANGED <<row, issued, sent, stored, opened, torn>>
  BY DEF DecryptNext
<1>2. PICK read : ops' = [ops EXCEPT ![p][s] = [step |-> "keep", msg |-> m, read |-> read]]
  BY Zenon DEF DecryptNext
<1> DEFINE op == [step |-> "keep", msg |-> m, read |-> read]
<1>3. /\ op.step = "keep" /\ op.msg = m /\ ops[p][s].step = "none"
      /\ ops' = [ops EXCEPT ![p][s] = op]
  BY <1>1, <1>2 DEF NoOp
<1>4. /\ row' = [q \in Party |-> row'[q]] /\ sent' = [q \in Party |-> sent'[q]]
      /\ \A q \in Party : sent'[q] \subseteq Messages(q)
  BY <1>1, Same DEF KInv, Sourced
<1>5. m \in Messages(Peer(p))
  BY Parties DEF KInv, Sourced
<1> HIDE DEF op
<1> QED
  BY <1>1, <1>3, <1>4, <1>5, Quiet

LEMMA KSaveReceived ==
  ASSUME KInv, NEW p \in Party, NEW s \in Slot, SaveReceived(p, s) PROVE KInv'
<1> DEFINE m == ops[p][s].msg
           op == [step |-> "store", msg |-> m]
<1>1. /\ ops[p][s].step = "keep" /\ UNCHANGED <<issued, sent, stored, torn>>
      /\ \/ /\ opened' = [opened EXCEPT ![Peer(p)][m.ct.text[2]] = @ + 1]
            /\ ops' = [ops EXCEPT ![p][s] = op]
         \/ opened' = opened /\ ops' = [ops EXCEPT ![p][s] = NoOp]
      /\ row' = row \/ row' = [row EXCEPT ![p] = Decrypted(ToOpen(p, ops[p][s].read, m), m.header, FreshKey(p))]
  BY Zenon DEF SaveReceived, Keeps
<1>2. row' = [q \in Party |-> row'[q]] /\ sent' = [q \in Party |-> sent'[q]]
  <2>1. row = [q \in Party |-> row[q]] /\ sent = [q \in Party |-> sent[q]]
    BY Same DEF KInv
  <2> QED
    BY <1>1, <2>1
<1>3. m \in Messages(Peer(p)) /\ op.step = "store" /\ op.msg = m
  <2>1. s \in Steps(p, "keep")
    BY <1>1 DEF Steps
  <2> QED
    BY <2>1 DEF KInv, Sourced
<1> HIDE DEF op, m
<1>4. CASE opened' = [opened EXCEPT ![Peer(p)][m.ct.text[2]] = @ + 1] /\ ops' = [ops EXCEPT ![p][s] = op]
  BY <1>1, <1>2, <1>3, <1>4, Opening
<1>5. CASE opened' = opened /\ ops' = [ops EXCEPT ![p][s] = NoOp]
  <2>1. NoOp.step = "none" /\ \A q \in Party : sent'[q] \subseteq Messages(q)
    BY <1>1 DEF NoOp, KInv, Sourced
  <2> QED
    BY <1>1, <1>2, <1>5, <2>1, Quiet
<1> QED
  BY <1>1, <1>4, <1>5

LEMMA KStoreReceived ==
  ASSUME KInv, NEW p \in Party, NEW s \in Slot, StoreReceived(p, s) PROVE KInv'
<1> DEFINE m == ops[p][s].msg
<1>0. Typed
  BY DEF KInv
<1>1. /\ ops[p][s].step = "store" /\ UNCHANGED <<row, issued, sent, opened>>
      /\ ops' = [ops EXCEPT ![p][s] = NoOp]
      /\ \/ stored' = [stored EXCEPT ![p] = @ \cup {m}] /\ torn' = torn
         \/ torn' = [torn EXCEPT ![p] = @ \cup {m}] /\ stored' = stored
  BY DEF StoreReceived
<1>2. /\ ops' = [q \in Party |-> [t \in Slot |-> ops'[q][t]]] /\ ops'[p][s] = NoOp
      /\ \A q \in Party : \A t \in Slot : q # p \/ t # s => ops'[q][t] = ops[q][t]
      /\ \A q \in Party : \A step : \A t \in Slot :
           t \in Steps(q, step)' <=> IF q = p /\ t = s THEN NoOp.step = step ELSE t \in Steps(q, step)
  BY <1>0, <1>1, SlotSteps
<1>3. /\ stored' = [q \in Party |-> stored'[q]] /\ torn' = [q \in Party |-> torn'[q]]
      /\ stored'[p] \cup torn'[p] = stored[p] \cup torn[p] \cup {m}
      /\ \A q \in Party : q # p => stored'[q] = stored[q] /\ torn'[q] = torn[q]
  <2>1. stored = [q \in Party |-> stored[q]] /\ torn = [q \in Party |-> torn[q]]
    BY <1>0, Same
  <2> HIDE DEF m
  <2> QED
    BY <1>1, <2>1
<1>4. \A q \in Party : Kept(q)' = Kept(q)
  <2>1. ASSUME NEW q \in Party, q # p PROVE Kept(q)' = Kept(q)
    <3>1. \A t \in Slot : t \in Steps(q, "store")' <=> t \in Steps(q, "store")
      BY <1>2, <2>1
    <3>2. InHands(q)' = InHands(q)
      BY <1>2, <2>1, <3>1, StepsIn DEF InHands
    <3> QED
      BY <1>3, <2>1, <3>2 DEF Kept
  <2>2. s \in Steps(p, "store") /\ NoOp.step # "store"
    BY <1>1 DEF Steps, NoOp
  <2>3. \A t \in Slot : t \in Steps(p, "store")' <=> t \in Steps(p, "store") /\ t # s
    BY <1>2, <2>2
  <2>4. \A x : x \in InHands(p)' <=> \E t \in Steps(p, "store")' : x = ops'[p][t].msg
    BY DEF InHands
  <2>5. \A x : x \in InHands(p) <=> \E t \in Steps(p, "store") : x = ops[p][t].msg
    BY DEF InHands
  <2>6. \A x : x \in InHands(p) <=> x \in InHands(p)' \/ x = m \/ x \in InHands(p)
    BY <2>2, <2>3, <2>4, <2>5, <1>2, StepsIn
  <2>7. \A x : x \in InHands(p) => x \in InHands(p)' \/ x = m
    BY <2>3, <2>4, <2>5, <1>2, StepsIn
  <2>8. InHands(p) = InHands(p)' \cup {m}
    BY <2>6, <2>7
  <2>9. Kept(p)' = Kept(p)
    BY <1>3, <2>8 DEF Kept
  <2> QED
    BY <2>1, <2>9
<1>5. \A q \in Party : \A t \in Slot : ops'[q][t] = ops[q][t] \/ ops'[q][t] = NoOp
  BY <1>2
<1> QED
  BY <1>1, <1>2, <1>3, <1>4, <1>5, Handing

LEMMA KCrash ==
  ASSUME KInv, NEW p \in Party, Crash(p) PROVE KInv'
<1>0. Typed
  BY DEF KInv
<1>1. /\ UNCHANGED <<row, issued, sent, opened>> /\ stored' = stored
      /\ ops' = [ops EXCEPT ![p] = [t \in Slot |-> NoOp]]
      /\ torn' = [torn EXCEPT ![p] = @ \cup InHands(p)]
  BY DEF Crash, InHands
<1>2. ops = [q \in Party |-> [t \in Slot |-> ops[q][t]]]
  BY <1>0 DEF Typed
<1>3. /\ ops'[p] = [t \in Slot |-> NoOp] /\ \A q \in Party : q # p => ops'[q] = ops[q]
      /\ ops' = [q \in Party |-> ops'[q]]
  BY <1>1, <1>2
<1>4. ops' = [q \in Party |-> [t \in Slot |-> ops'[q][t]]]
  <2>1. \A q \in Party : ops'[q] = [t \in Slot |-> ops'[q][t]]
    BY <1>2, <1>3
  <2> QED
    BY <1>3, <2>1, Zenon
<1>5. stored = [q \in Party |-> stored[q]] /\ torn = [q \in Party |-> torn[q]]
  BY <1>0, Same
<1>6. torn' = [q \in Party |-> torn'[q]] /\ torn'[p] = torn[p] \cup InHands(p)
        /\ \A q \in Party : q # p => torn'[q] = torn[q]
  <2> DEFINE S == InHands(p)
  <2>1. torn' = [torn EXCEPT ![p] = @ \cup S]
    BY <1>1
  <2> HIDE DEF S
  <2>2. torn' = [q \in Party |-> torn'[q]] /\ torn'[p] = torn[p] \cup S
          /\ \A q \in Party : q # p => torn'[q] = torn[q]
    BY <1>5, <2>1
  <2> QED
    BY <2>2 DEF S
<1>7. \A q \in Party : Kept(q)' = Kept(q)
  <2>1. Steps(p, "store")' = {}
    BY <1>3 DEF Steps, NoOp
  <2>2. InHands(p)' = {}
    BY <2>1 DEF InHands
  <2>3. \A q \in Party : q # p => InHands(q)' = InHands(q)
    BY <1>3 DEF InHands, Steps
  <2>4. Kept(p)' = Kept(p)
    BY <1>1, <1>6, <2>2 DEF Kept
  <2> QED
    BY <1>1, <1>6, <2>3, <2>4 DEF Kept
<1>8. \A q \in Party : \A t \in Slot : ops'[q][t] = ops[q][t] \/ ops'[q][t] = NoOp
  BY <1>3
<1>9. stored' = [q \in Party |-> stored'[q]]
  BY <1>1, <1>5
<1> QED
  BY <1>1, <1>4, <1>6, <1>7, <1>8, <1>9, Handing

LEMMA KNext == KInv /\ [Next]_vars => KInv'
<1> SUFFICES ASSUME KInv, [Next]_vars PROVE KInv'
  OBVIOUS
<1>1. CASE UNCHANGED vars
  <2>1. /\ row' = row /\ ops' = ops /\ issued' = issued /\ sent' = sent
        /\ stored' = stored /\ opened' = opened /\ torn' = torn
    BY <1>1 DEF vars
  <2>2. \A q : \A step : Steps(q, step)' = Steps(q, step)
    BY <2>1 DEF Steps
  <2>3. \A q : Messages(q)' = Messages(q) /\ InHands(q)' = InHands(q)
    BY <2>1, <2>2 DEF Messages, InHands
  <2>4. \A q : Kept(q)' = Kept(q)
    BY <2>1, <2>3 DEF Kept
  <2>5. Typed' /\ Numbered'
    BY <2>1, <2>2 DEF KInv, Typed, Numbered
  <2>6. Sourced'
    BY <2>1, <2>2, <2>3 DEF KInv, Sourced
  <2>7. Booked'
    BY <2>1, <2>3, <2>4 DEF KInv, Booked, IsOpened
  <2> QED
    BY <2>5, <2>6, <2>7 DEF KInv
<1>2. CASE Next
  <2>1. PICK p \in Party :
          \/ Crash(p)
          \/ \E s \in Slot :
               \/ StartText(p, s) \/ StartEvent(p, s)
               \/ SaveSent(p, s) \/ Transmit(p, s)
               \/ \E m \in sent[Peer(p)] : DecryptNext(p, s, m)
               \/ SaveReceived(p, s) \/ StoreReceived(p, s)
    BY <1>2, Zenon DEF Next
  <2> QED
    BY <2>1, KCrash, KStartText, KStartEvent, KSaveSent, KTransmit, KDecryptNext, KSaveReceived, KStoreReceived
<1> QED
  BY <1>1, <1>2

\* However the operations of the two clients overlap, whichever calls of the
\* vault fail and wherever a process ends: a message of the peer's has its key
\* used up exactly when it is in the messages table, in the hands of the
\* handler that stores it, or one of those that were torn.
THEOREM OpenedStaysKept == Spec => []OpenedIsKept
<1>1. KInv => OpenedIsKept
  <2>1. \A p, m : InHand(p, m) <=> m \in InHands(p)
    BY DEF InHand, InHands
  <2> QED
    BY <2>1 DEF KInv, Booked, Kept, OpenedIsKept
<1> QED
  BY <1>1, KInit, KNext, PTL DEF Spec

-----------------------------------------------------------------------------
(***************************************************************************)
(* As long as no stored session was overwritten unread or used unsaved,    *)
(* the clients implement RatchetPair.                                      *)
(***************************************************************************)

LEMMA SameOperators ==
  /\ \A s : (Pair!CanEncrypt(s) <=> CanEncrypt(s)) /\ Pair!Encrypt(s) = Encrypt(s)
  /\ \A s, ad, text : Pair!Encrypted(s, ad, text) = Encrypted(s, ad, text)
  /\ \A s, m, ad, k : Pair!Decrypts(s, m, ad, k) <=> Decrypts(s, m, ad, k)
  /\ \A s, h, k : Pair!Decrypted(s, h, k) = Decrypted(s, h, k)
  /\ \A owner, no : Pair!Key(owner, no) = Key(owner, no)
<1>1. \A s : (Pair!CanEncrypt(s) <=> CanEncrypt(s)) /\ Pair!Encrypt(s) = Encrypt(s)
  BY DEF Pair!CanEncrypt, CanEncrypt, Pair!Encrypt, Encrypt, Pair!NoChain, NoChain, Pair!Chain, Chain,
         Pair!KdfCk, KdfCk
<1>2. \A s, ad, text : Pair!Encrypted(s, ad, text) = Encrypted(s, ad, text)
  BY DEF Pair!Encrypted, Encrypted, Pair!Header, Header, Pair!Seal, Seal, Pair!MessageKey, MessageKey
<1>3. \A s, n : Pair!SkipUntil(s, n) = SkipUntil(s, n)
  BY DEF Pair!SkipUntil, SkipUntil, Pair!NoChain, NoChain, Pair!Chain, Chain, Pair!MessageKey, MessageKey
<1>4. \A s, r, k : Pair!RatchetDh(s, r, k) = RatchetDh(s, r, k)
  BY DEF Pair!RatchetDh, RatchetDh, Pair!KdfRk, KdfRk, Pair!DhOutput, DhOutput, Pair!Chain, Chain
<1>5. \A s, h, k : Pair!Ratcheted(s, h, k) = Ratcheted(s, h, k)
  BY <1>3, <1>4 DEF Pair!Ratcheted, Ratcheted, Pair!IsNewDh, IsNewDh
<1>6. \A s, h, k : Pair!CaughtUp(s, h, k) = CaughtUp(s, h, k)
  BY <1>3, <1>5 DEF Pair!CaughtUp, CaughtUp
<1>7. \A s, h : Pair!IsBuffered(s, h) <=> IsBuffered(s, h)
  BY DEF Pair!IsBuffered, IsBuffered, Pair!SkippedKey, SkippedKey
<1>8. \A s, h, k : Pair!WithinWindow(s, h, k) <=> WithinWindow(s, h, k)
  BY <1>5 DEF Pair!WithinWindow, WithinWindow, Pair!IsNewDh, IsNewDh, Pair!CanSkip, CanSkip
<1>9. \A s, m, ad, k : Pair!Decrypts(s, m, ad, k) <=> Decrypts(s, m, ad, k)
  BY <1>6, <1>7, <1>8 DEF Pair!Decrypts, Decrypts, Pair!NoChain, NoChain, Pair!Chain, Chain, Pair!Opens, Opens,
     Pair!SkippedKey, SkippedKey, Pair!MessageKey, MessageKey
<1>10. \A s, h, k : Pair!Decrypted(s, h, k) = Decrypted(s, h, k)
  BY <1>6, <1>7 DEF Pair!Decrypted, Decrypted, Pair!KdfCk, KdfCk, Pair!Chain, Chain, Pair!SkippedKey, SkippedKey
<1>11. \A owner, no : Pair!Key(owner, no) = Key(owner, no)
  BY DEF Pair!Key, Key
<1> QED
  BY <1>1, <1>2, <1>9, <1>10, <1>11

LEMMA SameWire ==
  \A s, m, ad, k : Decrypts(s, Wire(m), ad, k) <=> Decrypts(s, m, ad, k)
<1> SUFFICES ASSUME NEW s, NEW m, NEW ad, NEW k
             PROVE Decrypts(s, Wire(m), ad, k) <=> Decrypts(s, m, ad, k)
  OBVIOUS
<1>1. Wire(m).header = m.header /\ Wire(m).ct = m.ct
  BY DEF Wire
<1> QED
  BY <1>1 DEF Decrypts

\* A session of p's, with p's own ratchet key.
Owned(p, s) == "self" \in DOMAIN s /\ s.self.owner = p /\ s.self.no \in Nat

LEMMA OwnedSome == \A p \in Party : \A s : Owned(p, s) => s # NoSession
  BY DEF Owned, NoSession, NoKey, Key, Party, Alice, Bob

LEMMA EncryptOwned ==
  \A p, s : Owned(p, s) => Owned(p, Encrypt(s)) /\ Encrypt(s).self = s.self
<1> SUFFICES ASSUME NEW p, NEW s, Owned(p, s)
             PROVE  Owned(p, Encrypt(s)) /\ Encrypt(s).self = s.self
  OBVIOUS
<1>1. "self" \in DOMAIN Encrypt(s) /\ Encrypt(s).self = s.self
  BY DEF Encrypt, Owned
<1> QED
  BY <1>1 DEF Owned

LEMMA DecryptOwned ==
  ASSUME NEW p, NEW s, Owned(p, s), NEW h
  PROVE  LET t == Decrypted(s, h, Key(p, s.self.no + 1)) IN Owned(p, t) /\ s.self.no <= t.self.no
<1> DEFINE k == Key(p, s.self.no + 1)
<1>0. k.owner = p /\ k.no \in Nat /\ s.self.no <= k.no /\ s.self.no \in Nat
  BY DEF Key, Owned
<1> HIDE DEF k
<1>1. \A x, n : "self" \in DOMAIN x => "self" \in DOMAIN SkipUntil(x, n) /\ SkipUntil(x, n).self = x.self
  <2> SUFFICES ASSUME NEW x, NEW n, "self" \in DOMAIN x
               PROVE  "self" \in DOMAIN SkipUntil(x, n) /\ SkipUntil(x, n).self = x.self
    OBVIOUS
  <2>1. CASE x.recvCk = NoChain \/ n <= x.recvN
    BY <2>1 DEF SkipUntil
  <2>2. CASE ~ (x.recvCk = NoChain \/ n <= x.recvN)
    <3>1. PICK a, b : SkipUntil(x, n) = [x EXCEPT !.skipped = a, !.recvCk = b, !.recvN = n]
      BY <2>2, Zenon DEF SkipUntil
    <3> QED
      BY <3>1
  <2> QED
    BY <2>1, <2>2
<1>2. \A x, r : "self" \in DOMAIN x => "self" \in DOMAIN RatchetDh(x, r, k) /\ RatchetDh(x, r, k).self = k
  BY DEF RatchetDh
<1>3. LET u == Ratcheted(s, h, k) IN "self" \in DOMAIN u /\ u.self \in {s.self, k}
  <2>1. CASE IsNewDh(s, h)
    BY <1>1, <1>2, <2>1 DEF Ratcheted, Owned
  <2>2. CASE ~ IsNewDh(s, h)
    BY <2>2 DEF Ratcheted, Owned
  <2> QED
    BY <2>1, <2>2
<1>4. LET u == CaughtUp(s, h, k) IN "self" \in DOMAIN u /\ u.self \in {s.self, k}
  BY <1>1, <1>3 DEF CaughtUp
<1> DEFINE t == Decrypted(s, h, k)
<1>5. "self" \in DOMAIN t /\ t.self \in {s.self, k}
  <2>1. CASE IsBuffered(s, h)
    <3>1. PICK a : t = [s EXCEPT !.skipped = a]
      BY <2>1, Zenon DEF Decrypted
    <3> HIDE DEF t
    <3> QED
      BY <3>1 DEF Owned
  <2>2. CASE ~ IsBuffered(s, h)
    <3> DEFINE u == CaughtUp(s, h, k)
    <3>1. t = [u EXCEPT !.recvCk = KdfCk(@), !.recvN = @ + 1]
      BY <2>2 DEF Decrypted
    <3>2. "self" \in DOMAIN u /\ u.self \in {s.self, k}
      BY <1>4
    <3> HIDE DEF t, u
    <3> QED
      BY <3>1, <3>2
  <2> QED
    BY <2>1, <2>2
<1>6. Owned(p, t) /\ s.self.no <= t.self.no
  <2> HIDE DEF t
  <2> QED
    BY <1>0, <1>5 DEF Owned
<1> QED
  BY <1>6 DEF k

LEMMA Largest ==
  ASSUME NEW S \in SUBSET Nat, NEW x \in S, \A y \in S : y <= x PROVE Max(S) = x
<1>1. \A y \in S : x >= y
  OBVIOUS
<1>2. ASSUME NEW z \in S, \A y \in S : z >= y PROVE z = x
  BY <1>2
<1>3. Max(S) = CHOOSE z \in S : \A y \in S : z >= y
  BY DEF Max
<1> QED
  BY <1>1, <1>2, <1>3

-----------------------------------------------------------------------------

\* The only message with an ephemeral key of its own opens the conversation.
FirstOf(p) == IF p = Alice THEN {NoKey, Key(Alice, 1)} ELSE {NoKey}

\* The key of the next turn of p's ratchet.
NextKey(p) == Key(p, SessionOf(p).self.no + 1)

\* A party has a session of its own, or has encrypted nothing.
Rows ==
    \A p \in Party : IF row[p] = NoSession THEN issued[p] = <<>> ELSE Owned(p, row[p])

\* No message is ahead of its sender's session.
Turned ==
    \A p \in Party : \A m \in Messages(p) :
      m.header.dh.no \in Nat /\ m.header.dh.no <= SessionOf(p).self.no /\ m.first \in FirstOf(p)

\* What an operation has read: nothing, or a row of p's that is still there or
\* one before it.
Reads(p, read) ==
    \/ read = NoSession
    \/ row[p] # NoSession /\ Owned(p, read) /\ read.self.no <= row[p].self.no

\* A session that was there can encrypt.
MaySave(read) == read = NoSession \/ CanEncrypt(read)

\* The message was found to open, with the session it would be saved with; or
\* a read that failed took a row for none.
MayKeep(p, op) ==
    /\ op.read # NoSession \/ op.msg.first # NoKey
    /\ \/ op.read = NoSession /\ row[p] # NoSession
       \/ LET s == ToOpen(p, op.read, op.msg) IN Decrypts(s, op.msg, Label[p], Key(p, s.self.no + 1))

Holds(p, op) ==
    /\ op.step = "save" => Reads(p, op.read) /\ MaySave(op.read)
    /\ op.step = "keep" => Reads(p, op.read) /\ MayKeep(p, op)
Held == \A p \in Party : \A s \in Slot : Holds(p, ops[p][s])

OInv == Rows /\ Turned /\ Held

LEMMA BeforeFirst ==
  ASSUME NEW p \in Party, row[p] = NoSession
  PROVE  /\ Owned(p, SessionOf(p))
         /\ p = Alice => SessionOf(p) = StartedSession(p, Key(Alice, 1))
         /\ p # Alice => /\ SessionOf(p) = AnsweringSession(p, Key(Alice, 1))
                         /\ NextKey(p) = Key(p, 1)
<1>1. CASE p = Alice
  <2>1. SessionOf(p) = StartedSession(p, Key(Alice, 1))
    BY <1>1 DEF SessionOf
  <2>2. "self" \in DOMAIN SessionOf(p) /\ SessionOf(p).self = Key(Alice, 1)
    BY <2>1 DEF StartedSession, InitAsSender
  <2>3. Key(Alice, 1).owner = Alice /\ Key(Alice, 1).no = 1
    BY DEF Key
  <2> QED
    BY <1>1, <2>1, <2>2, <2>3 DEF Owned
<1>2. CASE p # Alice
  <2>1. p = Bob
    BY <1>2 DEF Party
  <2>2. SessionOf(p) = AnsweringSession(p, Key(Alice, 1))
    BY <1>2, <2>1 DEF SessionOf
  <2>3. "self" \in DOMAIN SessionOf(p) /\ SessionOf(p).self = Key(p, 0)
    BY <2>2 DEF AnsweringSession, InitAsReceiver, SignedPreKey
  <2>4. Key(p, 0).owner = p /\ Key(p, 0).no = 0
    BY DEF Key
  <2>5. NextKey(p) = Key(p, 1)
    BY <2>3, <2>4 DEF NextKey
  <2> QED
    BY <1>2, <2>2, <2>3, <2>4, <2>5 DEF Owned
<1> QED
  BY <1>1, <1>2

LEMMA SessionOwned == ASSUME Rows, NEW p \in Party PROVE Owned(p, SessionOf(p))
<1>1. CASE row[p] = NoSession
  BY <1>1, BeforeFirst
<1>2. CASE row[p] # NoSession
  BY <1>2 DEF Rows, SessionOf
<1> QED
  BY <1>1, <1>2

\* What is under way has read no session ahead of the row, so the fresh key is
\* the one RatchetPair takes.
LEMMA FreshIs ==
  ASSUME Rows, Turned, Held, NEW p \in Party
  PROVE  FreshKey(p) = IF row[p] = NoSession THEN Key(p, 1) ELSE NextKey(p)
<1> DEFINE kept == {row[p]} \cup { ops[p][t].read : t \in Steps(p, "save") \cup Steps(p, "keep") }
           used == { x.self.no : x \in kept } \cup { issued[p][i].header.dh.no : i \in DOMAIN issued[p] }
<1>1. \A x \in kept : x = row[p] \/ Reads(p, x)
  <2>1. ASSUME NEW r \in Steps(p, "save") \cup Steps(p, "keep") PROVE Reads(p, ops[p][r].read)
    <3>1. r \in Slot /\ ops[p][r].step \in {"save", "keep"}
      BY DEF Steps
    <3> QED
      BY <3>1 DEF Held, Holds
  <2> QED
    BY <2>1
<1>2. row[p] \in kept
  OBVIOUS
<1>3. FreshKey(p) = Key(p, Max(used) + 1)
  BY DEF FreshKey
<1> HIDE DEF kept
<1>4. used = {x.self.no : x \in kept} \cup {m.header.dh.no : m \in Messages(p)}
  BY DEF Messages
<1> HIDE DEF used
<1>5. NoSession.self.no = 0
  BY DEF NoSession, NoKey, Key
<1>6. CASE row[p] = NoSession
  <2>1. Messages(p) = {}
    BY <1>6 DEF Rows, Messages
  <2>2. \A x \in kept : x = NoSession
    BY <1>1, <1>6 DEF Reads
  <2>3. kept = {NoSession}
    BY <1>2, <1>6, <2>2
  <2>4. used = {0}
    BY <1>4, <1>5, <2>1, <2>3
  <2>5. Max(used) = 0
    BY <2>4, Largest
  <2> QED
    BY <1>3, <1>6, <2>5
<1>7. CASE row[p] # NoSession
  <2> DEFINE n == row[p].self.no
  <2>1. n \in Nat /\ SessionOf(p) = row[p]
    BY <1>7 DEF Rows, Owned, SessionOf
  <2>2. \A m \in Messages(p) : m.header.dh.no \in Nat /\ m.header.dh.no <= n
    BY <2>1 DEF Turned
  <2>3. \A x \in kept : x.self.no \in Nat /\ x.self.no <= n
    BY <1>1, <1>5, <2>1 DEF Reads, Owned
  <2>4. n \in {x.self.no : x \in kept}
    BY <1>2
  <2> HIDE DEF n
  <2>5. used \in SUBSET Nat /\ n \in used /\ \A y \in used : y <= n
    BY <1>4, <2>1, <2>2, <2>3, <2>4
  <2>6. Max(used) = n
    BY <2>5, Largest
  <2> QED
    BY <1>3, <1>7, <2>1, <2>6 DEF NextKey, n
<1> QED
  BY <1>6, <1>7

\* The variables of RatchetPair.
OnWire(f) == [i \in DOMAIN f |-> Wire(f[i])]
Sealed(p) == OnWire(issued[p])
SessBar == [p \in Party |-> SessionOf(p)]
SentBar == [p \in Party |-> Sealed(p)]

LEMMA OInit == Init => OInv /\ Pair!Init
<1> SUFFICES ASSUME Init PROVE OInv /\ Pair!Init
  OBVIOUS
<1>1. \A p \in Party : row[p] = NoSession /\ issued[p] = <<>> /\ Messages(p) = {}
  BY DEF Init, Messages
<1>2. \A p \in Party : \A s \in Slot : ops[p][s].step = "none"
  BY DEF Init, NoOp
<1>3. OInv
  BY <1>1, <1>2 DEF OInv, Rows, Turned, Held, Holds
<1>4. \A p \in Party : Sealed(p) = <<>>
  BY <1>1 DEF Sealed, OnWire
<1>5. [p \in Party |-> Sealed(p)] = [p \in Party |-> <<>>]
  BY <1>4
<1>6. \A p \in Party : SessionOf(p) = IF p = Alice
         THEN InitAsSender(X3dhSecret(Key(Alice, 1)), SignedPreKey(Bob), Key(Alice, 1))
         ELSE InitAsReceiver(X3dhSecret(Key(Alice, 1)), SignedPreKey(Bob))
  BY <1>1, BeforeFirst DEF StartedSession, AnsweringSession, Party, Peer, Alice, Bob
<1>7. [p \in Party |-> SessionOf(p)] = [p \in Party |-> IF p = Alice
         THEN InitAsSender(X3dhSecret(Key(Alice, 1)), SignedPreKey(Bob), Key(Alice, 1))
         ELSE InitAsReceiver(X3dhSecret(Key(Alice, 1)), SignedPreKey(Bob))]
  BY <1>6
<1>8. opened = [p \in Party |-> [i \in 1 .. MaxSend |-> 0]]
  BY DEF Init
<1>9. Pair!Init
  BY <1>5, <1>7, <1>8, Zenon DEF Pair!Init, Sealed, OnWire, Pair!Party, Party, Pair!Alice, Alice, Pair!Bob, Bob,
     Pair!InitAsSender, InitAsSender, Pair!InitAsReceiver, InitAsReceiver, Pair!X3dhSecret, X3dhSecret,
     Pair!SignedPreKey, SignedPreKey, Pair!Key, Key, Pair!FirstKey, Pair!Secret, Pair!KdfRk, KdfRk,
     Pair!DhOutput, DhOutput, Pair!Chain, Chain, Pair!NoChain, NoChain, Pair!NoKey, NoKey
<1> QED
  BY <1>3, <1>9

LEMMA OnWireLonger ==
  \A f, m : IsSeq(f) => /\ Len(OnWire(f)) = Len(f)
                        /\ OnWire(Longer(f, m)) = Append(OnWire(f), Wire(m))
<1> SUFFICES ASSUME NEW f, NEW m, IsSeq(f)
             PROVE  Len(OnWire(f)) = Len(f) /\ OnWire(Longer(f, m)) = Append(OnWire(f), Wire(m))
  OBVIOUS
<1> DEFINE g == Longer(f, m)
           F == OnWire(f)
           w == Wire(m)
           T == {F[i] : i \in DOMAIN F} \cup {w}
           h == Append(F, w)
<1>1. IsLonger(g, f, m)
  BY Appended
<1>2. DOMAIN F = 1 .. Len(f) /\ Len(f) \in Nat
  BY <1>1 DEF OnWire, IsLonger
<1>3. F = [i \in 1 .. Len(f) |-> F[i]]
  BY <1>2 DEF OnWire
<1>4. OnWire(g) = [i \in 1 .. Len(f) + 1 |-> Wire(g[i])]
  BY <1>1 DEF OnWire, IsLonger
<1>5. /\ \A i \in 1 .. Len(f) : Wire(g[i]) = F[i]
      /\ Wire(g[Len(f) + 1]) = w
  BY <1>1 DEF OnWire, IsLonger
<1> HIDE DEF g, F, w
<1>6. F \in Seq(T) /\ Len(F) = Len(f) /\ w \in T
  BY <1>2, <1>3
<1> HIDE DEF T
<1>9. /\ h \in Seq(T) /\ Len(h) = Len(F) + 1 /\ h[Len(F) + 1] = w
      /\ \A i \in 1 .. Len(F) : h[i] = F[i]
  BY <1>6
<1> HIDE DEF h
<1>7. h = [i \in 1 .. Len(F) + 1 |-> h[i]]
  BY <1>9
<1>8. OnWire(g) = h
  <2>1. \A i \in 1 .. Len(f) + 1 : i = Len(f) + 1 \/ i \in 1 .. Len(f)
    BY <1>2
  <2>2. \A i \in 1 .. Len(f) + 1 : Wire(g[i]) = h[i]
    BY <1>5, <1>6, <1>9, <2>1
  <2>3. h = [i \in 1 .. Len(f) + 1 |-> h[i]]
    BY <1>6, <1>7
  <2> QED
    BY <1>4, <2>2, <2>3
<1> QED
  BY <1>6, <1>8 DEF g, F, w, h

LEMMA PairVars == Pair!vars = <<SessBar, SentBar, opened>>
  BY DEF Pair!vars, SessBar, SentBar, Sealed, OnWire

LEMMA PairSend ==
  ASSUME NEW p \in Party, Len(SentBar[p]) < MaxSend, CanEncrypt(SessBar[p]), opened' = opened,
         SentBar' = [SentBar EXCEPT ![p] = Append(SentBar[p],
                       Encrypted(SessBar[p], Label[p], <<p, Len(SentBar[p]) + 1>>))],
         SessBar' = [SessBar EXCEPT ![p] = Encrypt(SessBar[p])]
  PROVE  Pair!Next
<1>1. Pair!Send(p)
  BY SameOperators, Zenon DEF Pair!Send, SessBar, SentBar, Sealed, OnWire
<1> QED
  BY <1>1 DEF Pair!Next, Pair!Party, Party, Pair!Alice, Alice, Pair!Bob, Bob

LEMMA PairReceive ==
  ASSUME NEW p \in Party, NEW i \in 1 .. MaxSend, i \in 1 .. Len(SentBar[Peer(p)]),
         NEW m, SentBar[Peer(p)][i] = m, NEW k, k = Key(p, SessBar[p].self.no + 1),
         Decrypts(SessBar[p], m, Label[p], k), SentBar' = SentBar,
         SessBar' = [SessBar EXCEPT ![p] = Decrypted(SessBar[p], m.header, k)],
         opened' = [opened EXCEPT ![Peer(p)][m.ct.text[2]] = @ + 1]
  PROVE  Pair!Next
<1>1. Pair!Peer(p) = Peer(p)
  BY DEF Pair!Peer, Peer, Pair!Alice, Alice, Pair!Bob, Bob
<1>2. Pair!FreshKey(p) = k
  BY SameOperators, Zenon DEF Pair!FreshKey, SessBar
<1>3. Pair!Stored(p, m) = Decrypted(SessBar[p], m.header, k)
  BY <1>2, SameOperators DEF Pair!Stored, SessBar
<1>4. Pair!Decrypts(SessBar[p], m, Label[p], Pair!FreshKey(p))
  BY <1>2, SameOperators
<1>5. SentBar[Pair!Peer(p)][i] = m /\ i \in 1 .. Len(SentBar[Pair!Peer(p)])
  BY <1>1, Zenon
<1>6. SessBar' = [SessBar EXCEPT ![p] = Pair!Stored(p, SentBar[Pair!Peer(p)][i])]
  BY <1>3, <1>5, Zenon
<1>7. opened' = IF Pair!Decrypts(SessBar[p], SentBar[Pair!Peer(p)][i], Label[p], Pair!FreshKey(p))
                THEN [opened EXCEPT ![Pair!Peer(p)][SentBar[Pair!Peer(p)][i].ct.text[2]] = @ + 1]
                ELSE opened
  <2>1. opened' = [opened EXCEPT ![Pair!Peer(p)][SentBar[Pair!Peer(p)][i].ct.text[2]] = @ + 1]
    BY <1>1, <1>5, Zenon
  <2>2. Pair!Decrypts(SessBar[p], SentBar[Pair!Peer(p)][i], Label[p], Pair!FreshKey(p))
    BY <1>4, <1>5, Zenon
  <2> QED
    BY <2>1, <2>2, Zenon
<1>8. Pair!Receive(p, i)
  BY <1>5, <1>6, <1>7, Zenon DEF Pair!Receive, SessBar, SentBar, Sealed, OnWire
<1> QED
  BY <1>8 DEF Pair!Next, Pair!Party, Party, Pair!Alice, Alice, Pair!Bob, Bob

-----------------------------------------------------------------------------

LEMMA StayedSame ==
  ASSUME UNCHANGED <<row, issued>>
  PROVE  /\ \A p : SessionOf(p)' = SessionOf(p) /\ NextKey(p)' = NextKey(p) /\ Messages(p)' = Messages(p)
         /\ SessBar' = SessBar /\ SentBar' = SentBar
<1>1. \A p : SessionOf(p)' = SessionOf(p) /\ Messages(p)' = Messages(p) /\ Sealed(p)' = Sealed(p)
  BY DEF SessionOf, Messages, Sealed
<1> QED
  BY <1>1 DEF NextKey, SessBar, SentBar

\* A step that writes no row and issues nothing is none of RatchetPair's.
LEMMA Idle ==
  ASSUME OInv, UNCHANGED <<row, issued, opened>>,
         \A q \in Party : \A t \in Slot : ops'[q][t] = ops[q][t] \/ Holds(q, ops'[q][t])
  PROVE  OInv' /\ UNCHANGED Pair!vars
<1>1. row' = row /\ issued' = issued /\ opened' = opened
  OBVIOUS
<1>2. /\ \A p : SessionOf(p)' = SessionOf(p) /\ NextKey(p)' = NextKey(p) /\ Messages(p)' = Messages(p)
      /\ SessBar' = SessBar /\ SentBar' = SentBar
  BY StayedSame
<1>3. Rows' /\ Turned'
  BY <1>1, <1>2 DEF OInv, Rows, Turned
<1>4. ASSUME NEW q \in Party, NEW t \in Slot PROVE Holds(q, ops[q][t])'
  <2>1. Holds(q, ops'[q][t])
    BY DEF OInv, Held
  <2>2. Holds(q, ops'[q][t]) = Holds(q, ops[q][t])'
    BY <1>1 DEF Holds, Reads, MayKeep
  <2> QED
    BY <2>1, <2>2
<1>5. Held'
  BY <1>4 DEF Held
<1>6. Pair!vars' = Pair!vars
  BY <1>1, <1>2, Zenon DEF Pair!vars, SessBar, SentBar, Sealed, OnWire
<1> QED
  BY <1>3, <1>5, <1>6 DEF OInv

\* What is issued in the step is p's and made with p's ratchet key.
Issues(p) ==
    /\ \A q \in Party : q # p => issued'[q] = issued[q]
    /\ \A m \in Messages(p)' : \/ m \in Messages(p)
                               \/ m.header.dh = SessionOf(p).self /\ m.first \in FirstOf(p)

\* A step of p that writes p's row.
LEMMA Writes ==
  ASSUME Typed, OInv, NEW p \in Party, NEW s \in Slot,
         NEW op, ops' = [ops EXCEPT ![p][s] = op], op.step \notin {"save", "keep"},
         NEW t, Owned(p, t), SessionOf(p).self.no <= t.self.no, row' = [row EXCEPT ![p] = t],
         Issues(p)
  PROVE  OInv' /\ SessBar' = [SessBar EXCEPT ![p] = t]
<1>1. row = [q \in Party |-> row[q]] /\ Rows /\ Turned /\ Held
  BY DEF Typed, OInv
<1>2. row'[p] = t /\ \A q \in Party : q # p => row'[q] = row[q]
  BY <1>1
<1>3. t # NoSession
  BY OwnedSome
<1>4. SessionOf(p)' = t
  BY <1>2, <1>3 DEF SessionOf
<1>5. \A q \in Party : q # p => /\ SessionOf(q)' = SessionOf(q) /\ NextKey(q)' = NextKey(q)
                                /\ Messages(q)' = Messages(q)
  BY <1>2 DEF SessionOf, NextKey, Messages, Issues
<1>6. Rows'
  BY <1>1, <1>2, <1>3 DEF Rows, Issues
<1>7. SessionOf(p).self.no \in Nat /\ t.self.no \in Nat
  BY <1>1, SessionOwned DEF Owned
<1>8. Turned'
  <2>1. ASSUME NEW m \in Messages(p)'
        PROVE  m.header.dh.no \in Nat /\ m.header.dh.no <= t.self.no /\ m.first \in FirstOf(p)
    <3>1. m \in Messages(p) \/ (m.header.dh = SessionOf(p).self /\ m.first \in FirstOf(p))
      BY DEF Issues
    <3>2. CASE m \in Messages(p)
      BY <1>1, <1>7, <3>2 DEF Turned
    <3>3. CASE m.header.dh = SessionOf(p).self /\ m.first \in FirstOf(p)
      BY <1>7, <3>3
    <3> QED
      BY <3>1, <3>2, <3>3
  <2> QED
    BY <1>1, <1>4, <1>5, <2>1 DEF Turned
<1>9. Held'
  <2>1. /\ ops' = [q \in Party |-> [r \in Slot |-> ops'[q][r]]] /\ ops'[p][s] = op
        /\ \A q \in Party : \A r \in Slot : q # p \/ r # s => ops'[q][r] = ops[q][r]
        /\ \A q \in Party : \A step : \A r \in Slot :
             r \in Steps(q, step)' <=> IF q = p /\ r = s THEN op.step = step ELSE r \in Steps(q, step)
    BY SlotSteps
  <2>2. \A read : Reads(p, read) => Reads(p, read)'
    <3> SUFFICES ASSUME NEW read, Reads(p, read), read # NoSession PROVE Reads(p, read)'
      BY DEF Reads
    <3>1. row[p] # NoSession /\ Owned(p, read) /\ read.self.no <= row[p].self.no
      BY DEF Reads
    <3>2. SessionOf(p) = row[p]
      BY <3>1 DEF SessionOf
    <3>3. read.self.no <= t.self.no
      BY <1>7, <3>1, <3>2 DEF Owned
    <3> QED
      BY <1>2, <1>3, <3>1, <3>3 DEF Reads
  <2>3. \A o : MayKeep(p, o) => MayKeep(p, o)'
    BY <1>2, <1>3 DEF MayKeep
  <2>4. \A o : Holds(p, o) => Holds(p, o)'
    BY <2>2, <2>3 DEF Holds
  <2>5. \A q \in Party : q # p => \A o : Holds(q, o) => Holds(q, o)'
    BY <1>2 DEF Holds, Reads, MayKeep
  <2>6. ASSUME NEW q \in Party, NEW r \in Slot PROVE Holds(q, ops[q][r])'
    <3>1. CASE q = p /\ r = s
      BY <2>1, <3>1 DEF Holds
    <3>2. CASE q # p \/ r # s
      <4>1. Holds(q, ops[q][r]) /\ ops'[q][r] = ops[q][r]
        BY <1>1, <2>1, <3>2 DEF Held
      <4>2. Holds(q, ops'[q][r]) /\ \A o : Holds(q, o) => Holds(q, o)'
        BY <2>4, <2>5, <4>1
      <4> QED
        BY <4>1, <4>2 DEF Holds, Reads, MayKeep
    <3> QED
      BY <3>1, <3>2
  <2> QED
    BY <2>6 DEF Held
<1>10. SessBar' = [SessBar EXCEPT ![p] = t]
  BY <1>4, <1>5 DEF SessBar
<1> QED
  BY <1>6, <1>8, <1>9, <1>10 DEF OInv

\* A step that only changes a slot to an operation that holds what it may.
LEMMA OneQuiet ==
  ASSUME KInv, OInv, NEW p \in Party, NEW s \in Slot, NEW op,
         ops' = [ops EXCEPT ![p][s] = op], Holds(p, op), UNCHANGED <<row, issued, opened>>
  PROVE  OInv' /\ UNCHANGED Pair!vars
<1>0. Typed
  BY DEF KInv
<1>1. /\ ops' = [q \in Party |-> [t \in Slot |-> ops'[q][t]]] /\ ops'[p][s] = op
      /\ \A q \in Party : \A t \in Slot : q # p \/ t # s => ops'[q][t] = ops[q][t]
      /\ \A q \in Party : \A step : \A t \in Slot :
           t \in Steps(q, step)' <=> IF q = p /\ t = s THEN op.step = step ELSE t \in Steps(q, step)
  BY <1>0, SlotSteps
<1>2. \A q \in Party : \A t \in Slot : ops'[q][t] = ops[q][t] \/ Holds(q, ops'[q][t])
  BY <1>1
<1> QED
  BY <1>2, Idle

LEMMA OneSaveSent ==
  ASSUME KInv, OInv, NEW p \in Party, NEW s \in Slot, SaveSent(p, s), ~ strayed'
  PROVE  OInv' /\ (Pair!Next \/ UNCHANGED Pair!vars)
<1> DEFINE o == ops[p][s]
           m == Message(p, o)
           op == [step |-> "transmit", msg |-> m]
           f == issued[p]
           S == SessionOf(p)
<1>1. Typed /\ Numbered /\ Rows /\ Turned /\ Held
  BY DEF KInv, OInv
<1>2. o.step = "save" /\ opened' = opened
  BY DEF SaveSent
<1>3. \/ /\ row' = [row EXCEPT ![p] = Encrypt(ToSend(p, o.read))] /\ ops' = [ops EXCEPT ![p][s] = op]
         /\ issued' = [issued EXCEPT ![p] = Append(f, m)] /\ ~ Clobbers(p, o)
      \/ row' = row /\ issued' = issued /\ ops' = [ops EXCEPT ![p][s] = NoOp]
  BY Zenon DEF SaveSent, Issued
<1>5. CASE row' = row /\ issued' = issued /\ ops' = [ops EXCEPT ![p][s] = NoOp]
  <2>1. Holds(p, NoOp)
    BY DEF Holds, NoOp
  <2> QED
    BY <1>2, <1>5, <2>1, OneQuiet
<1>6. CASE /\ row' = [row EXCEPT ![p] = Encrypt(ToSend(p, o.read))] /\ ops' = [ops EXCEPT ![p][s] = op]
           /\ issued' = [issued EXCEPT ![p] = Append(f, m)] /\ ~ Clobbers(p, o)
  <2> DEFINE first == IF o.read = NoSession THEN FreshKey(p) ELSE NoKey
  <2>0. ToSend(p, o.read) = S /\ CanEncrypt(S) /\ first \in FirstOf(p)
    <3>1. o.read = row[p] /\ (o.read = NoSession => p # Bob) /\ MaySave(o.read)
      BY <1>1, <1>2, <1>6 DEF Clobbers, Held, Holds
    <3>2. CASE o.read = NoSession
      <4>1. p = Alice
        BY <3>1, <3>2 DEF Party
      <4>2. FreshKey(p) = Key(Alice, 1)
        BY <1>1, <3>1, <3>2, <4>1, FreshIs
      <4>3. ToSend(p, o.read) = S /\ S = StartedSession(p, Key(Alice, 1))
        BY <3>1, <3>2, <4>1, <4>2, BeforeFirst DEF ToSend
      <4>4. CanEncrypt(StartedSession(p, Key(Alice, 1)))
        <5>1. \A a, b : Append(<<a>>, b) # <<>>
          <6> SUFFICES ASSUME NEW a, NEW b PROVE Append(<<a>>, b) # <<>>
            OBVIOUS
          <6>1. <<a>> \in Seq({a, b}) /\ b \in {a, b}
            OBVIOUS
          <6>2. Len(Append(<<a>>, b)) = 2 /\ Len(<<>>) = 0
            BY <6>1
          <6> QED
            BY <6>2
        <5>2. \A r : r # <<>> => Chain(r, 0) # NoChain
          BY DEF Chain, NoChain
        <5>3. PICK a, b : StartedSession(p, Key(Alice, 1)).sendCk = Chain(Append(<<a>>, b), 0)
          BY DEF StartedSession, InitAsSender, KdfRk
        <5> QED
          BY <5>1, <5>2, <5>3 DEF CanEncrypt
      <4> QED
        BY <3>2, <4>1, <4>2, <4>3, <4>4 DEF FirstOf
    <3>3. CASE o.read # NoSession
      BY <3>1, <3>3 DEF ToSend, MaySave, SessionOf, FirstOf
    <3> QED
      BY <3>2, <3>3
  <2> DEFINE n == Len(f) + 1
             g == issued'[p]
             e == Encrypted(S, Label[p], <<p, n>>)
             t == Encrypt(S)
  <2>1. /\ issued'[p] = Longer(f, m) /\ issued' = [q \in Party |-> issued'[q]]
        /\ \A q \in Party : q # p => issued'[q] = issued[q]
    BY <1>1, <1>6 DEF Typed, Longer
  <2>2. IsSeq(f)
    BY <1>1 DEF Numbered
  <2>3. IsLonger(g, f, m)
    <3> HIDE DEF f, m
    <3> QED
      BY <2>1, <2>2, Appended
  <2>4. e = [header |-> Header(S.self, S.prevN, S.sendN), ct |-> Seal(MessageKey(S.sendCk), Label[p], <<p, n>>)]
    BY DEF Encrypted
  <2>5. m = [first |-> first, header |-> e.header, ct |-> e.ct]
    BY <2>0 DEF Message
  <2>6. m.header.dh = S.self /\ m.first \in FirstOf(p) /\ Wire(m) = e
    BY <2>0, <2>4, <2>5 DEF Header, Wire
  <2>7. Owned(p, S) /\ Owned(p, t) /\ S.self.no <= t.self.no
    <3>1. Owned(p, S)
      BY <1>1, SessionOwned
    <3> HIDE DEF S
    <3>2. Owned(p, t) /\ t.self = S.self
      BY <3>1, EncryptOwned
    <3> HIDE DEF t
    <3> QED
      BY <3>1, <3>2 DEF Owned
  <2>8. Issues(p)
    <3> HIDE DEF m, S
    <3>1. ASSUME NEW i \in DOMAIN g PROVE g[i] \in Messages(p) \/ g[i] = m
      <4>1. i \in 1 .. Len(f) \/ i = Len(f) + 1
        BY <2>3 DEF IsLonger
      <4> QED
        BY <2>3, <4>1 DEF IsLonger, Messages
    <3>2. ASSUME NEW x \in Messages(p)'
          PROVE  x \in Messages(p) \/ (x.header.dh = S.self /\ x.first \in FirstOf(p))
      <4>1. PICK i \in DOMAIN g : x = g[i]
        BY DEF Messages
      <4> QED
        BY <2>6, <3>1, <4>1
    <3> QED
      BY <2>1, <3>2 DEF Issues, S
  <2>9. row' = [row EXCEPT ![p] = t] /\ op.step = "transmit"
    BY <1>6, <2>0
  <2>10. OInv' /\ SessBar' = [SessBar EXCEPT ![p] = t]
    <3>1. op.step \notin {"save", "keep"}
      BY <2>9
    <3>2. ops' = [ops EXCEPT ![p][s] = op]
      BY <1>6
    <3>3. Owned(p, t) /\ SessionOf(p).self.no <= t.self.no
      BY <2>7
    <3> HIDE DEF op, t
    <3> QED
      BY <1>1, <2>8, <2>9, <3>1, <3>2, <3>3, Writes
  <2>11. SessBar[p] = S /\ SentBar[p] = Sealed(p) /\ Len(Sealed(p)) = Len(f)
    BY <2>2, OnWireLonger DEF SessBar, SentBar, Sealed
  <2>12. Len(f) < MaxSend
    <3>1. s \in Steps(p, "save") /\ IsFiniteSet(Steps(p, "save"))
      BY <1>2, StepsIn, ConversationAssumption, FS_Subset DEF Steps
    <3>2. Cardinality(Steps(p, "save")) \in Nat /\ Cardinality(Steps(p, "save")) # 0
      BY <3>1, FS_CardinalityType, FS_EmptySet
    <3>3. Len(f) + Cardinality(Steps(p, "save")) <= MaxSend
      BY <1>1 DEF Numbered
    <3>4. Len(f) \in Nat
      BY <2>3 DEF IsLonger
    <3> QED
      BY <3>2, <3>3, <3>4, ConversationAssumption
  <2>13. SentBar' = [SentBar EXCEPT ![p] = Append(Sealed(p), e)]
    <3>1. Sealed(p)' = Append(Sealed(p), e)
      <4>1. OnWire(Longer(f, m)) = Append(OnWire(f), Wire(m))
        <5> HIDE DEF f, m
        <5> QED
          BY <2>2, OnWireLonger
      <4> QED
        BY <2>1, <2>6, <4>1 DEF Sealed
    <3>2. \A q \in Party : q # p => Sealed(q)' = Sealed(q)
      BY <2>1 DEF Sealed
    <3> QED
      BY <3>1, <3>2 DEF SentBar
  <2> HIDE DEF t, e, f, S
  <2>14. Len(SentBar[p]) < MaxSend /\ CanEncrypt(SessBar[p])
    BY <2>0, <2>11, <2>12
  <2>15. SentBar' = [SentBar EXCEPT ![p] = Append(SentBar[p],
                       Encrypted(SessBar[p], Label[p], <<p, Len(SentBar[p]) + 1>>))]
    BY <2>11, <2>13 DEF e
  <2>16. SessBar' = [SessBar EXCEPT ![p] = Encrypt(SessBar[p])]
    BY <2>10, <2>11 DEF t
  <2>17. Pair!Next
    BY <1>2, <2>14, <2>15, <2>16, PairSend
  <2> QED
    BY <2>10, <2>17
<1> QED
  BY <1>3, <1>5, <1>6

LEMMA OneSaveReceived ==
  ASSUME KInv, OInv, NEW p \in Party, NEW s \in Slot, SaveReceived(p, s), ~ strayed'
  PROVE  OInv' /\ (Pair!Next \/ UNCHANGED Pair!vars)
<1> DEFINE o == ops[p][s]
           m == o.msg
           op == [step |-> "store", msg |-> m]
           q == Peer(p)
           S == SessionOf(p)
           k == NextKey(p)
           t == Decrypted(S, m.header, k)
<1>1. Typed /\ Numbered /\ Rows /\ Turned /\ Held /\ q \in Party
  BY Parties DEF KInv, OInv
<1>2. o.step = "keep" /\ issued' = issued
  BY DEF SaveReceived
<1>4. \/ /\ row' = [row EXCEPT ![p] = Decrypted(ToOpen(p, o.read, m), m.header, FreshKey(p))]
         /\ ops' = [ops EXCEPT ![p][s] = op] /\ ~ Clobbers(p, o)
         /\ opened' = [opened EXCEPT ![q][m.ct.text[2]] = @ + 1]
      \/ row' = row /\ opened' = opened /\ ops' = [ops EXCEPT ![p][s] = NoOp]
  BY Zenon DEF SaveReceived, Keeps
<1>5. CASE row' = row /\ opened' = opened /\ ops' = [ops EXCEPT ![p][s] = NoOp]
  <2>1. Holds(p, NoOp)
    BY DEF Holds, NoOp
  <2> QED
    BY <1>2, <1>5, <2>1, OneQuiet
<1>6. CASE /\ row' = [row EXCEPT ![p] = Decrypted(ToOpen(p, o.read, m), m.header, FreshKey(p))]
           /\ ops' = [ops EXCEPT ![p][s] = op] /\ ~ Clobbers(p, o)
           /\ opened' = [opened EXCEPT ![q][m.ct.text[2]] = @ + 1]
  <2>0. m \in Messages(q)
    <3>1. s \in Steps(p, "keep")
      BY <1>2 DEF Steps
    <3> QED
      BY <3>1 DEF KInv, Sourced
  <2>00. ToOpen(p, o.read, m) = S /\ FreshKey(p) = k /\ Decrypts(S, m, Label[p], k)
    <3>0. FreshKey(p) = IF row[p] = NoSession THEN Key(p, 1) ELSE k
      BY <1>1, FreshIs
    <3>1. o.read = row[p] /\ (o.read # NoSession \/ m.first # NoKey)
      BY <1>1, <1>2, <1>6 DEF Clobbers, Held, Holds, MayKeep
    <3>2. Decrypts(ToOpen(p, o.read, m), m, Label[p], Key(p, ToOpen(p, o.read, m).self.no + 1))
      BY <1>1, <1>2, <3>1 DEF Held, Holds, MayKeep
    <3>3. CASE row[p] = NoSession
      <4>1. m.first \in FirstOf(q) /\ q # p
        BY <1>1, <2>0, Parties DEF Turned
      <4>2. q = Alice /\ p # Alice /\ m.first = Key(Alice, 1)
        BY <3>1, <3>3, <4>1 DEF FirstOf
      <4>3. ToOpen(p, o.read, m) = S /\ FreshKey(p) = k
        BY <3>0, <3>1, <3>3, <4>2, BeforeFirst DEF ToOpen
      <4> QED
        BY <3>2, <4>3 DEF NextKey
    <3>4. CASE row[p] # NoSession
      <4>1. ToOpen(p, o.read, m) = S
        BY <3>1, <3>4 DEF ToOpen, SessionOf
      <4> QED
        BY <3>0, <3>2, <3>4, <4>1 DEF NextKey
    <3> QED
      BY <3>3, <3>4
  <2>1. Owned(p, t) /\ S.self.no <= t.self.no
    <3>1. Owned(p, S) /\ k = Key(p, S.self.no + 1)
      BY <1>1, SessionOwned DEF NextKey
    <3> HIDE DEF S, k, m
    <3> QED
      BY <3>1, DecryptOwned
  <2>2. Issues(p)
    BY <1>2 DEF Issues, Messages
  <2>3. OInv' /\ SessBar' = [SessBar EXCEPT ![p] = t]
    <3>1. op.step \notin {"save", "keep"}
      OBVIOUS
    <3>2. row' = [row EXCEPT ![p] = t] /\ ops' = [ops EXCEPT ![p][s] = op]
      BY <1>6, <2>00
    <3>3. Owned(p, t) /\ SessionOf(p).self.no <= t.self.no
      BY <2>1
    <3>4. Typed /\ OInv
      BY <1>1
    <3> HIDE DEF op, t
    <3> QED
      BY <2>2, <3>1, <3>2, <3>3, <3>4, Writes
  <2>4. SentBar' = SentBar
    BY <1>2 DEF SentBar, Sealed
  <2>6. IsSeq(issued[q]) /\ DOMAIN issued[q] = 1 .. Len(issued[q]) /\ Len(issued[q]) \in Nat
    BY <1>1, SeqIs DEF Numbered, IsSeq
  <2>7. PICK i \in 1 .. Len(issued[q]) : m = issued[q][i]
    BY <2>0, <2>6 DEF Messages
  <2>8. Len(issued[q]) <= MaxSend
    <3>1. IsFiniteSet(Steps(q, "save"))
      BY StepsIn, ConversationAssumption, FS_Subset
    <3>2. Cardinality(Steps(q, "save")) \in Nat
      BY <3>1, FS_CardinalityType
    <3>3. Len(issued[q]) + Cardinality(Steps(q, "save")) <= MaxSend
      BY <1>1 DEF Numbered
    <3> QED
      BY <2>6, <3>2, <3>3, ConversationAssumption
  <2>9. i \in 1 .. MaxSend /\ i \in 1 .. Len(SentBar[q]) /\ SentBar[q][i] = Wire(m)
    <3>1. SentBar[q] = OnWire(issued[q])
      BY <1>1 DEF SentBar, Sealed
    <3>2. Len(OnWire(issued[q])) = Len(issued[q])
      <4> DEFINE f == issued[q]
      <4>1. IsSeq(f)
        BY <2>6
      <4> HIDE DEF f
      <4>2. Len(OnWire(f)) = Len(f)
        BY <4>1, OnWireLonger
      <4> QED
        BY <4>2 DEF f
    <3>3. OnWire(issued[q])[i] = Wire(m)
      BY <2>6, <2>7 DEF OnWire
    <3> QED
      BY <2>6, <2>8, <3>1, <3>2, <3>3, ConversationAssumption
  <2>10. SessBar[p] = S /\ k = Key(p, S.self.no + 1) /\ Wire(m).header = m.header /\ Wire(m).ct = m.ct
    BY DEF SessBar, NextKey, Wire
  <2>11. Decrypts(S, Wire(m), Label[p], k)
    BY <2>00, SameWire
  <2> DEFINE w == Wire(m)
  <2> HIDE DEF S, k, t
  <2>12. /\ SessBar' = [SessBar EXCEPT ![p] = Decrypted(SessBar[p], w.header, k)]
         /\ opened' = [opened EXCEPT ![Peer(p)][w.ct.text[2]] = @ + 1]
         /\ k = Key(p, SessBar[p].self.no + 1) /\ Decrypts(SessBar[p], w, Label[p], k)
         /\ i \in 1 .. Len(SentBar[Peer(p)]) /\ SentBar[Peer(p)][i] = w
    BY <1>6, <2>3, <2>9, <2>10, <2>11 DEF t
  <2> HIDE DEF w
  <2>13. Pair!Next
    BY <2>4, <2>9, <2>12, PairReceive
  <2> QED
    BY <2>3, <2>13
<1> QED
  BY <1>4, <1>5, <1>6

\* What an operation starts with is the row, or nothing.
LEMMA ReadsRow ==
  ASSUME Rows, NEW p \in Party, NEW read \in ReadRow(p) PROVE Reads(p, read)
<1>1. read = row[p] \/ read = NoSession
  BY DEF ReadRow
<1>2. row[p] # NoSession => Owned(p, row[p])
  BY DEF Rows
<1> QED
  BY <1>1, <1>2 DEF Reads, Owned

LEMMA OneStartText ==
  ASSUME KInv, OInv, NEW p \in Party, NEW s \in Slot, StartText(p, s)
  PROVE  OInv' /\ UNCHANGED Pair!vars
<1>1. UNCHANGED <<row, issued, opened>>
  BY DEF StartText
<1>2. PICK read \in ReadRow(p) :
        /\ CanEncrypt(ToSend(p, read))
        /\ ops' = [ops EXCEPT ![p][s] = [step |-> "save", kind |-> "text", read |-> read]]
  BY Zenon DEF StartText
<1> DEFINE op == [step |-> "save", kind |-> "text", read |-> read]
<1>3. Reads(p, read) /\ MaySave(read)
  BY <1>2, ReadsRow DEF OInv, MaySave, ToSend
<1>4. Holds(p, op)
  BY <1>3 DEF Holds
<1> HIDE DEF op
<1>5. ops' = [ops EXCEPT ![p][s] = op]
  BY <1>2 DEF op
<1> QED
  BY <1>1, <1>4, <1>5, OneQuiet

LEMMA OneStartEvent ==
  ASSUME KInv, OInv, NEW p \in Party, NEW s \in Slot, StartEvent(p, s)
  PROVE  OInv' /\ UNCHANGED Pair!vars
<1> DEFINE op == [step |-> "save", kind |-> "event", read |-> row[p]]
<1>1. /\ row[p] # NoSession /\ CanEncrypt(row[p]) /\ UNCHANGED <<row, issued, opened>>
      /\ ops' = [ops EXCEPT ![p][s] = op]
  BY DEF StartEvent
<1>2. row[p] \in ReadRow(p)
  BY DEF ReadRow
<1>3. Holds(p, op)
  BY <1>1, <1>2, ReadsRow DEF OInv, Holds, MaySave
<1> HIDE DEF op
<1> QED
  BY <1>1, <1>3, OneQuiet

LEMMA OneDecryptNext ==
  ASSUME KInv, OInv, NEW p \in Party, NEW s \in Slot,
         NEW m \in sent[Peer(p)], DecryptNext(p, s, m)
  PROVE  OInv' /\ UNCHANGED Pair!vars
<1>1. UNCHANGED <<row, issued, opened>>
  BY DEF DecryptNext
<1>2. PICK read \in ReadRow(p) :
        /\ read # NoSession \/ m.first # NoKey
        /\ Decrypts(ToOpen(p, read, m), m, Label[p], FreshKey(p))
        /\ ops' = [ops EXCEPT ![p][s] = [step |-> "keep", msg |-> m, read |-> read]]
  BY Zenon DEF DecryptNext
<1> DEFINE op == [step |-> "keep", msg |-> m, read |-> read]
<1>3. op.step = "keep" /\ op.msg = m /\ op.read = read /\ ops' = [ops EXCEPT ![p][s] = op]
  BY <1>2
<1> HIDE DEF op
<1>4. Reads(p, read) /\ (read = row[p] \/ read = NoSession)
  BY ReadsRow DEF OInv, ReadRow
<1>5. FreshKey(p) = IF row[p] = NoSession THEN Key(p, 1) ELSE NextKey(p)
  BY FreshIs DEF OInv
<1>6. MayKeep(p, op)
  <2>1. CASE row[p] = NoSession
    <3>1. read = NoSession /\ FreshKey(p) = Key(p, 1)
      BY <1>4, <1>5, <2>1
    <3>2. ToOpen(p, read, m).self.no = 0
      BY <3>1 DEF ToOpen, AnsweringSession, InitAsReceiver, SignedPreKey, Key
    <3> QED
      BY <1>2, <1>3, <3>1, <3>2 DEF MayKeep
  <2>2. CASE row[p] # NoSession /\ read = row[p]
    <3>1. ToOpen(p, read, m) = row[p] /\ SessionOf(p) = row[p]
      BY <2>2 DEF ToOpen, SessionOf
    <3> QED
      BY <1>2, <1>3, <1>5, <2>2, <3>1 DEF MayKeep, NextKey
  <2>3. CASE row[p] # NoSession /\ read = NoSession
    BY <1>2, <1>3, <2>3 DEF MayKeep
  <2> QED
    BY <1>4, <2>1, <2>2, <2>3
<1>7. Holds(p, op)
  BY <1>3, <1>4, <1>6 DEF Holds
<1> QED
  BY <1>1, <1>3, <1>7, OneQuiet

LEMMA OneOther ==
  ASSUME KInv, OInv, NEW p \in Party,
         \/ Crash(p) \/ \E s \in Slot : Transmit(p, s) \/ StoreReceived(p, s)
  PROVE  OInv' /\ UNCHANGED Pair!vars
<1>0. Holds(p, NoOp)
  BY DEF Holds, NoOp
<1>1. CASE \E s \in Slot : Transmit(p, s) \/ StoreReceived(p, s)
  <2>1. PICK s \in Slot : ops' = [ops EXCEPT ![p][s] = NoOp] /\ UNCHANGED <<row, issued, opened>>
    BY <1>1 DEF Transmit, StoreReceived
  <2> QED
    BY <1>0, <2>1, OneQuiet
<1>2. CASE Crash(p)
  <2>1. ops' = [ops EXCEPT ![p] = [t \in Slot |-> NoOp]] /\ UNCHANGED <<row, issued, opened>>
    BY <1>2 DEF Crash
  <2>2. ops = [q \in Party |-> [t \in Slot |-> ops[q][t]]]
    BY DEF KInv, Typed
  <2>3. \A q \in Party : \A t \in Slot : ops'[q][t] = ops[q][t] \/ (q = p /\ ops'[q][t] = NoOp)
    BY <2>1, <2>2
  <2>4. \A q \in Party : \A t \in Slot : ops'[q][t] = ops[q][t] \/ Holds(q, ops'[q][t])
    BY <1>0, <2>3
  <2> QED
    BY <2>1, <2>4, Idle
<1> QED
  BY <1>1, <1>2

\* What has strayed has strayed.
LEMMA Straying == strayed /\ [Next]_vars => strayed'
<1> SUFFICES ASSUME strayed, [Next]_vars PROVE strayed'
  OBVIOUS
<1>1. CASE UNCHANGED vars
  BY <1>1 DEF vars
<1>2. \A p \in Party : Crash(p) => strayed'
  BY DEF Crash
<1>3. \A p \in Party : \A s \in Slot : StartText(p, s) \/ StartEvent(p, s) => strayed'
  BY DEF StartText, StartEvent
<1>4. \A p \in Party : \A s \in Slot : SaveSent(p, s) => strayed'
  BY Zenon DEF SaveSent
<1>5. \A p \in Party : \A s \in Slot : Transmit(p, s) \/ StoreReceived(p, s) => strayed'
  BY DEF Transmit, StoreReceived
<1>6. \A p \in Party : \A s \in Slot : \A m \in sent[Peer(p)] : DecryptNext(p, s, m) => strayed'
  BY Zenon DEF DecryptNext
<1>7. \A p \in Party : \A s \in Slot : SaveReceived(p, s) => strayed'
  BY Zenon DEF SaveReceived, Keeps
<1> QED
  BY <1>1, <1>2, <1>3, <1>4, <1>5, <1>6, <1>7, Zenon DEF Next

LEMMA ONext ==
  ASSUME KInv, strayed \/ OInv, [Next]_vars
  PROVE  (strayed' \/ OInv') /\ [strayed' \/ Pair!Next]_Pair!vars
<1>1. CASE UNCHANGED vars
  <2>1. UNCHANGED <<row, issued, opened>> /\ ops' = ops /\ strayed' = strayed
    BY <1>1 DEF vars
  <2> QED
    BY <2>1, Idle
<1>2. CASE Next
  <2>1. PICK p \in Party :
          \/ Crash(p)
          \/ \E s \in Slot :
               \/ StartText(p, s) \/ StartEvent(p, s)
               \/ SaveSent(p, s) \/ Transmit(p, s)
               \/ \E m \in sent[Peer(p)] : DecryptNext(p, s, m)
               \/ SaveReceived(p, s) \/ StoreReceived(p, s)
    BY <1>2, Zenon DEF Next
  <2>2. CASE strayed
    BY <2>2, Straying
  <2>3. CASE OInv /\ ~ strayed'
    BY <2>1, <2>3, OneOther, OneStartText, OneStartEvent, OneSaveSent, OneDecryptNext, OneSaveReceived
  <2> QED
    BY <2>2, <2>3
<1> QED
  BY <1>1, <1>2

\* However operations overlap, whichever calls of the vault fail and wherever a
\* process ends: until a stored session is overwritten unread or used unsaved,
\* the clients' steps are those of the two sessions of RatchetPair.
THEOREM RatchetPairUnlessStrayed == Spec => ImplementsRatchetPair
<1>1. Init => KInv /\ OInv /\ Pair!Init
  BY KInit, OInit
<1>2. KInv /\ (strayed \/ OInv) /\ [Next]_vars
        => KInv' /\ (strayed' \/ OInv') /\ [strayed' \/ Pair!Next]_Pair!vars
  BY KNext, ONext
<1> QED
  BY <1>1, <1>2, PTL DEF Spec, ImplementsRatchetPair

-----------------------------------------------------------------------------
(***************************************************************************)
(* So what is proved of RatchetPair is proved of the clients.              *)
(***************************************************************************)

Proved == INSTANCE RatchetPair_proofs WITH
    sess <- [p \in Party |-> SessionOf(p)],
    sent <- [p \in Party |-> [i \in DOMAIN issued[p] |-> Wire(issued[p][i])]]

LEMMA SameModules ==
  /\ Pair!Init => Proved!Init
  /\ [Pair!Next]_Pair!vars => [Proved!Next]_Proved!vars
  /\ Proved!FreshMessageKeys => Pair!FreshMessageKeys
<1>1. \A s, n : Pair!SkipUntil(s, n) = Proved!SkipUntil(s, n)
  BY DEF Pair!SkipUntil, Proved!SkipUntil, Pair!NoChain, Proved!NoChain, Pair!Chain, Proved!Chain,
     Pair!MessageKey, Proved!MessageKey
<1>2. \A s, r, k : Pair!RatchetDh(s, r, k) = Proved!RatchetDh(s, r, k)
  BY DEF Pair!RatchetDh, Proved!RatchetDh, Pair!KdfRk, Proved!KdfRk, Pair!DhOutput,
     Proved!DhOutput, Pair!Chain, Proved!Chain
<1>3. \A s, h, k : Pair!Ratcheted(s, h, k) = Proved!Ratcheted(s, h, k)
  BY <1>1, <1>2 DEF Pair!Ratcheted, Proved!Ratcheted, Pair!IsNewDh, Proved!IsNewDh
<1>4. \A s, h, k : Pair!CaughtUp(s, h, k) = Proved!CaughtUp(s, h, k)
  BY <1>1, <1>3 DEF Pair!CaughtUp, Proved!CaughtUp
<1>5. \A s, h : Pair!IsBuffered(s, h) <=> Proved!IsBuffered(s, h)
  BY DEF Pair!IsBuffered, Proved!IsBuffered, Pair!SkippedKey, Proved!SkippedKey
<1>6. \A s, h, k : Pair!WithinWindow(s, h, k) <=> Proved!WithinWindow(s, h, k)
  BY <1>3 DEF Pair!WithinWindow, Proved!WithinWindow, Pair!IsNewDh, Proved!IsNewDh, Pair!CanSkip,
     Proved!CanSkip
<1>7. \A s, m, ad, k : Pair!Decrypts(s, m, ad, k) <=> Proved!Decrypts(s, m, ad, k)
  BY <1>4, <1>5, <1>6 DEF Pair!Decrypts, Proved!Decrypts, Pair!NoChain, Proved!NoChain, Pair!Chain,
     Proved!Chain, Pair!Opens, Proved!Opens, Pair!SkippedKey, Proved!SkippedKey, Pair!MessageKey,
     Proved!MessageKey
<1>8. \A s, h, k : Pair!Decrypted(s, h, k) = Proved!Decrypted(s, h, k)
  BY <1>4, <1>5 DEF Pair!Decrypted, Proved!Decrypted, Pair!KdfCk, Proved!KdfCk, Pair!Chain,
     Proved!Chain, Pair!SkippedKey, Proved!SkippedKey
<1>9. \A s : (Pair!CanEncrypt(s) <=> Proved!CanEncrypt(s)) /\ Pair!Encrypt(s) = Proved!Encrypt(s)
  BY DEF Pair!CanEncrypt, Proved!CanEncrypt, Pair!Encrypt, Proved!Encrypt, Pair!NoChain,
     Proved!NoChain, Pair!Chain, Proved!Chain, Pair!KdfCk, Proved!KdfCk
<1>10. \A s, ad, text : Pair!Encrypted(s, ad, text) = Proved!Encrypted(s, ad, text)
  BY DEF Pair!Encrypted, Proved!Encrypted, Pair!Header, Proved!Header, Pair!Seal, Proved!Seal,
     Pair!MessageKey, Proved!MessageKey
<1>11. \A p : Pair!Peer(p) = Proved!Peer(p) /\ Pair!FreshKey(p) = Proved!FreshKey(p)
  BY DEF Pair!Peer, Proved!Peer, Pair!Alice, Proved!Alice, Pair!Bob, Proved!Bob, Pair!FreshKey,
     Proved!FreshKey, Pair!Key, Proved!Key
<1>12. Pair!Party = Proved!Party /\ Pair!vars = Proved!vars
  BY DEF Pair!Party, Proved!Party, Pair!Alice, Proved!Alice, Pair!Bob, Proved!Bob, Pair!vars,
     Proved!vars
<1>13. \A p, m : Pair!Stored(p, m) = Proved!Stored(p, m)
  BY <1>7, <1>8, <1>11 DEF Pair!Stored, Proved!Stored
<1>14. \A p : Pair!Send(p) <=> Proved!Send(p)
  BY <1>9, <1>10 DEF Pair!Send, Proved!Send
<1>15. \A p, i : Pair!Receive(p, i) <=> Proved!Receive(p, i)
  BY <1>7, <1>11, <1>13 DEF Pair!Receive, Proved!Receive
<1>16. Pair!Next <=> Proved!Next
  BY <1>12, <1>14, <1>15 DEF Pair!Next, Proved!Next
<1>17. Pair!Init => Proved!Init
  BY <1>12 DEF Pair!Init, Proved!Init, Pair!InitAsSender, Proved!InitAsSender, Pair!InitAsReceiver,
     Proved!InitAsReceiver, Pair!Secret, Proved!Secret, Pair!FirstKey, Proved!FirstKey,
     Pair!X3dhSecret, Proved!X3dhSecret, Pair!SignedPreKey, Proved!SignedPreKey, Pair!Key,
     Proved!Key, Pair!NoKey, Proved!NoKey, Pair!NoChain, Proved!NoChain, Pair!Chain, Proved!Chain,
     Pair!KdfRk, Proved!KdfRk, Pair!DhOutput, Proved!DhOutput, Pair!Alice, Proved!Alice, Pair!Bob,
     Proved!Bob
<1>18. Proved!FreshMessageKeys => Pair!FreshMessageKeys
  BY <1>12 DEF Pair!FreshMessageKeys, Proved!FreshMessageKeys, Pair!Sent, Proved!Sent
<1>19. [Pair!Next]_Pair!vars => [Proved!Next]_Proved!vars
  BY <1>16 DEF Pair!vars, Proved!vars
<1> QED
  BY <1>17, <1>18, <1>19

LEMMA WiresApart == KInv /\ Pair!FreshMessageKeys => FreshMessageKeys
<1> SUFFICES ASSUME KInv, Pair!FreshMessageKeys, NEW m1 \in Messages(Alice) \cup Messages(Bob),
                    NEW m2 \in Messages(Alice) \cup Messages(Bob), m1.ct.mk = m2.ct.mk
             PROVE  m1 = m2
  BY DEF FreshMessageKeys
<1>1. ASSUME NEW m \in Messages(Alice) \cup Messages(Bob)
      PROVE  \E p \in Party : /\ Wire(m) \in Pair!Sent(p)
                              /\ \E i \in DOMAIN issued[p] : m = issued[p][i] /\ m.ct.text = <<p, i>>
  <2>1. PICK p \in Party : m \in Messages(p)
    BY DEF Party
  <2> DEFINE f == issued[p]
  <2>2. IsSeq(f)
    BY DEF KInv, Numbered
  <2>3. DOMAIN f = 1 .. Len(f)
    BY <2>2, SeqIs DEF IsSeq
  <2>4. PICK i \in DOMAIN f : m = f[i]
    BY <2>1 DEF Messages
  <2>5. f[i].ct.text = <<p, i>>
    BY <2>3 DEF KInv, Numbered
  <2>6. SentBar[p] = OnWire(f)
    BY DEF SentBar, Sealed
  <2> HIDE DEF f
  <2>7. Len(OnWire(f)) = Len(f) /\ OnWire(f)[i] = Wire(m)
    BY <2>2, <2>4, OnWireLonger DEF OnWire
  <2>8. i \in 1 .. Len(SentBar[p]) /\ SentBar[p][i] = Wire(m)
    BY <2>3, <2>6, <2>7
  <2>9. Pair!Sent(p) = {SentBar[p][j] : j \in 1 .. Len(SentBar[p])}
    BY Zenon DEF Pair!Sent, SentBar, Sealed, OnWire
  <2>10. Wire(m) \in Pair!Sent(p)
    BY <2>8, <2>9
  <2> QED
    BY <2>4, <2>5, <2>10 DEF f
<1>2. PICK p1 \in Party : /\ Wire(m1) \in Pair!Sent(p1)
                          /\ \E i \in DOMAIN issued[p1] : m1 = issued[p1][i] /\ m1.ct.text = <<p1, i>>
  BY <1>1
<1>3. PICK p2 \in Party : /\ Wire(m2) \in Pair!Sent(p2)
                          /\ \E i \in DOMAIN issued[p2] : m2 = issued[p2][i] /\ m2.ct.text = <<p2, i>>
  BY <1>1
<1>4. Wire(m1).ct = m1.ct /\ Wire(m2).ct = m2.ct
  BY DEF Wire
<1>5. Pair!Party = Party
  BY DEF Pair!Party, Party, Pair!Alice, Alice, Pair!Bob, Bob
<1>6. \A x, y : x \in UNION {Pair!Sent(p) : p \in Party} /\ y \in UNION {Pair!Sent(p) : p \in Party}
                /\ x.ct.mk = y.ct.mk => x = y
  BY <1>5 DEF Pair!FreshMessageKeys
<1>7. Wire(m1) = Wire(m2)
  BY <1>2, <1>3, <1>4, <1>6
<1>8. m1.ct.text = m2.ct.text
  BY <1>4, <1>7
<1> QED
  BY <1>2, <1>3, <1>8

\* Until then no two messages of the conversation are sealed with one key,
\* whatever has overlapped, failed or ended, and whatever came again.
THEOREM KeysFreshUnlessStrayed == Spec => []FreshUnlessStrayed
<1>1. Proved!Init => Proved!IInv
  BY ConversationAssumption, MaxSkipAssumption, Proved!Initially
<1>2. Proved!IInv /\ [Proved!Next]_Proved!vars => Proved!IInv'
  BY ConversationAssumption, MaxSkipAssumption, Proved!Inductive
<1>3. Proved!IInv => Proved!FreshMessageKeys
  BY ConversationAssumption, MaxSkipAssumption, Proved!KeysApart
<1> DEFINE I == KInv /\ (strayed \/ (OInv /\ Proved!IInv))
<1>4. Init => I
  BY <1>1, KInit, OInit, SameModules
<1>5. I /\ [Next]_vars => I'
  <2> SUFFICES ASSUME I, [Next]_vars PROVE I'
    OBVIOUS
  <2>1. KInv' /\ (strayed' \/ OInv') /\ [strayed' \/ Pair!Next]_Pair!vars
    BY KNext, ONext
  <2>2. CASE strayed'
    BY <2>1, <2>2
  <2>3. CASE ~ strayed'
    <3>1. ~ strayed
      BY <2>3, Straying
    <3>2. [Pair!Next]_Pair!vars /\ OInv'
      BY <2>1, <2>3
    <3> QED
      BY <1>2, <2>1, <3>1, <3>2, SameModules
  <2> QED
    BY <2>2, <2>3
<1>6. I => FreshUnlessStrayed
  BY <1>3, SameModules, WiresApart DEF FreshUnlessStrayed
<1> HIDE DEF I
<1> QED
  BY <1>4, <1>5, <1>6, PTL DEF Spec

-----------------------------------------------------------------------------
(***************************************************************************)
(* And with the labels the client really passes nothing comes of it.       *)
(***************************************************************************)

\* What is issued is bound to the sender's label; nothing is taken in.
Misaddressed ==
    /\ \A p \in Party : \A m \in Messages(p) : m.ct.ad = Label[p]
    /\ \A p \in Party : \A s \in Slot : ops[p][s].step \notin {"keep", "store"}
    /\ \A p \in Party : stored[p] = {} /\ torn[p] = {}

\* A step that issues and stores nothing.
LEMMA StillMisaddressed ==
  ASSUME KInv, Misaddressed, NEW p \in Party, NEW s \in Slot, NEW op, ops' = [ops EXCEPT ![p][s] = op],
         op.step \notin {"keep", "store"}, UNCHANGED <<issued, stored, torn>>
  PROVE  Misaddressed'
<1>1. \A q \in Party : \A t \in Slot : ops'[q][t] = ops[q][t] \/ ops'[q][t] = op
  <2>1. Typed
    BY DEF KInv
  <2> QED
    BY <2>1, SlotSteps
<1>2. \A q \in Party : Messages(q)' = Messages(q)
  BY DEF Messages
<1> QED
  BY <1>1, <1>2 DEF Misaddressed

LEMMA MisaddressedNext ==
  ASSUME Label = ClientLabel, KInv, Misaddressed, [Next]_vars PROVE Misaddressed'
<1>0. NoOp.step = "none"
  BY DEF NoOp
<1>1. CASE UNCHANGED vars
  BY <1>1 DEF vars, Misaddressed, Messages
<1>2. ASSUME NEW p \in Party, Crash(p) PROVE Misaddressed'
  <2>1. /\ ops' = [ops EXCEPT ![p] = [t \in Slot |-> NoOp]] /\ UNCHANGED <<issued, stored>>
        /\ torn' = [torn EXCEPT ![p] = @ \cup InHands(p)]
    BY <1>2 DEF Crash, InHands
  <2>2. Typed
    BY DEF KInv
  <2>3. \A q \in Party : \A t \in Slot : ops'[q][t] = ops[q][t] \/ ops'[q][t] = NoOp
    BY <2>1, <2>2 DEF Typed
  <2>4. InHands(p) = {}
    BY DEF Misaddressed, InHands, Steps
  <2>5. \A q \in Party : torn'[q] = torn[q]
    BY <2>1, <2>2, <2>4 DEF Typed
  <2>6. \A q \in Party : Messages(q)' = Messages(q)
    BY <2>1 DEF Messages
  <2> QED
    BY <1>0, <2>1, <2>3, <2>5, <2>6 DEF Misaddressed
<1>3. ASSUME NEW p \in Party, NEW s \in Slot, StartText(p, s) \/ StartEvent(p, s) PROVE Misaddressed'
  <2>1. /\ UNCHANGED <<issued, stored, torn>>
        /\ \E op : ops' = [ops EXCEPT ![p][s] = op] /\ op.step = "save"
    <3>1. CASE StartText(p, s)
      <4>1. PICK read : ops' = [ops EXCEPT ![p][s] = [step |-> "save", kind |-> "text", read |-> read]]
        BY <3>1, Zenon DEF StartText
      <4>2. [step |-> "save", kind |-> "text", read |-> read].step = "save"
        OBVIOUS
      <4>3. UNCHANGED <<issued, stored, torn>>
        BY <3>1 DEF StartText
      <4> QED
        BY <4>1, <4>2, <4>3, Zenon
    <3>2. CASE StartEvent(p, s)
      <4>1. /\ ops' = [ops EXCEPT ![p][s] = [step |-> "save", kind |-> "event", read |-> row[p]]]
            /\ UNCHANGED <<issued, stored, torn>>
        BY <3>2 DEF StartEvent
      <4>2. [step |-> "save", kind |-> "event", read |-> row[p]].step = "save"
        OBVIOUS
      <4> QED
        BY <4>1, <4>2, Zenon
    <3> QED
      BY <1>3, <3>1, <3>2
  <2> QED
    BY <2>1, StillMisaddressed
<1>4. ASSUME NEW p \in Party, NEW s \in Slot, SaveSent(p, s) PROVE Misaddressed'
  <2> DEFINE m == Message(p, ops[p][s])
             op == [step |-> "transmit", msg |-> m]
             f == issued[p]
  <2>1. Typed /\ Numbered
    BY DEF KInv
  <2>2. /\ UNCHANGED <<stored, torn>>
        /\ \/ issued' = [issued EXCEPT ![p] = Append(f, m)] /\ ops' = [ops EXCEPT ![p][s] = op]
           \/ issued' = issued /\ ops' = [ops EXCEPT ![p][s] = NoOp]
    BY <1>4, Zenon DEF SaveSent, Issued
  <2>3. m.ct.ad = Label[p] /\ op.step = "transmit"
    BY DEF Message, Encrypted, Seal
  <2> HIDE DEF m, op
  <2>4. CASE issued' = issued /\ ops' = [ops EXCEPT ![p][s] = NoOp]
    BY <1>0, <2>2, <2>4, StillMisaddressed
  <2>5. CASE issued' = [issued EXCEPT ![p] = Append(f, m)] /\ ops' = [ops EXCEPT ![p][s] = op]
    <3>1. /\ issued'[p] = Longer(f, m) /\ \A q \in Party : q # p => issued'[q] = issued[q]
      BY <2>1, <2>5 DEF Typed, Longer
    <3>2. IsSeq(f)
      BY <2>1 DEF Numbered
    <3> HIDE DEF f
    <3>3. IsLonger(issued'[p], f, m)
      BY <3>1, <3>2, Appended
    <3>4. \A x \in Messages(p)' : x = m \/ x \in Messages(p)
      <4>1. ASSUME NEW i \in DOMAIN issued'[p] PROVE issued'[p][i] = m \/ issued'[p][i] \in Messages(p)
        <5>1. i \in 1 .. Len(f) \/ i = Len(f) + 1
          BY <3>3 DEF IsLonger
        <5> QED
          BY <3>3, <5>1 DEF IsLonger, Messages, f
      <4> QED
        BY <4>1 DEF Messages
    <3>5. \A q \in Party : q # p => Messages(q)' = Messages(q)
      BY <3>1 DEF Messages
    <3>6. \A q \in Party : \A t \in Slot : ops'[q][t] = ops[q][t] \/ ops'[q][t] = op
      BY <2>1, <2>5, SlotSteps
    <3> QED
      BY <2>2, <2>3, <3>4, <3>5, <3>6 DEF Misaddressed
  <2> QED
    BY <2>2, <2>4, <2>5
<1>5. ASSUME NEW p \in Party, NEW s \in Slot, Transmit(p, s) PROVE Misaddressed'
  <2>1. UNCHANGED <<issued, stored, torn>> /\ ops' = [ops EXCEPT ![p][s] = NoOp]
    BY <1>5 DEF Transmit
  <2> QED
    BY <1>0, <2>1, StillMisaddressed
<1>6. \A p \in Party : \A s \in Slot : \A m \in sent[Peer(p)] : ~ DecryptNext(p, s, m)
  <2> SUFFICES ASSUME NEW p \in Party, NEW s \in Slot, NEW m \in sent[Peer(p)], DecryptNext(p, s, m)
               PROVE  FALSE
    OBVIOUS
  <2>1. Peer(p) \in Party /\ Peer(Peer(p)) = p /\ Peer(p) # p
    BY Parties
  <2>2. m \in Messages(Peer(p))
    BY <2>1 DEF KInv, Sourced
  <2>3. m.ct.ad = p /\ Label[p] = Peer(p)
    BY <2>1, <2>2 DEF Misaddressed, ClientLabel
  <2>4. PICK x, k : Decrypts(x, m, Label[p], k)
    BY Zenon DEF DecryptNext
  <2>5. m.ct.ad = Label[p]
    BY <2>4 DEF Decrypts, Opens
  <2> QED
    BY <2>1, <2>3, <2>5
<1>7. \A p \in Party : \A s \in Slot : ~ SaveReceived(p, s) /\ ~ StoreReceived(p, s)
  BY DEF SaveReceived, StoreReceived, Misaddressed
<1> QED
  BY <1>1, <1>2, <1>3, <1>4, <1>5, <1>6, <1>7, Zenon DEF Next

\* sendMessage binds what it encrypts to the id of the recipient, and
\* processIncomingMessage expects it bound to the id of the sender: with these
\* labels no message is ever opened or stored, whatever the handshake gives.
THEOREM ClientLabelsOpenNothing ==
  ASSUME Label = ClientLabel
  PROVE  Spec => [](\A p \in Party : stored[p] = {} /\ \A m \in Messages(p) : ~ IsOpened(m))
<1> DEFINE Nothing == \A p \in Party : stored[p] = {} /\ \A m \in Messages(p) : ~ IsOpened(m)
<1>1. Init => KInv /\ Misaddressed
  BY KInit DEF Init, Misaddressed, Messages, NoOp
<1>2. KInv /\ Misaddressed /\ [Next]_vars => KInv' /\ Misaddressed'
  BY KNext, MisaddressedNext
<1>3. KInv /\ Misaddressed => Nothing
  <2> SUFFICES ASSUME KInv, Misaddressed PROVE Nothing
    OBVIOUS
  <2>1. \A p \in Party : InHands(p) = {}
    BY DEF Misaddressed, InHands, Steps
  <2>2. \A p \in Party : Kept(p) = {}
    BY <2>1 DEF Misaddressed, Kept
  <2>3. \A p \in Party : \A m \in Messages(Peer(p)) : ~ IsOpened(m)
    BY <2>2 DEF KInv, Booked
  <2> QED
    BY <2>3, Parties DEF Misaddressed
<1> HIDE DEF Nothing
<1>4. Spec => []Nothing
  BY <1>1, <1>2, <1>3, PTL DEF Spec
<1> QED
  BY <1>4 DEF Nothing

=============================================================================
