---------------------------- MODULE Prekeys_proofs ----------------------------
(***************************************************************************)
(* Proofs about Prekeys, for any devices, keys, and any number of          *)
(* replenishments and fetches under way: a one-time key goes to one        *)
(* requester, and its private half is not lost.  And about X3dh, which     *)
(* those keys are for: what its two computations agree on.                 *)
(***************************************************************************)
EXTENDS Prekeys, X3dh, FiniteSetTheorems, TLAPS

\* Kinds of values; a replenishment carries keys its own device generated.
Kinds ==
    /\ stock \in [Device -> SUBSET Key] /\ vault \in [Device -> SUBSET Key]
    /\ handed \in [Key -> Nat] /\ maker \in [Key -> Device \cup {NoDevice}]
    /\ torn \subseteq Key
    /\ job = [j \in Job |-> job[j]]
    /\ \A j \in Job :
         \/ job[j] = NoJob
         \/ /\ job[j].step \in {"upload", "insert", "store"}
            /\ job[j].device \in Device
            /\ job[j].keys \subseteq {k \in Key : maker[k] = job[j].device}

\* A key is in one replenishment.
Apart ==
    \A i, j \in Job : i # j /\ job[i] # NoJob /\ job[j] # NoJob =>
      job[i].keys \cap job[j].keys = {}

Unseen(k) == handed[k] = 0 /\ \A d \in Device : k \notin stock[d]

\* Before its rows are inserted, nobody can have been given a key.
Fresh ==
    /\ \A k \in Key : maker[k] = NoDevice => Unseen(k)
    /\ \A j \in Job : job[j].step \in {"upload", "insert"} => \A k \in job[j].keys : Unseen(k)

\* A key is in the stock of one device, or was handed out, or neither.
Once ==
    \A k \in Key :
      /\ handed[k] <= 1
      /\ \A d \in Device : k \in stock[d] =>
           handed[k] = 0 /\ \A e \in Device : k \in stock[e] => d = e

IInv == Kinds /\ Apart /\ Fresh /\ Once /\ KeyKept

-----------------------------------------------------------------------------

LEMMA Initially == Init => IInv
<1>1. SUFFICES ASSUME Init PROVE IInv
  OBVIOUS
<1>2. Kinds
  BY <1>1 DEF Init, Kinds
<1>3. Apart /\ Fresh /\ Once
  BY <1>1 DEF Init, Apart, Fresh, Once, Unseen, NoJob
<1>4. KeyKept
  BY <1>1 DEF Init, KeyKept, InStock
<1> QED
  BY <1>2, <1>3, <1>4 DEF IInv

\* Steps that leave the keys where they are.
LEMMA KeysStay ==
  ASSUME IInv, UNCHANGED <<vault, job, handed, maker, torn>>,
         stock' \in [Device -> SUBSET Key], \A d \in Device : stock'[d] \subseteq stock[d]
  PROVE  IInv'
<1>1. Kinds' /\ Apart'
  BY DEF IInv, Kinds, Apart
<1>2. Fresh' /\ Once'
  BY DEF IInv, Fresh, Once, Unseen
<1>3. KeyKept'
  BY DEF IInv, KeyKept, InStock, At
<1> QED
  BY <1>1, <1>2, <1>3 DEF IInv

LEMMA StepCheck ==
  ASSUME IInv, NEW j \in Job, NEW d \in Device, NEW batch \in SUBSET Key, Check(j, d, batch)
  PROVE  IInv'
<1>1. /\ job[j] = NoJob /\ \A k \in batch : maker[k] = NoDevice
      /\ maker' = [k \in Key |-> IF k \in batch THEN d ELSE maker[k]]
      /\ UNCHANGED <<stock, vault, handed, torn>>
  BY DEF Check
<1>2. /\ job'[j] = [step |-> "upload", device |-> d, keys |-> batch]
      /\ job' = [i \in Job |-> job'[i]]
      /\ \A i \in Job : i # j => job'[i] = job[i]
  BY DEF Check, Set, IInv, Kinds
<1>3. job'[j].step = "upload" /\ job'[j].device = d /\ job'[j].keys = batch
  BY <1>2
<1>4. \A i \in Job : i # j /\ job[i] # NoJob => job[i].keys \cap batch = {}
  BY <1>1, PrekeysAssumption DEF IInv, Kinds
<1>5. \A k \in Key : /\ k \in batch => maker'[k] = d
                     /\ k \notin batch => maker'[k] = maker[k]
  BY <1>1
<1>6. Kinds'
  <2>1. \A i \in Job : i # j /\ job'[i] # NoJob =>
          /\ job'[i].step \in {"upload", "insert", "store"}
          /\ job'[i].device \in Device
          /\ job'[i].keys \subseteq {k \in Key : maker'[k] = job'[i].device}
    BY <1>2, <1>4, <1>5 DEF IInv, Kinds
  <2>2. maker' \in [Key -> Device \cup {NoDevice}]
    BY <1>1 DEF IInv, Kinds
  <2> QED
    BY <1>1, <1>2, <1>3, <1>5, <2>1, <2>2 DEF IInv, Kinds
<1>7. Apart'
  BY <1>2, <1>3, <1>4 DEF IInv, Apart
<1>8. Fresh'
  <2>1. \A k \in Key : Unseen(k) => Unseen(k)'
    BY <1>1 DEF Unseen
  <2>2. \A k \in batch : Unseen(k)'
    BY <1>1, <2>1 DEF IInv, Fresh
  <2>3. \A k \in Key : maker'[k] = NoDevice => Unseen(k)'
    BY <1>5, <2>1, PrekeysAssumption DEF IInv, Fresh
  <2>4. \A i \in Job : i # j /\ job[i].step \in {"upload", "insert"} =>
          \A k \in job[i].keys : Unseen(k)'
    BY <1>1 DEF IInv, Fresh, Unseen
  <2> QED
    BY <1>2, <1>3, <2>2, <2>3, <2>4 DEF Fresh
<1>9. Once'
  BY <1>1 DEF IInv, Once
<1>10. KeyKept'
  <2>1. SUFFICES ASSUME NEW k \in Key, handed[k] > 0 \/ k \in InStock
                 PROVE  \/ k \in vault[maker'[k]] \cup torn
                        \/ \E i \in Job : /\ job'[i].step = "store" /\ k \in job'[i].keys
                                          /\ job'[i].device = maker'[k]
    BY <1>1 DEF KeyKept, At, InStock
  <2>2. k \notin batch
    BY <1>1, <2>1 DEF IInv, Fresh, Unseen, InStock
  <2>3. maker'[k] = maker[k]
    BY <1>5, <2>2
  <2>4. CASE k \in vault[maker[k]] \cup torn
    BY <2>3, <2>4
  <2>5. CASE \E i \in Job : /\ job[i].step = "store" /\ k \in job[i].keys
                            /\ job[i].device = maker[k]
    BY <1>1, <1>2, <2>3, <2>5 DEF NoJob
  <2> QED
    BY <2>1, <2>4, <2>5 DEF IInv, KeyKept, At
<1> QED
  BY <1>6, <1>7, <1>8, <1>9, <1>10 DEF IInv

LEMMA StepUploadCheck ==
  ASSUME IInv, NEW j \in Job, UploadCheck(j)
  PROVE  IInv'
<1>1. /\ job[j].step = "upload" /\ UNCHANGED <<stock, vault, handed, maker, torn>>
      /\ job[j] # NoJob
  BY DEF UploadCheck, NoJob
<1>2. /\ job' = [i \in Job |-> job'[i]]
      /\ \A i \in Job : i # j => job'[i] = job[i]
      /\ \/ job'[j] = NoJob
         \/ /\ job'[j].step = "insert" /\ job'[j].device = job[j].device
            /\ job'[j].keys = job[j].keys
  <2>1. CASE job[j].device \in Active /\ Fits(Newest)
    <3>1. job' = [job EXCEPT ![j] = [step |-> "insert", device |-> job[j].device,
                                     keys |-> job[j].keys, target |-> Newest]]
      BY <2>1 DEF UploadCheck, Set
    <3> QED
      BY <3>1 DEF IInv, Kinds
  <2>2. CASE ~ (job[j].device \in Active /\ Fits(Newest))
    <3>1. job' = [job EXCEPT ![j] = NoJob]
      BY <2>2 DEF UploadCheck, Set
    <3> QED
      BY <3>1 DEF IInv, Kinds
  <2> QED
    BY <2>1, <2>2
<1>3. Kinds'
  BY <1>1, <1>2 DEF IInv, Kinds
<1>4. Apart'
  BY <1>1, <1>2 DEF IInv, Apart
<1>5. Fresh'
  BY <1>1, <1>2 DEF IInv, Fresh, Unseen, NoJob
<1>6. Once'
  BY <1>1 DEF IInv, Once
<1>7. KeyKept'
  BY <1>1, <1>2 DEF IInv, KeyKept, InStock, At
<1> QED
  BY <1>3, <1>4, <1>5, <1>6, <1>7 DEF IInv

\* Rows come in, of keys nobody has seen; the replenishment goes on to the vault,
\* or ends and leaves its keys torn.
LEMMA RowsComeIn ==
  ASSUME IInv, NEW j \in Job, job[j].step = "insert",
         stock' = [stock EXCEPT ![job[j].target] = @ \cup job[j].keys],
         UNCHANGED <<vault, handed, maker>>,
         job' = [i \in Job |-> job'[i]], \A i \in Job : i # j => job'[i] = job[i],
         \/ /\ job'[j].step = "store" /\ job'[j].device = job[j].device
            /\ job'[j].keys = job[j].keys /\ torn' = torn
         \/ job'[j] = NoJob /\ torn' = torn \cup job[j].keys
  PROVE  IInv'
<1>1. /\ job[j] # NoJob /\ job[j].device \in Device
      /\ job[j].keys \subseteq {k \in Key : maker[k] = job[j].device}
  BY DEF IInv, Kinds, NoJob
<1>2. /\ stock' \in [Device -> SUBSET Key]
      /\ \A d \in Device : stock'[d] = stock[d] \/ (d = job[j].target /\ stock'[d] = stock[d] \cup job[j].keys)
  BY <1>1 DEF IInv, Kinds
<1>3. \A k \in job[j].keys : Unseen(k)
  BY DEF IInv, Fresh
<1>4. \A k \in Key \ job[j].keys : Unseen(k) => Unseen(k)'
  BY <1>2 DEF Unseen
<1>5. Kinds'
  BY <1>1, <1>2 DEF IInv, Kinds
<1>6. Apart'
  BY <1>1 DEF IInv, Apart
<1>7. Fresh'
  <2>1. \A k \in Key : maker[k] = NoDevice => k \notin job[j].keys
    BY <1>1, PrekeysAssumption
  <2>2. \A i \in Job : i # j /\ job[i].step \in {"upload", "insert"} =>
          job[i].keys \subseteq Key \ job[j].keys
    BY <1>1 DEF IInv, Apart, Kinds, NoJob
  <2>3. job'[j].step \notin {"upload", "insert"}
    BY DEF NoJob
  <2> QED
    BY <1>4, <2>1, <2>2, <2>3 DEF IInv, Fresh
<1>8. Once'
  BY <1>1, <1>2, <1>3 DEF IInv, Once, Unseen
<1>9. KeyKept'
  <2>1. SUFFICES ASSUME NEW k \in Key, handed[k] > 0 \/ \E d \in Device : k \in stock'[d]
                 PROVE  \/ k \in vault[maker[k]] \cup torn'
                        \/ \E i \in Job : /\ job'[i].step = "store" /\ k \in job'[i].keys
                                          /\ job'[i].device = maker[k]
    BY DEF KeyKept, At, InStock
  <2>2. CASE k \in job[j].keys
    BY <1>1, <2>2
  <2>3. CASE k \notin job[j].keys
    <3>1. handed[k] > 0 \/ k \in InStock
      BY <1>2, <2>1, <2>3 DEF InStock
    <3>2. CASE k \in vault[maker[k]] \cup torn
      BY <3>2
    <3>3. CASE \E i \in Job : /\ job[i].step = "store" /\ k \in job[i].keys
                              /\ job[i].device = maker[k]
      BY <3>3
    <3> QED
      BY <3>1, <3>2, <3>3 DEF IInv, KeyKept, At
  <2> QED
    BY <2>2, <2>3
<1> QED
  BY <1>5, <1>6, <1>7, <1>8, <1>9 DEF IInv

LEMMA StepInsert ==
  ASSUME IInv, NEW j \in Job, Insert(j)
  PROVE  IInv'
<1>1. /\ job[j].step = "insert" /\ UNCHANGED <<vault, handed, maker, torn>>
      /\ stock' = [stock EXCEPT ![job[j].target] = @ \cup job[j].keys]
      /\ job' = [job EXCEPT ![j] = [step |-> "store", device |-> job[j].device, keys |-> job[j].keys]]
  BY DEF Insert, Set
<1>2. /\ job' = [i \in Job |-> job'[i]] /\ \A i \in Job : i # j => job'[i] = job[i]
      /\ job'[j].step = "store" /\ job'[j].device = job[j].device /\ job'[j].keys = job[j].keys
  BY <1>1 DEF IInv, Kinds
<1> QED
  BY <1>1, <1>2, RowsComeIn

\* A replenishment that ends with its keys in the vault or torn.
LEMMA JobEnds ==
  ASSUME IInv, NEW j \in Job, job[j] # NoJob, UNCHANGED <<stock, handed, maker>>,
         job' = [i \in Job |-> job'[i]], job'[j] = NoJob, \A i \in Job : i # j => job'[i] = job[i],
         vault' \in [Device -> SUBSET Key], torn' \subseteq Key,
         torn \subseteq torn', \A d \in Device : vault[d] \subseteq vault'[d],
         job[j].keys \subseteq vault'[job[j].device] \cup torn'
  PROVE  IInv'
<1>1. Kinds' /\ Apart'
  BY DEF IInv, Kinds, Apart
<1>2. Fresh'
  BY DEF IInv, Fresh, Unseen, NoJob
<1>3. Once'
  BY DEF IInv, Once
<1>4. KeyKept'
  <2>1. SUFFICES ASSUME NEW k \in Key, handed[k] > 0 \/ k \in InStock
                 PROVE  \/ k \in vault'[maker[k]] \cup torn'
                        \/ \E i \in Job : /\ job'[i].step = "store" /\ k \in job'[i].keys
                                          /\ job'[i].device = maker[k]
    BY DEF KeyKept, At, InStock
  <2>2. maker[k] \in Device
    <3>1. maker[k] # NoDevice
      BY <2>1 DEF IInv, Fresh, Unseen, InStock
    <3> QED
      BY <3>1 DEF IInv, Kinds
  <2>3. CASE k \in vault[maker[k]] \cup torn
    BY <2>2, <2>3
  <2>4. CASE \E i \in Job : /\ job[i].step = "store" /\ k \in job[i].keys
                            /\ job[i].device = maker[k]
    BY <2>4
  <2> QED
    BY <2>1, <2>3, <2>4 DEF IInv, KeyKept, At
<1> QED
  BY <1>1, <1>2, <1>3, <1>4 DEF IInv

LEMMA StepStore ==
  ASSUME IInv, NEW j \in Job, Store(j)
  PROVE  IInv'
<1>1. /\ job[j].step = "store" /\ UNCHANGED <<stock, handed, maker, torn>>
      /\ vault' = [vault EXCEPT ![job[j].device] = @ \cup job[j].keys]
      /\ job' = [job EXCEPT ![j] = NoJob]
  BY DEF Store, Set
<1>2. job[j] # NoJob /\ job[j].device \in Device /\ job[j].keys \subseteq Key
  BY <1>1 DEF IInv, Kinds, NoJob
<1>3. /\ job' = [i \in Job |-> job'[i]] /\ job'[j] = NoJob
      /\ \A i \in Job : i # j => job'[i] = job[i]
  BY <1>1 DEF IInv, Kinds
<1>4. /\ vault' \in [Device -> SUBSET Key] /\ \A d \in Device : vault[d] \subseteq vault'[d]
      /\ job[j].keys \subseteq vault'[job[j].device] \cup torn'
      /\ torn' \subseteq Key /\ torn \subseteq torn'
  BY <1>1, <1>2 DEF IInv, Kinds
<1> QED
  BY <1>1, <1>2, <1>3, <1>4, JobEnds

LEMMA StepGiveUp ==
  ASSUME IInv, NEW j \in Job, GiveUp(j)
  PROVE  IInv'
<1>1. /\ job[j] # NoJob /\ UNCHANGED <<vault, handed, maker>>
      /\ torn' = torn \cup job[j].keys
      /\ job' = [job EXCEPT ![j] = NoJob]
  BY DEF GiveUp, Set
<1>2. /\ job' = [i \in Job |-> job'[i]] /\ job'[j] = NoJob
      /\ \A i \in Job : i # j => job'[i] = job[i]
  BY <1>1 DEF IInv, Kinds
<1>3. CASE stock' = stock
  <2>1. /\ torn' \subseteq Key /\ torn \subseteq torn' /\ vault' \in [Device -> SUBSET Key]
        /\ \A d \in Device : vault[d] \subseteq vault'[d]
        /\ job[j].keys \subseteq vault'[job[j].device] \cup torn'
    BY <1>1 DEF IInv, Kinds
  <2> QED
    BY <1>1, <1>2, <1>3, <2>1, JobEnds
<1>4. CASE /\ job[j].step = "insert"
           /\ stock' = [stock EXCEPT ![job[j].target] = @ \cup job[j].keys]
  BY <1>1, <1>2, <1>4, RowsComeIn
<1> QED
  BY <1>3, <1>4 DEF GiveUp

LEMMA StepDelete ==
  ASSUME IInv, NEW p \in Requester, Delete(p)
  PROVE  IInv'
<1>1. /\ stock' = [d \in Device |-> stock[d] \ fetch[p].rows]
      /\ handed' = [k \in Key |-> IF k \in Deleted(p) THEN handed[k] + 1 ELSE handed[k]]
      /\ UNCHANGED <<vault, job, maker, torn>>
  BY DEF Delete
<1>2. \A k \in Key : k \in Deleted(p) <=> k \in fetch[p].rows /\ \E d \in Device : k \in stock[d]
  BY DEF Deleted, InStock
<1>3. \A k \in Key :
        /\ k \in Deleted(p) => handed'[k] = handed[k] + 1 /\ \A d \in Device : k \notin stock'[d]
        /\ k \notin Deleted(p) => handed'[k] = handed[k]
  BY <1>1, <1>2
<1>4. Kinds' /\ Apart'
  BY <1>1 DEF IInv, Kinds, Apart
<1>5. \A k \in Key : Unseen(k) => Unseen(k)'
  BY <1>1, <1>2, <1>3 DEF Unseen
<1>6. Fresh'
  <2>1. \A j \in Job : job[j].step \in {"upload", "insert"} => job[j].keys \subseteq Key
    BY DEF IInv, Kinds, NoJob
  <2> QED
    BY <1>1, <1>5, <2>1 DEF IInv, Fresh
<1>7. Once'
  BY <1>1, <1>2, <1>3 DEF IInv, Once, Kinds
<1>8. KeyKept'
  <2>1. \A k \in Key : handed'[k] > 0 \/ k \in InStock' => handed[k] > 0 \/ k \in InStock
    BY <1>1, <1>2, <1>3 DEF InStock, IInv, Kinds
  <2> QED
    BY <1>1, <2>1 DEF IInv, KeyKept, At
<1> QED
  BY <1>4, <1>6, <1>7, <1>8 DEF IInv

LEMMA Inductive ==
  ASSUME IInv, [Next]_vars
  PROVE  IInv'
<1>0. stock \in [Device -> SUBSET Key]
  BY DEF IInv, Kinds
<1>1. CASE UNCHANGED vars
  BY <1>0, <1>1, KeysStay DEF vars
<1>2. ASSUME NEW d \in Device, Register(d) PROVE IInv'
  BY <1>0, <1>2, KeysStay DEF Register
<1>3. ASSUME NEW d \in Device, Revoke(d) PROVE IInv'
  <2>1. stock' \in [Device -> SUBSET Key] /\ \A e \in Device : stock'[e] \subseteq stock[e]
    BY <1>0, <1>3 DEF Revoke
  <2> QED
    BY <1>3, <2>1, KeysStay DEF Revoke
<1>4. ASSUME NEW j \in Job, UploadCheck(j) \/ Insert(j) \/ Store(j) \/ GiveUp(j) PROVE IInv'
  BY <1>4, StepUploadCheck, StepInsert, StepStore, StepGiveUp
<1>5. ASSUME NEW j \in Job, NEW d \in Device, NEW batch \in SUBSET Key, Check(j, d, batch)
      PROVE  IInv'
  BY <1>5, StepCheck
<1>6. ASSUME NEW p \in Requester, ListDevices(p) \/ Pick(p) PROVE IInv'
  BY <1>0, <1>6, KeysStay DEF ListDevices, Pick
<1>7. ASSUME NEW p \in Requester, Delete(p) PROVE IInv'
  BY <1>7, StepDelete
<1> QED
  BY <1>1, <1>2, <1>3, <1>4, <1>5, <1>6, <1>7 DEF Next

LEMMA Always == Spec => []IInv
  BY Initially, Inductive, PTL DEF Spec

-----------------------------------------------------------------------------

\* Of the uploads that passed the check for a device, unless two did so
\* together, there is one, and it still fits.
Room ==
    \A d \in Device \ met :
      /\ Cardinality(stock[d]) <= Cap
      /\ \A j \in At("insert") : job[j].target = d =>
           /\ Cardinality(stock[d]) + Batch <= Cap
           /\ \A i \in At("insert") : job[i].target = d => i = j

Sized == \A j \in Job : job[j] # NoJob => Cardinality(job[j].keys) = Batch

CapInv == IInv /\ Sized /\ Room

LEMMA Counts ==
  ASSUME IInv, NEW d \in Device
  PROVE  IsFiniteSet(stock[d]) /\ Cardinality(stock[d]) \in Nat
BY PrekeysAssumption, FS_Subset, FS_CardinalityType DEF IInv, Kinds

LEMMA SizedStep ==
  ASSUME IInv, Sized, [Next]_vars
  PROVE  Sized'
<1>0. job = [j \in Job |-> job[j]]
  BY DEF IInv, Kinds
<1>1. CASE UNCHANGED job
  BY <1>1 DEF Sized
<1>2. ASSUME NEW j \in Job, NEW d \in Device, NEW batch \in SUBSET Key, Check(j, d, batch)
      PROVE  Sized'
  <2>1. /\ job' = [job EXCEPT ![j] = [step |-> "upload", device |-> d, keys |-> batch]]
        /\ Cardinality(batch) = Batch
    BY <1>2 DEF Check, Set
  <2>2. job'[j].keys = batch /\ \A i \in Job : i # j => job'[i] = job[i]
    BY <1>0, <2>1
  <2> QED
    BY <2>1, <2>2 DEF Sized
<1>3. ASSUME NEW j \in Job, UploadCheck(j) PROVE Sized'
  <2>1. job[j] # NoJob
    BY <1>3 DEF UploadCheck, NoJob
  <2>2. CASE job' = [job EXCEPT ![j] = [step |-> "insert", device |-> job[j].device,
                                        keys |-> job[j].keys, target |-> Newest]]
    <3>1. job'[j].keys = job[j].keys /\ \A i \in Job : i # j => job'[i] = job[i]
      BY <1>0, <2>2
    <3> QED
      BY <2>1, <3>1 DEF Sized
  <2>3. CASE job' = [job EXCEPT ![j] = NoJob]
    BY <1>0, <2>3 DEF Sized
  <2> QED
    BY <1>3, <2>2, <2>3 DEF UploadCheck, Set
<1>4. ASSUME NEW j \in Job, Insert(j) PROVE Sized'
  <2>1. job[j] # NoJob
    BY <1>4 DEF Insert, NoJob
  <2>2. job' = [job EXCEPT ![j] = [step |-> "store", device |-> job[j].device, keys |-> job[j].keys]]
    BY <1>4 DEF Insert, Set
  <2>3. job'[j].keys = job[j].keys /\ \A i \in Job : i # j => job'[i] = job[i]
    BY <1>0, <2>2
  <2> QED
    BY <2>1, <2>3 DEF Sized
<1>5. ASSUME NEW j \in Job, Store(j) \/ GiveUp(j) PROVE Sized'
  <2>1. job' = [job EXCEPT ![j] = NoJob]
    BY <1>5 DEF Store, GiveUp, Set
  <2> QED
    BY <1>0, <2>1 DEF Sized
<1>6. ASSUME NEW d \in Device, Register(d) \/ Revoke(d) PROVE UNCHANGED job
  BY <1>6 DEF Register, Revoke
<1>7. ASSUME NEW p \in Requester, ListDevices(p) \/ Pick(p) \/ Delete(p) PROVE UNCHANGED job
  BY <1>7 DEF ListDevices, Pick, Delete
<1> QED
  BY <1>1, <1>2, <1>3, <1>4, <1>5, <1>6, <1>7 DEF Next, vars

\* Steps after which no stock has grown and no upload has passed the check.
LEMMA RoomStays ==
  ASSUME IInv, IInv', Room, UNCHANGED met,
         \A d \in Device : stock'[d] \subseteq stock[d],
         \A j \in Job : job'[j].step = "insert" => job[j].step = "insert" /\ job'[j] = job[j]
  PROVE  Room'
<1>1. \A d \in Device : /\ Cardinality(stock'[d]) <= Cardinality(stock[d])
                         /\ Cardinality(stock[d]) \in Nat /\ Cardinality(stock'[d]) \in Nat
  <2>1. SUFFICES ASSUME NEW d \in Device
                 PROVE  /\ Cardinality(stock'[d]) <= Cardinality(stock[d])
                        /\ Cardinality(stock[d]) \in Nat /\ Cardinality(stock'[d]) \in Nat
    OBVIOUS
  <2>2. IsFiniteSet(stock[d]) /\ Cardinality(stock[d]) \in Nat /\ stock'[d] \in SUBSET stock[d]
    BY Counts
  <2> QED
    BY <2>2, FS_Subset, FS_CardinalityType
<1> USE PrekeysAssumption
<1>2. \A d \in Device \ met : Cardinality(stock'[d]) <= Cap
  BY <1>1 DEF Room
<1>3. ASSUME NEW d \in Device \ met, NEW j \in Job, job'[j].step = "insert", job'[j].target = d
      PROVE  /\ Cardinality(stock'[d]) + Batch <= Cap
             /\ \A i \in Job : job'[i].step = "insert" /\ job'[i].target = d => i = j
  BY <1>1, <1>3 DEF Room, At
<1> QED
  BY <1>2, <1>3 DEF Room, At

\* The rows of the one upload for a device come in.
LEMMA RoomFills ==
  ASSUME IInv, Sized, Room, UNCHANGED met,
         NEW j \in Job, job[j].step = "insert",
         stock' = [stock EXCEPT ![job[j].target] = @ \cup job[j].keys],
         job'[j].step # "insert", \A i \in Job : i # j => job'[i] = job[i]
  PROVE  Room'
<1> USE PrekeysAssumption
<1>1. /\ Cardinality(job[j].keys) = Batch /\ IsFiniteSet(job[j].keys)
  <2>1. job[j] # NoJob /\ job[j].keys \in SUBSET Key
    BY DEF IInv, Kinds, NoJob
  <2> QED
    BY <2>1, FS_Subset DEF Sized
<1>2. ASSUME NEW d \in Device \ met, d = job[j].target
      PROVE  /\ Cardinality(stock'[d]) <= Cap
             /\ \A i \in Job : ~ (job'[i].step = "insert" /\ job'[i].target = d)
  <2>1. /\ Cardinality(stock[d]) + Batch <= Cap
        /\ \A i \in Job : job[i].step = "insert" /\ job[i].target = d => i = j
    BY <1>2 DEF Room, At
  <2>2. stock'[d] = stock[d] \cup job[j].keys
    BY <1>2 DEF IInv, Kinds
  <2>3. /\ IsFiniteSet(stock[d]) /\ Cardinality(stock[d]) \in Nat
        /\ Cardinality(stock[d] \cap job[j].keys) \in Nat
    BY <1>1, Counts, FS_Intersection, FS_CardinalityType
  <2>4. Cardinality(stock[d] \cup job[j].keys) =
          Cardinality(stock[d]) + Cardinality(job[j].keys) - Cardinality(stock[d] \cap job[j].keys)
    BY <1>1, <2>3, FS_Union
  <2>5. Cardinality(stock'[d]) <= Cap
    <3>1. Cardinality(stock'[d]) = Cardinality(stock[d]) + Batch - Cardinality(stock[d] \cap job[j].keys)
      BY <1>1, <2>2, <2>4
    <3> QED
      BY <2>1, <2>3, <3>1
  <2> QED
    BY <2>1, <2>5
<1>3. ASSUME NEW d \in Device \ met, d # job[j].target
      PROVE  /\ Cardinality(stock'[d]) <= Cap
             /\ \A i \in Job : job'[i].step = "insert" /\ job'[i].target = d =>
                  /\ Cardinality(stock'[d]) + Batch <= Cap
                  /\ \A h \in Job : job'[h].step = "insert" /\ job'[h].target = d => h = i
  <2>1. stock'[d] = stock[d]
    BY <1>3 DEF IInv, Kinds
  <2> QED
    BY <1>3, <2>1 DEF Room, At
<1>4. ASSUME NEW d \in Device \ met
      PROVE  /\ Cardinality(stock'[d]) <= Cap
             /\ \A i \in At("insert")' : job'[i].target = d =>
                  /\ Cardinality(stock'[d]) + Batch <= Cap
                  /\ \A h \in At("insert")' : job'[h].target = d => h = i
  <2>1. CASE d = job[j].target
    BY <1>2, <2>1 DEF At
  <2>2. CASE d # job[j].target
    BY <1>3, <2>2 DEF At
  <2> QED
    BY <2>1, <2>2
<1> QED
  BY <1>4 DEF Room

\* An upload passes the check.
LEMMA RoomTaken ==
  ASSUME IInv, Room, NEW j \in Job, UploadCheck(j)
  PROVE  Room'
<1>1. CASE job[j].device \in Active /\ Fits(Newest)
  <2> DEFINE t == Newest
             others == {i \in At("insert") : job[i].target = t}
  <2>1. /\ job[j].step = "upload" /\ stock' = stock
        /\ job' = [job EXCEPT ![j] = [step |-> "insert", device |-> job[j].device,
                                      keys |-> job[j].keys, target |-> t]]
        /\ met' = IF others = {} THEN met ELSE met \cup {t}
    BY <1>1 DEF UploadCheck, Set
  <2>2. Cardinality(stock[t]) + Batch <= Cap
    BY <1>1 DEF Fits
  <2> HIDE DEF t, others
  <2>3. job'[j].step = "insert" /\ job'[j].target = t /\ \A i \in Job : i # j => job'[i] = job[i]
    BY <2>1 DEF IInv, Kinds
  <2>4. met \subseteq met' /\ (t \notin met' => others = {})
    BY <2>1
  <2>5. t \notin met' => \A i \in Job : ~ (job[i].step = "insert" /\ job[i].target = t)
    BY <2>4 DEF others, At
  <2>6. ASSUME NEW d \in Device \ met', d # t
        PROVE  \A i \in Job : job'[i].step = "insert" /\ job'[i].target = d =>
                 job[i].step = "insert" /\ job'[i] = job[i]
    BY <2>3, <2>6
  <2>7. ASSUME NEW d \in Device \ met', d = t
        PROVE  \A i \in Job : job'[i].step = "insert" /\ job'[i].target = d => i = j
    BY <2>3, <2>5, <2>7
  <2>8. ASSUME NEW d \in Device \ met'
        PROVE  /\ Cardinality(stock'[d]) <= Cap
               /\ \A i \in At("insert")' : job'[i].target = d =>
                    /\ Cardinality(stock'[d]) + Batch <= Cap
                    /\ \A h \in At("insert")' : job'[h].target = d => h = i
    <3>1. CASE d = t
      BY <2>1, <2>2, <2>4, <2>7, <2>8, <3>1 DEF Room, At
    <3>2. CASE d # t
      BY <2>1, <2>4, <2>6, <2>8, <3>2 DEF Room, At
    <3> QED
      BY <3>1, <3>2
  <2> QED
    BY <2>8 DEF Room
<1>2. CASE ~ (job[j].device \in Active /\ Fits(Newest))
  <2>1. /\ job' = [job EXCEPT ![j] = NoJob] /\ met' = met /\ stock' = stock
    BY <1>2 DEF UploadCheck, Set
  <2>2. job'[j].step # "insert" /\ \A i \in Job : i # j => job'[i] = job[i]
    BY <2>1 DEF IInv, Kinds, NoJob
  <2> QED
    BY <2>1, <2>2 DEF Room, At
<1> QED
  BY <1>1, <1>2

LEMMA RoomStep ==
  ASSUME CapInv, [Next]_vars
  PROVE  Room'
<1>0. /\ IInv /\ IInv' /\ Sized /\ Room /\ job = [j \in Job |-> job[j]]
      /\ stock \in [Device -> SUBSET Key]
  BY Inductive DEF CapInv, IInv, Kinds
<1>1. CASE UNCHANGED vars
  BY <1>0, <1>1, RoomStays DEF vars
<1>2. ASSUME NEW d \in Device, Register(d) PROVE Room'
  BY <1>0, <1>2, RoomStays DEF Register
<1>3. ASSUME NEW d \in Device, Revoke(d) PROVE Room'
  <2>1. \A e \in Device : stock'[e] \subseteq stock[e]
    BY <1>0, <1>3 DEF Revoke
  <2> QED
    BY <1>0, <1>3, <2>1, RoomStays DEF Revoke
<1>4. ASSUME NEW j \in Job, NEW d \in Device, NEW batch \in SUBSET Key, Check(j, d, batch)
      PROVE  Room'
  <2>1. /\ job' = [job EXCEPT ![j] = [step |-> "upload", device |-> d, keys |-> batch]]
        /\ stock' = stock /\ met' = met
    BY <1>4 DEF Check, Set
  <2>2. job'[j].step = "upload" /\ \A i \in Job : i # j => job'[i] = job[i]
    BY <1>0, <2>1
  <2> QED
    BY <1>0, <2>1, <2>2, RoomStays
<1>5. ASSUME NEW j \in Job, UploadCheck(j) PROVE Room'
  BY <1>0, <1>5, RoomTaken
<1>6. ASSUME NEW j \in Job, Insert(j) PROVE Room'
  <2>1. /\ job[j].step = "insert" /\ met' = met
        /\ stock' = [stock EXCEPT ![job[j].target] = @ \cup job[j].keys]
        /\ job' = [job EXCEPT ![j] = [step |-> "store", device |-> job[j].device, keys |-> job[j].keys]]
    BY <1>6 DEF Insert, Set
  <2>2. job'[j].step # "insert" /\ \A i \in Job : i # j => job'[i] = job[i]
    BY <1>0, <2>1
  <2> QED
    BY <1>0, <2>1, <2>2, RoomFills
<1>7. ASSUME NEW j \in Job, Store(j) \/ GiveUp(j) PROVE Room'
  <2>1. job' = [job EXCEPT ![j] = NoJob] /\ met' = met
    BY <1>7 DEF Store, GiveUp, Set
  <2>2. job'[j].step # "insert" /\ \A i \in Job : i # j => job'[i] = job[i]
    BY <1>0, <2>1 DEF NoJob
  <2>3. CASE stock' = stock
    BY <1>0, <2>1, <2>2, <2>3, RoomStays
  <2>4. CASE /\ job[j].step = "insert"
             /\ stock' = [stock EXCEPT ![job[j].target] = @ \cup job[j].keys]
    BY <1>0, <2>1, <2>2, <2>4, RoomFills
  <2> QED
    BY <1>7, <2>3, <2>4 DEF Store, GiveUp
<1>8. ASSUME NEW p \in Requester, ListDevices(p) \/ Pick(p) PROVE Room'
  BY <1>0, <1>8, RoomStays DEF ListDevices, Pick
<1>9. ASSUME NEW p \in Requester, Delete(p) PROVE Room'
  <2>1. \A e \in Device : stock'[e] \subseteq stock[e]
    BY <1>9 DEF Delete
  <2> QED
    BY <1>0, <1>9, <2>1, RoomStays DEF Delete
<1> QED
  BY <1>1, <1>2, <1>3, <1>4, <1>5, <1>6, <1>7, <1>8, <1>9 DEF Next

LEMMA CapAlways == Spec => []CapInv
<1>1. Init => CapInv
  <2>1. SUFFICES ASSUME Init PROVE Sized /\ Room
    BY Initially DEF CapInv
  <2>2. \A d \in Device : stock[d] = {} /\ Cardinality(stock[d]) = 0
    BY <2>1, FS_EmptySet DEF Init
  <2> QED
    BY <2>1, <2>2, PrekeysAssumption DEF Init, Sized, Room, At, NoJob
<1>2. CapInv /\ [Next]_vars => CapInv'
  BY Inductive, SizedStep, RoomStep DEF CapInv
<1> QED
  BY <1>1, <1>2, PTL DEF Spec

-----------------------------------------------------------------------------

\* For any number of requests and uploads at a time: a one-time key is handed out
\* once, and then is in no stock (the DELETE of get_user_keys_internal, keys.rs).
THEOREM OneRequesterPerKey == Spec => []HandedOnce
<1>1. ASSUME Kinds, Once, NEW k \in Key
      PROVE  handed[k] + Cardinality({d \in Device : k \in stock[d]}) <= 1
  <2> DEFINE has == {d \in Device : k \in stock[d]}
  <2>1. handed[k] \in Nat /\ handed[k] <= 1
    BY <1>1 DEF Kinds, Once
  <2>2. ASSUME has = {} PROVE handed[k] + Cardinality(has) <= 1
    <3>1. Cardinality(has) = 0
      BY <2>2, FS_EmptySet
    <3> HIDE DEF has
    <3> QED
      BY <2>1, <3>1
  <2>3. ASSUME NEW d \in has PROVE handed[k] + Cardinality(has) <= 1
    <3>1. handed[k] = 0 /\ has = {d}
      BY <1>1, <2>3 DEF Once
    <3>2. Cardinality(has) = 1
      BY <3>1, FS_Singleton
    <3> HIDE DEF has
    <3> QED
      BY <3>1, <3>2
  <2> QED
    BY <2>2, <2>3
<1>2. IInv => HandedOnce
  BY <1>1 DEF IInv, HandedOnce
<1> QED
  BY <1>2, Always, PTL

\* The private half of a key somebody was given is with the device that made it,
\* whatever was revoked, or uploaded for another device, in between
\* (check_and_replenish_otpks, storeOtpkBatch and keys.rs).
THEOREM PrivateHalfKept == Spec => []KeyKept
  BY Always, PTL DEF IInv

\* For any number of uploads at a time: the stock of a device exceeds the cap only
\* if two uploads for it passed the check before either inserted (upload_otpks,
\* keys.rs).
THEOREM CapBrokenTogether == Spec => []CapHolds
<1>1. CapInv => CapHolds
  BY DEF CapInv, Room, CapHolds
<1> QED
  BY <1>1, CapAlways, PTL

-----------------------------------------------------------------------------
(***************************************************************************)
(* The agreement itself.                                                   *)
(***************************************************************************)

\* x3dh_sender and x3dh_receiver (lib.rs:156-214) derive one secret, with and
\* without a one-time pre-key, if every public key is a Montgomery point.
THEOREM X3dhAgrees ==
    ASSUME NEW aik, NEW aek, NEW bik, NEW bspk, NEW bopks
    PROVE  X3dhSender(aik, aek, BoxPk(bik), BoxPk(bspk), { BoxPk(k) : k \in bopks })
             = X3dhReceiver(bik, bspk, bopks, BoxPk(aik), BoxPk(aek))
<1>1. ASSUME NEW a, NEW b
      PROVE  DoDh(a, BoxPk(b)) = DoDh(b, BoxPk(a))
  <2>1. ASSUME NEW sk, NEW k
        PROVE  DoDh(sk, BoxPk(k)) = [of |-> {sk, k}, only |-> {}]
    BY SMT DEF DoDh, BoxPk
  <2>2. DoDh(a, BoxPk(b)) = [of |-> {a, b}, only |-> {}]
    BY <2>1
  <2>3. DoDh(b, BoxPk(a)) = [of |-> {b, a}, only |-> {}]
    BY <2>1
  <2>4. {a, b} = {b, a}
    OBVIOUS
  <2>. QED
    BY <2>2, <2>3, <2>4
<1>2. { DoDh(aek, pk) : pk \in { BoxPk(k) : k \in bopks } }
        = { DoDh(sk, BoxPk(aek)) : sk \in bopks }
  <2>1. ASSUME NEW k  PROVE DoDh(aek, BoxPk(k)) = DoDh(k, BoxPk(aek))
    BY <1>1, Zenon
  <2>. QED
    BY <2>1, Zenon
<1>. QED
  BY <1>1, <1>2, Zenon DEF X3dhSender, X3dhReceiver

\* With the ephemeral key as alice_x3dh sends it (src-tauri/src/lib.rs:253),
\* bob_x3dh never derives Alice's secret, whatever the keys and the bundle are.
THEOREM ClientsDisagree ==
    ASSUME NEW aik, NEW aek, NEW bik, NEW bspk, NEW opk, NEW bopks
    PROVE  LET bundle == [ik |-> SignPk(bik), spk |-> BoxPk(bspk), opk |-> opk]
               x == AliceX3dh(aik, aek, bundle)
           IN  x.secret # BobX3dh(bik, bspk, bopks, SignPk(aik), x.ephemeral)
<1>. DEFINE bundle == [ik |-> SignPk(bik), spk |-> BoxPk(bspk), opk |-> opk]
            x == AliceX3dh(aik, aek, bundle)
            y == BobX3dh(bik, bspk, bopks, SignPk(aik), x.ephemeral)
<1>1. x.secret.dh3 = DoDh(aek, BoxPk(bspk))
  BY SMT DEF AliceX3dh, X3dhSender
<1>2. x.ephemeral = SignPk(aek)
  BY SMT DEF AliceX3dh
<1>3. y.dh3 = DoDh(bspk, SignPk(aek))
  BY <1>2, SMT DEF BobX3dh, X3dhReceiver
<1>4. DoDh(aek, BoxPk(bspk)).only = {}
  BY SMT DEF DoDh, BoxPk
<1>5. DoDh(bspk, SignPk(aek)).only = {bspk}
  BY SMT DEF DoDh, SignPk
<1>6. x.secret.dh3 # y.dh3
  <2>. HIDE DEF x, y
  <2>. QED  BY <1>1, <1>3, <1>4, <1>5, SMT
<1>7. x.secret # y
  <2>. HIDE DEF x, y
  <2>. QED  BY <1>6, Zenon
<1>. QED
  BY <1>7, Zenon
=============================================================================
