--------------------------- MODULE Outbox_proofs ---------------------------
(***************************************************************************)
(* Theorems about Outbox, for any messages and contacts, and any number of *)
(* handlers under way, openings, failures and restarts.                    *)
(***************************************************************************)
EXTENDS Outbox, FiniteSetTheorems, TLAPS

-----------------------------------------------------------------------------
(***************************************************************************)
(* Handlers by their kind.                                                 *)
(***************************************************************************)

Id == {"temp", "server"}
St == {"sending", "sent", "delivered", "received"}
Entry == [of : Msg \cup In, id : Id, st : St, changed : BOOLEAN]

ConfirmJob == [kind : {"confirm"}, of : Msg, step : {"vault", "list"}]
StatusJob == [kind : {"status"}, of : Msg, id : Id, step : {"vault", "list"}]
InJob == [kind : {"in"}, of : In, at : Contact, step : {"vault", "count"}]
SendJob == [kind : {"send"}, of : Msg, at : Contact, step : {"vault", "emit"}]
EventJob == [kind : {"edit", "delete"}, of : Msg, id : Id,
             step : {"typed", "emit", "vault", "list"}]
LoadJob == [kind : {"load"}, at : Contact, no : Nat, step : {"select", "show", "keys"},
            rows : SUBSET Entry]

Job == ConfirmJob \cup StatusJob \cup InJob \cup SendJob \cup EventJob \cup LoadJob

\* A handler after its step, which is now before the step s.
After(j, s) == [j EXCEPT !.step = s]

LEMMA JobKinds ==
  ASSUME NEW j \in Job
  PROVE  /\ j.kind = "confirm" => j \in ConfirmJob
         /\ j.kind = "status" => j \in StatusJob
         /\ j.kind = "in" => j \in InJob
         /\ j.kind = "send" => j \in SendJob
         /\ j.kind \in {"edit", "delete"} => j \in EventJob
         /\ j.kind = "load" => j \in LoadJob
  BY DEF Job, ConfirmJob, StatusJob, InJob, SendJob, EventJob, LoadJob

\* A step of a handler changes its step.
LEMMA AfterConfirm ==
  ASSUME NEW j \in ConfirmJob, NEW s \in {"vault", "list"}
  PROVE  /\ After(j, s) \in ConfirmJob
         /\ After(j, s).kind = j.kind /\ After(j, s).of = j.of /\ After(j, s).step = s
  BY DEF ConfirmJob, After

LEMMA AfterStatus ==
  ASSUME NEW j \in StatusJob, NEW s \in {"vault", "list"}
  PROVE  After(j, s) \in StatusJob /\ After(j, s).kind = j.kind
  BY DEF StatusJob, After

LEMMA AfterIn ==
  ASSUME NEW j \in InJob, NEW s \in {"vault", "count"}
  PROVE  /\ After(j, s) \in InJob
         /\ After(j, s).kind = j.kind /\ After(j, s).of = j.of /\ After(j, s).at = j.at
         /\ After(j, s).step = s
  BY DEF InJob, After

LEMMA AfterSend ==
  ASSUME NEW j \in SendJob, NEW s \in {"vault", "emit"}
  PROVE  /\ After(j, s) \in SendJob
         /\ After(j, s).kind = j.kind /\ After(j, s).of = j.of /\ After(j, s).at = j.at
         /\ After(j, s).step = s
  BY DEF SendJob, After

LEMMA AfterEvent ==
  ASSUME NEW j \in EventJob, NEW s \in {"typed", "emit", "vault", "list"}
  PROVE  /\ After(j, s) \in EventJob
         /\ After(j, s).kind = j.kind /\ After(j, s).of = j.of /\ After(j, s).id = j.id
         /\ After(j, s).step = s
  BY DEF EventJob, After

LEMMA AfterLoad ==
  ASSUME NEW j \in LoadJob, NEW s \in {"select", "show", "keys"}
  PROVE  /\ After(j, s) \in LoadJob
         /\ After(j, s).kind = j.kind /\ After(j, s).at = j.at /\ After(j, s).rows = j.rows
         /\ After(j, s).step = s
  BY DEF LoadJob, After

\* A load that has read the rows.
Loaded(j) == [j EXCEPT !.step = "show", !.rows = History(j.at)]

LEMMA LoadedJob ==
  ASSUME NEW j \in LoadJob, History(j.at) \subseteq Entry
  PROVE  /\ Loaded(j) \in LoadJob
         /\ Loaded(j).kind = j.kind /\ Loaded(j).at = j.at /\ Loaded(j).rows = History(j.at)
         /\ Loaded(j).step = "show"
<1> DEFINE h == History(j.at)
<1>1. h \in SUBSET Entry
  OBVIOUS
<1> HIDE DEF h
<1>2. Loaded(j) = [j EXCEPT !.step = "show", !.rows = h]
  BY DEF Loaded, h
<1>3. /\ Loaded(j) \in LoadJob
      /\ Loaded(j).kind = j.kind /\ Loaded(j).at = j.at /\ Loaded(j).rows = h
      /\ Loaded(j).step = "show"
  BY <1>1, <1>2 DEF LoadJob
<1> QED
  BY <1>3 DEF h

\* The handlers of a kind that are under way.
Jobs(kind) == { j \in jobs : j.kind = kind }

\* A step of one handler leaves those of the other kinds alone.
LEMMA OtherKinds ==
  ASSUME NEW j, NEW k, k.kind = j.kind, jobs' \subseteq jobs \cup {k}, jobs \ {j} \subseteq jobs',
         NEW kind, kind # j.kind
  PROVE  Jobs(kind)' = Jobs(kind)
  BY DEF Jobs

LEMMA OwnKind ==
  ASSUME NEW j \in jobs, NEW kind, j.kind = kind
  PROVE  /\ jobs' = jobs \ {j} => Jobs(kind)' = Jobs(kind) \ {j}
         /\ \A k : k.kind = kind /\ jobs' = (jobs \ {j}) \cup {k}
                  => Jobs(kind)' = (Jobs(kind) \ {j}) \cup {k}
  BY DEF Jobs

LEMMA StartedKind ==
  ASSUME NEW k, Starts(k), NEW kind, k.kind = kind
  PROVE  Jobs(kind)' = Jobs(kind) \cup {k}
  BY DEF Starts, Jobs

LEMMA StartedKinds ==
  ASSUME NEW k, Starts(k)
  PROVE  \A kind : kind # k.kind => Jobs(kind)' = Jobs(kind)
  BY DEF Starts, Jobs

-----------------------------------------------------------------------------
(***************************************************************************)
(* Types.                                                                  *)
(***************************************************************************)

Row == [at : Contact \cup {NoContact}, id : Id, st : {"sending", "sent", "delivered"}]

Typed ==
    /\ confirmed \subseteq stored /\ delivered \subseteq stored
    /\ stored \subseteq emitted /\ emitted \subseteq Msg
    /\ row \in [Msg -> Row] /\ got \in [In -> Contact \cup {NoContact}]
    /\ event \in [Msg -> Id \cup {"none"}]
    /\ active \in Contact \cup {NoContact} /\ loaded \in Contact \cup {NoContact}
    /\ unread \in [Contact -> Nat] /\ crossed \in BOOLEAN /\ opens \in Nat /\ faults \in Nat
    /\ jobs \subseteq Job /\ \A j \in Jobs("load") : IsFiniteSet(j.rows)
    /\ list \in Seq(Entry)

\* The list of a set of rows.
LEMMA ListOf ==
  ASSUME NEW S \in SUBSET Entry, IsFiniteSet(S)
  PROVE  /\ SetToSeq(S) \in Seq(Entry)
         /\ \A k \in DOMAIN SetToSeq(S) : SetToSeq(S)[k] \in S
         /\ \A e \in S : \E k \in DOMAIN SetToSeq(S) : SetToSeq(S)[k] = e
         /\ \A k, l \in DOMAIN SetToSeq(S) : SetToSeq(S)[k] = SetToSeq(S)[l] => k = l
<1> DEFINE n == Cardinality(S)
<1>1. n \in Nat /\ ExistsBijection(1 .. n, S)
  BY FS_CardinalityType
<1>2. PICK b \in [1 .. n -> S] : /\ \A x, y \in 1 .. n : b[x] = b[y] => x = y
                                 /\ \A e \in S : \E x \in 1 .. n : b[x] = e
  BY <1>1 DEF ExistsBijection, Bijection, Injection, Surjection, IsInjective
<1>3. IsInjective(b)
  BY <1>2 DEF IsInjective
<1> DEFINE f == SetToSeq(S)
<1>4. f \in [1 .. n -> S] /\ IsInjective(f)
  BY <1>2, <1>3 DEF SetToSeq
<1>5. f \in Surjection(1 .. n, S)
  <2>1. f \in Injection(1 .. n, S)
    BY <1>4 DEF Injection
  <2>2. Cardinality(1 .. n) = n
    BY <1>1, FS_Interval
  <2> QED
    BY <2>1, <2>2, FS_Injection
<1>6. \A e \in S : \E x \in 1 .. n : f[x] = e
  BY <1>5 DEF Surjection
<1> HIDE DEF f
<1>7. f \in Seq(Entry) /\ DOMAIN f = 1 .. n
  BY <1>1, <1>4
<1>8. /\ \A k \in DOMAIN f : f[k] \in S
      /\ \A e \in S : \E k \in DOMAIN f : f[k] = e
      /\ \A k, l \in DOMAIN f : f[k] = f[l] => k = l
  BY <1>4, <1>6, <1>7 DEF IsInjective
<1> QED
  BY <1>7, <1>8 DEF f

\* The rows of a contact, as the history reads them.
OwnRow(m) == [of |-> m, id |-> row[m].id, st |-> row[m].st, changed |-> event[m] = row[m].id]
InRow(i) == [of |-> i, id |-> "server", st |-> "received", changed |-> FALSE]
OwnOf(c) == { n \in Msg : row[n].at = c }
InOf(c) == { n \in In : got[n] = c }

LEMMA HistoryTyped ==
  ASSUME row \in [Msg -> Row], NEW c
  PROVE  History(c) \subseteq Entry /\ IsFiniteSet(History(c))
<1> DEFINE own == { OwnRow(m) : m \in OwnOf(c) }
           in == { InRow(i) : i \in InOf(c) }
<1>1. History(c) = own \cup in
  BY DEF History, OwnRow, InRow, OwnOf, InOf
<1>2. own \subseteq Entry
  <2>1. \A m \in Msg : OwnRow(m) \in Entry
    BY DEF OwnRow, Entry, Row, Id, St
  <2> QED
    BY <2>1 DEF OwnOf
<1>3. in \subseteq Entry
  <2>1. \A i \in In : InRow(i) \in Entry
    BY DEF InRow, Entry, Id, St
  <2> QED
    BY <2>1 DEF InOf
<1>4. IsFiniteSet(own)
  <2>1. IsFiniteSet(OwnOf(c))
    BY OutboxAssumption, FS_Subset DEF OwnOf
  <2>2. [m \in OwnOf(c) |-> OwnRow(m)] \in Surjection(OwnOf(c), own)
    BY DEF Surjection
  <2> QED
    BY <2>1, <2>2, FS_Surjection
<1>5. IsFiniteSet(in)
  <2>1. IsFiniteSet(InOf(c))
    BY OutboxAssumption, FS_Subset DEF InOf
  <2>2. [i \in InOf(c) |-> InRow(i)] \in Surjection(InOf(c), in)
    BY DEF Surjection
  <2> QED
    BY <2>1, <2>2, FS_Surjection
<1>6. IsFiniteSet(own \cup in)
  BY <1>4, <1>5, FS_Union
<1> QED
  BY <1>1, <1>2, <1>3, <1>6

LEMMA InitTyped == Init => Typed
<1> SUFFICES ASSUME Init PROVE Typed
  OBVIOUS
<1>1. NoRow \in Row
  BY DEF NoRow, Row, Id
<1>2. list \in Seq(Entry) /\ jobs = {} /\ Jobs("load") = {}
  BY DEF Init, Jobs
<1> QED
  BY <1>1, <1>2 DEF Init, Typed

\* A handler starts, goes on or ends: loads apart, which carry rows.
LEMMA JobsTyped ==
  ASSUME Typed, NEW k \in Job, k.kind # "load" \/ IsFiniteSet(k.rows), jobs' \subseteq jobs \cup {k}
  PROVE  jobs' \subseteq Job /\ \A j \in Jobs("load")' : IsFiniteSet(j.rows)
  BY DEF Typed, Jobs

LEMMA EndsTyped ==
  ASSUME Typed, jobs' \subseteq jobs
  PROVE  jobs' \subseteq Job /\ \A j \in Jobs("load")' : IsFiniteSet(j.rows)
  BY DEF Typed, Jobs

\* An entry of the list that changes keeps what it is about.
LEMMA EntryChanges ==
  ASSUME NEW e \in Entry, NEW i \in Id, NEW s \in St
  PROVE  /\ [e EXCEPT !.id = i, !.st = s] \in Entry /\ [e EXCEPT !.st = s] \in Entry
         /\ [e EXCEPT !.changed = TRUE] \in Entry
         /\ [e EXCEPT !.id = i, !.st = s].of = e.of /\ [e EXCEPT !.st = s].of = e.of
         /\ [e EXCEPT !.changed = TRUE].of = e.of
         /\ [e EXCEPT !.id = i, !.st = s].id = i /\ [e EXCEPT !.st = s].id = e.id
         /\ [e EXCEPT !.changed = TRUE].id = e.id
  BY DEF Entry

\* What the confirmation does to the row, what a status does.
LEMMA ReconciledRow ==
  ASSUME row \in [Msg -> Row], NEW m \in Msg
  PROVE  /\ Reconciled(m) \in [Msg -> Row]
         /\ \A n \in Msg : Reconciled(m)[n].at = row[n].at
         /\ \A n \in Msg : Reconciled(m)[n].id = IF n = m /\ row[m].at # NoContact
                                                THEN "server" ELSE row[n].id
<1>1. CASE row[m].at = NoContact
  BY <1>1 DEF Reconciled
<1>2. CASE row[m].at # NoContact
  <2> DEFINE new == [row[m] EXCEPT !.id = "server", !.st = "sent"]
  <2>1. new \in Row /\ new.at = row[m].at /\ new.id = "server"
    BY DEF Row, Id
  <2>2. Reconciled(m) = [row EXCEPT ![m] = new]
    BY <1>2 DEF Reconciled
  <2> HIDE DEF new
  <2> QED
    BY <1>2, <2>1, <2>2
<1> QED
  BY <1>1, <1>2

LEMMA StatusRow ==
  ASSUME row \in [Msg -> Row], NEW m \in Msg
  PROVE  /\ [row EXCEPT ![m].st = "delivered"] \in [Msg -> Row]
         /\ \A n \in Msg : /\ [row EXCEPT ![m].st = "delivered"][n].at = row[n].at
                           /\ [row EXCEPT ![m].st = "delivered"][n].id = row[n].id
<1> DEFINE new == [row[m] EXCEPT !.st = "delivered"]
<1>1. new \in Row /\ new.at = row[m].at /\ new.id = row[m].id
  BY DEF Row
<1>2. [row EXCEPT ![m].st = "delivered"] = [row EXCEPT ![m] = new]
  OBVIOUS
<1> HIDE DEF new
<1> QED
  BY <1>1, <1>2

\* A step of each of the two: ids and contacts.
LEMMA ConfirmVaultRow ==
  ASSUME Typed, NEW j \in jobs, ConfirmVault(j)
  PROVE  /\ row' \in [Msg -> Row] /\ j \in ConfirmJob
         /\ \A n \in Msg : row'[n].at = row[n].at
         /\ \A n \in Msg : row'[n].id = IF n = j.of /\ row[j.of].at # NoContact /\ faults' = faults
                                        THEN "server" ELSE row[n].id
         /\ faults' \in Nat /\ faults' >= faults
<1>1. j \in ConfirmJob /\ j.of \in Msg /\ row \in [Msg -> Row] /\ faults \in Nat
  BY JobKinds DEF ConfirmVault, Typed, ConfirmJob
<1>2. CASE row' = Reconciled(j.of) /\ faults' = faults
  BY <1>1, <1>2, ReconciledRow
<1>3. CASE row' = row /\ faults' = faults + 1
  BY <1>1, <1>3
<1> QED
  BY <1>2, <1>3 DEF ConfirmVault, Fault

LEMMA StatusVaultRow ==
  ASSUME Typed, NEW j \in jobs, StatusVault(j)
  PROVE  /\ row' \in [Msg -> Row] /\ j \in StatusJob
         /\ \A n \in Msg : row'[n].at = row[n].at /\ row'[n].id = row[n].id
         /\ faults' \in Nat /\ faults' >= faults
<1>1. j \in StatusJob /\ j.of \in Msg /\ row \in [Msg -> Row] /\ faults \in Nat
  BY JobKinds DEF StatusVault, Typed, StatusJob
<1>2. CASE row' = [row EXCEPT ![j.of].st = "delivered"] /\ faults' = faults
  BY <1>1, <1>2, StatusRow
<1>3. CASE row' = row /\ faults' \in {faults, faults + 1}
  BY <1>1, <1>3
<1> QED
  BY <1>2, <1>3 DEF StatusVault, Fault

\* The first step of sending; when the vault fails the row stays.
LEMMA SendVaultRow ==
  ASSUME Typed, NEW j \in jobs, SendVault(j)
  PROVE  /\ row' \in [Msg -> Row] /\ j \in SendJob
         /\ \A n \in Msg : n # j.of => row'[n] = row[n]
         /\ \/ /\ row'[j.of].at = j.at /\ row'[j.of].id = "temp" /\ faults' = faults
               /\ jobs' = (jobs \ {j}) \cup {After(j, "emit")}
            \/ /\ row' = row /\ faults' = faults + 1
               /\ \/ jobs' = (jobs \ {j}) \cup {After(j, "emit")}
                  \/ jobs' = jobs \ {j}
         /\ faults' \in Nat
<1>1. j \in SendJob /\ j.of \in Msg /\ j.at \in Contact /\ row \in [Msg -> Row] /\ faults \in Nat
  BY JobKinds DEF SendVault, Typed, SendJob
<1> DEFINE new == [at |-> j.at, id |-> "temp", st |-> "sending"]
<1>2. new \in Row /\ new.at = j.at /\ new.id = "temp"
  BY <1>1 DEF Row, Id
<1>3. CASE /\ row' = [row EXCEPT ![j.of] = new] /\ faults' = faults
           /\ Becomes(j, "emit")
  <2>1. jobs' = (jobs \ {j}) \cup {After(j, "emit")}
    BY <1>3 DEF Becomes, After
  <2> HIDE DEF new
  <2>2. row' \in [Msg -> Row] /\ row'[j.of] = new /\ \A n \in Msg : n # j.of => row'[n] = row[n]
    BY <1>1, <1>2, <1>3
  <2> QED
    BY <1>1, <1>2, <1>3, <2>1, <2>2
<1>4. CASE row' = row /\ faults' = faults + 1 /\ (Becomes(j, "emit") \/ Ends(j))
  <2>1. jobs' = (jobs \ {j}) \cup {After(j, "emit")} \/ jobs' = jobs \ {j}
    BY <1>4 DEF Becomes, After, Ends
  <2> QED
    BY <1>1, <1>4, <2>1
<1> QED
  BY <1>3, <1>4 DEF SendVault, Fault

LEMMA SameLength ==
  ASSUME list \in Seq(Entry), DOMAIN list' = DOMAIN list, list' = [k \in DOMAIN list |-> list'[k]],
         \A k \in DOMAIN list : list'[k] \in Entry
  PROVE  list' \in Seq(Entry)
<1>1. DOMAIN list = 1 .. Len(list) /\ Len(list) \in Nat
  OBVIOUS
<1> QED
  BY <1>1

LEMMA StepTyped == Typed /\ [Next]_vars => Typed'
<1> SUFFICES ASSUME Typed, [Next]_vars PROVE Typed'
  OBVIOUS
<1> USE OutboxAssumption DEF serverVars, vaultVars, screenVars, boundVars
<1>1. ASSUME NEW m \in Msg, Serve(m) PROVE Typed'
  BY <1>1 DEF Serve, Typed, Jobs
<1>2. ASSUME NEW m \in Msg, ConfirmArrives(m) PROVE Typed'
  <2> DEFINE k == [kind |-> "confirm", of |-> m, step |-> "vault"]
  <2>1. k \in Job /\ k.kind # "load"
    BY DEF Job, ConfirmJob
  <2>2. jobs' = jobs \cup {k}
    BY <1>2 DEF ConfirmArrives, Starts
  <2> HIDE DEF k
  <2>3. jobs' \subseteq Job /\ \A j \in Jobs("load")' : IsFiniteSet(j.rows)
    BY <2>1, <2>2, JobsTyped
  <2> QED
    BY <1>2, <2>3 DEF ConfirmArrives, Typed
<1>3. ASSUME NEW m \in Msg, StatusArrives(m) PROVE Typed'
  <2> DEFINE k == [kind |-> "status", of |-> m, id |-> LocalId(m), step |-> "vault"]
  <2>1. k \in Job /\ k.kind # "load"
    BY DEF Job, StatusJob, LocalId, Id
  <2>2. jobs' = jobs \cup {k}
    BY <1>3 DEF StatusArrives, Starts
  <2> HIDE DEF k
  <2>3. jobs' \subseteq Job /\ \A j \in Jobs("load")' : IsFiniteSet(j.rows)
    BY <2>1, <2>2, JobsTyped
  <2> QED
    BY <1>3, <2>3 DEF StatusArrives, Typed
<1>4. ASSUME NEW i \in In, NEW c \in Contact, MessageArrives(i, c) PROVE Typed'
  <2> DEFINE k == [kind |-> "in", of |-> i, at |-> c, step |-> "vault"]
  <2>1. k \in Job /\ k.kind # "load"
    BY DEF Job, InJob
  <2>2. jobs' = jobs \cup {k}
    BY <1>4 DEF MessageArrives, Starts
  <2> HIDE DEF k
  <2>3. jobs' \subseteq Job /\ \A j \in Jobs("load")' : IsFiniteSet(j.rows)
    BY <2>1, <2>2, JobsTyped
  <2> QED
    BY <1>4, <2>3 DEF MessageArrives, Typed
<1>5. ASSUME NEW j \in jobs, ConfirmVault(j) PROVE Typed'
  <2>1. j \in ConfirmJob
    BY <1>5, JobKinds DEF Typed, ConfirmVault
  <2>2. After(j, "list") \in Job /\ After(j, "list").kind # "load"
    BY <2>1, AfterConfirm DEF Job, ConfirmJob
  <2>3. jobs' = (jobs \ {j}) \cup {After(j, "list")}
    BY <1>5 DEF ConfirmVault, Becomes, After
  <2>4. jobs' \subseteq Job /\ \A k \in Jobs("load")' : IsFiniteSet(k.rows)
    BY <2>2, <2>3, JobsTyped
  <2>5. row' \in [Msg -> Row] /\ faults' \in Nat
    BY <1>5, ConfirmVaultRow
  <2> QED
    BY <1>5, <2>4, <2>5 DEF ConfirmVault, Typed
<1>6. ASSUME NEW j \in jobs, ConfirmList(j) PROVE Typed'
  <2>1. jobs' \subseteq Job /\ \A k \in Jobs("load")' : IsFiniteSet(k.rows)
    BY <1>6, EndsTyped DEF ConfirmList, Ends
  <2>2. \A k \in DOMAIN list : list[k] \in Entry
    BY DEF Typed
  <2>3. list' \in Seq(Entry)
    BY <1>6, <2>2, SameLength, EntryChanges DEF ConfirmList, Typed, Id, St
  <2> QED
    BY <1>6, <2>1, <2>3 DEF ConfirmList, Typed
<1>7. ASSUME NEW j \in jobs, StatusVault(j) PROVE Typed'
  <2>1. j \in StatusJob
    BY <1>7, JobKinds DEF Typed, StatusVault
  <2>2. After(j, "list") \in Job /\ After(j, "list").kind # "load"
    BY <2>1, AfterStatus DEF Job, StatusJob
  <2>3. jobs' = (jobs \ {j}) \cup {After(j, "list")}
    BY <1>7 DEF StatusVault, Becomes, After
  <2>4. jobs' \subseteq Job /\ \A k \in Jobs("load")' : IsFiniteSet(k.rows)
    BY <2>2, <2>3, JobsTyped
  <2>5. row' \in [Msg -> Row] /\ faults' \in Nat
    BY <1>7, StatusVaultRow
  <2> QED
    BY <1>7, <2>4, <2>5 DEF StatusVault, Typed
<1>8. ASSUME NEW j \in jobs, StatusList(j) PROVE Typed'
  <2>1. jobs' \subseteq Job /\ \A k \in Jobs("load")' : IsFiniteSet(k.rows)
    BY <1>8, EndsTyped DEF StatusList, Ends
  <2>2. \A k \in DOMAIN list : list[k] \in Entry
    BY DEF Typed
  <2>3. list' \in Seq(Entry)
    BY <1>8, <2>2, SameLength, EntryChanges DEF StatusList, Typed, Id, St
  <2> QED
    BY <1>8, <2>1, <2>3 DEF StatusList, Typed
<1>9. ASSUME NEW j \in jobs, InVault(j) PROVE Typed'
  <2>1. j \in InJob
    BY <1>9, JobKinds DEF Typed, InVault
  <2>2. After(j, "count") \in Job /\ After(j, "count").kind # "load"
    BY <2>1, AfterIn DEF Job, InJob
  <2>3. jobs' \subseteq jobs \cup {After(j, "count")}
    BY <1>9 DEF InVault, Becomes, Ends, After
  <2>4. jobs' \subseteq Job /\ \A k \in Jobs("load")' : IsFiniteSet(k.rows)
    BY <2>2, <2>3, JobsTyped
  <2>5. got' \in [In -> Contact \cup {NoContact}] /\ faults' \in Nat
    BY <1>9, <2>1 DEF InVault, Fault, Typed, InJob
  <2> QED
    BY <1>9, <2>4, <2>5 DEF InVault, Typed
<1>10. ASSUME NEW j \in jobs, InCount(j) PROVE Typed'
  <2>1. jobs' \subseteq Job /\ \A k \in Jobs("load")' : IsFiniteSet(k.rows)
    BY <1>10, EndsTyped DEF InCount, Ends
  <2>2. unread' \in [Contact -> Nat]
    <3>1. j.at \in Contact
      BY <1>10, JobKinds DEF InCount, Typed, InJob
    <3>2. unread' = [unread EXCEPT ![j.at] = unread[j.at] + 1]
      BY <1>10 DEF InCount
    <3> QED
      BY <3>1, <3>2 DEF Typed
  <2> QED
    BY <1>10, <2>1, <2>2 DEF InCount, Typed
<1>11. ASSUME NEW m \in Msg, Send(m) PROVE Typed'
  <2> DEFINE k == [kind |-> "send", of |-> m, at |-> active, step |-> "vault"]
  <2>1. k \in Job /\ k.kind # "load"
    BY <1>11 DEF Job, SendJob, Send, Composer, Typed
  <2>2. jobs' = jobs \cup {k}
    BY <1>11 DEF Send, Starts
  <2> HIDE DEF k
  <2>3. jobs' \subseteq Job /\ \A j \in Jobs("load")' : IsFiniteSet(j.rows)
    BY <2>1, <2>2, JobsTyped
  <2>4. crossed' \in BOOLEAN
    BY <1>11 DEF Send, Typed
  <2> QED
    BY <1>11, <2>3, <2>4 DEF Send, Typed
<1>12. ASSUME NEW j \in jobs, SendVault(j) PROVE Typed'
  <2>1. j \in SendJob
    BY <1>12, JobKinds DEF Typed, SendVault
  <2>2. After(j, "emit") \in Job /\ After(j, "emit").kind # "load"
    BY <2>1, AfterSend DEF Job, SendJob
  <2>3. jobs' \subseteq jobs \cup {After(j, "emit")}
    BY <1>12 DEF SendVault, Becomes, Ends, After
  <2>4. jobs' \subseteq Job /\ \A k \in Jobs("load")' : IsFiniteSet(k.rows)
    BY <2>2, <2>3, JobsTyped
  <2>5. row' \in [Msg -> Row] /\ faults' \in Nat
    BY <1>12, SendVaultRow
  <2> QED
    BY <1>12, <2>4, <2>5 DEF SendVault, Typed
<1>13. ASSUME NEW j \in jobs, SendEmit(j) PROVE Typed'
  <2>1. j \in SendJob
    BY <1>13, JobKinds DEF Typed, SendEmit
  <2>2. jobs' \subseteq Job /\ \A k \in Jobs("load")' : IsFiniteSet(k.rows)
    BY <1>13, EndsTyped DEF SendEmit, Ends
  <2>3. [of |-> j.of, id |-> "temp", st |-> "sending", changed |-> FALSE] \in Entry
    BY <2>1 DEF Entry, SendJob, Id, St
  <2>4. list' \in Seq(Entry)
    BY <1>13, <2>3 DEF SendEmit, Typed
  <2>5. emitted' = emitted \cup {j.of} /\ j.of \in Msg
    BY <1>13, <2>1 DEF SendEmit, SendJob
  <2> QED
    BY <1>13, <2>2, <2>4, <2>5 DEF SendEmit, Typed
<1>14. ASSUME NEW n \in DOMAIN list, Edit(n) PROVE Typed'
  <2> DEFINE k == [kind |-> "edit", of |-> list[n].of, id |-> list[n].id, step |-> "typed"]
  <2>1. list[n] \in Entry /\ list[n].of \in Msg
    BY <1>14 DEF Edit, Menu, Typed
  <2>2. k \in Job /\ k.kind # "load"
    BY <2>1 DEF Job, EventJob, Entry
  <2>3. jobs' = jobs \cup {k}
    BY <1>14 DEF Edit, Starts
  <2> HIDE DEF k
  <2>4. jobs' \subseteq Job /\ \A j \in Jobs("load")' : IsFiniteSet(j.rows)
    BY <2>2, <2>3, JobsTyped
  <2> QED
    BY <1>14, <2>4 DEF Edit, Typed
<1>15. ASSUME NEW j \in jobs, CancelEdit(j) PROVE Typed'
  <2>1. jobs' \subseteq Job /\ \A k \in Jobs("load")' : IsFiniteSet(k.rows)
    BY <1>15, EndsTyped DEF CancelEdit, Ends
  <2> QED
    BY <1>15, <2>1 DEF CancelEdit, Typed
<1>16. ASSUME NEW j \in jobs, SubmitEdit(j) PROVE Typed'
  <2>1. j \in EventJob
    BY <1>16, JobKinds DEF Typed, SubmitEdit
  <2>2. PICK s \in {"emit", "list"} : jobs' = (jobs \ {j}) \cup {After(j, s)}
    BY <1>16 DEF SubmitEdit, Becomes, After
  <2>3. After(j, s) \in Job /\ After(j, s).kind # "load"
    BY <2>1, AfterEvent DEF Job, EventJob
  <2>4. jobs' \subseteq Job /\ \A k \in Jobs("load")' : IsFiniteSet(k.rows)
    BY <2>2, <2>3, JobsTyped
  <2> QED
    BY <1>16, <2>4 DEF SubmitEdit, Typed
<1>17. ASSUME NEW n \in DOMAIN list, Delete(n) PROVE Typed'
  <2>1. PICK s \in {"emit", "list"} :
          jobs' = jobs \cup {[kind |-> "delete", of |-> list[n].of, id |-> list[n].id, step |-> s]}
    BY <1>17 DEF Delete, Starts
  <2> DEFINE k == [kind |-> "delete", of |-> list[n].of, id |-> list[n].id, step |-> s]
  <2>2. list[n] \in Entry /\ list[n].of \in Msg
    BY <1>17 DEF Delete, Menu, Typed
  <2>3. k \in Job /\ k.kind # "load"
    BY <2>2 DEF Job, EventJob, Entry
  <2>4. jobs' = jobs \cup {k}
    BY <2>1
  <2> HIDE DEF k
  <2>5. jobs' \subseteq Job /\ \A j \in Jobs("load")' : IsFiniteSet(j.rows)
    BY <2>3, <2>4, JobsTyped
  <2> QED
    BY <1>17, <2>5 DEF Delete, Typed
<1>18. ASSUME NEW j \in jobs, EventEmit(j) PROVE Typed'
  <2>1. j \in EventJob
    BY <1>18, JobKinds DEF Typed, EventEmit
  <2>2. PICK s \in {"vault", "list"} : jobs' = (jobs \ {j}) \cup {After(j, s)}
    BY <1>18 DEF EventEmit, Becomes, After
  <2>3. After(j, s) \in Job /\ After(j, s).kind # "load"
    BY <2>1, AfterEvent DEF Job, EventJob
  <2>4. jobs' \subseteq Job /\ \A k \in Jobs("load")' : IsFiniteSet(k.rows)
    BY <2>2, <2>3, JobsTyped
  <2>5. faults' \in Nat
    BY <1>18 DEF EventEmit, Fault, Typed
  <2> QED
    BY <1>18, <2>4, <2>5 DEF EventEmit, Typed
<1>19. ASSUME NEW j \in jobs, EventVault(j) PROVE Typed'
  <2>1. j \in EventJob
    BY <1>19, JobKinds DEF Typed, EventVault
  <2>2. After(j, "list") \in Job /\ After(j, "list").kind # "load"
    BY <2>1, AfterEvent DEF Job, EventJob
  <2>3. jobs' = (jobs \ {j}) \cup {After(j, "list")}
    BY <1>19 DEF EventVault, Becomes, After
  <2>4. jobs' \subseteq Job /\ \A k \in Jobs("load")' : IsFiniteSet(k.rows)
    BY <2>2, <2>3, JobsTyped
  <2>5. event' \in [Msg -> Id \cup {"none"}] /\ faults' \in Nat
    BY <1>19, <2>1 DEF EventVault, Fault, Typed, EventJob
  <2> QED
    BY <1>19, <2>4, <2>5 DEF EventVault, Typed
<1>20. ASSUME NEW j \in jobs, EventList(j) PROVE Typed'
  <2>1. jobs' \subseteq Job /\ \A k \in Jobs("load")' : IsFiniteSet(k.rows)
    BY <1>20, EndsTyped DEF EventList, Ends
  <2>2. \A k \in DOMAIN list : list[k] \in Entry
    BY DEF Typed
  <2>3. list' \in Seq(Entry)
    BY <1>20, <2>2, SameLength, EntryChanges DEF EventList, Typed, Id, St
  <2> QED
    BY <1>20, <2>1, <2>3 DEF EventList, Typed
<1>21. ASSUME NEW c \in Contact, Open(c) PROVE Typed'
  <2> DEFINE k == [kind |-> "load", at |-> c, no |-> opens + 1, step |-> "select", rows |-> {}]
  <2>1. k \in Job /\ IsFiniteSet(k.rows)
    BY FS_EmptySet DEF Job, LoadJob, Typed
  <2>2. jobs' = jobs \cup {k} /\ opens' = opens + 1
    BY <1>21 DEF Open, Starts
  <2> HIDE DEF k
  <2>3. jobs' \subseteq Job /\ \A j \in Jobs("load")' : IsFiniteSet(j.rows)
    BY <2>1, <2>2, JobsTyped
  <2>4. unread' \in [Contact -> Nat] /\ active' \in Contact
    BY <1>21 DEF Open, Typed
  <2>5. crossed' \in BOOLEAN
    BY <1>21 DEF Open, Works
  <2> QED
    BY <1>21, <2>2, <2>3, <2>4, <2>5 DEF Open, Typed
<1>22. ASSUME NEW j \in jobs, Select(j) PROVE Typed'
  <2>1. j \in LoadJob
    BY <1>22, JobKinds DEF Typed, Select
  <2>2. History(j.at) \subseteq Entry /\ IsFiniteSet(History(j.at))
    BY HistoryTyped DEF Typed
  <2>3. Loaded(j) \in Job /\ IsFiniteSet(Loaded(j).rows)
    BY <2>1, <2>2, LoadedJob DEF Job
  <2>4. jobs' = (jobs \ {j}) \cup {Loaded(j)}
    BY <1>22 DEF Select, Loaded
  <2>5. jobs' \subseteq Job /\ \A k \in Jobs("load")' : IsFiniteSet(k.rows)
    BY <2>3, <2>4, JobsTyped
  <2> QED
    BY <1>22, <2>5 DEF Select, Typed
<1>23. ASSUME NEW j \in jobs, Show(j) PROVE Typed'
  <2>1. j \in LoadJob /\ j \in Jobs("load")
    BY <1>23, JobKinds DEF Typed, Show, Jobs
  <2>2. j.rows \in SUBSET Entry /\ IsFiniteSet(j.rows) /\ j.at \in Contact
    BY <2>1 DEF Typed, LoadJob
  <2>3. After(j, "keys") \in Job /\ IsFiniteSet(After(j, "keys").rows)
    BY <2>1, <2>2, AfterLoad DEF Job
  <2>4. jobs' = (jobs \ {j}) \cup {After(j, "keys")}
    BY <1>23 DEF Show, Becomes, After
  <2>5. jobs' \subseteq Job /\ \A k \in Jobs("load")' : IsFiniteSet(k.rows)
    BY <2>3, <2>4, JobsTyped
  <2>6. list' \in Seq(Entry)
    <3>1. SetToSeq(j.rows) \in Seq(Entry)
      BY <2>2, ListOf
    <3>2. <<>> \in Seq(Entry)
      OBVIOUS
    <3>3. list' = SetToSeq(j.rows) \/ list' = <<>>
      BY <1>23 DEF Show
    <3> QED
      BY <3>1, <3>2, <3>3, Zenon
  <2>7. loaded' \in Contact \cup {NoContact} /\ faults' \in Nat
    BY <1>23, <2>2 DEF Show, Fault, Typed
  <2> QED
    BY <1>23, <2>5, <2>6, <2>7 DEF Show, Typed
<1>24. ASSUME NEW j \in jobs, Keys(j) PROVE Typed'
  <2>1. jobs' \subseteq Job /\ \A k \in Jobs("load")' : IsFiniteSet(k.rows)
    BY <1>24, EndsTyped DEF Keys, Ends
  <2>2. faults' \in Nat
    BY <1>24 DEF Keys, Fault, Typed
  <2> QED
    BY <1>24, <2>1, <2>2 DEF Keys, Typed
<1>25. CASE SignIn
  BY <1>25 DEF SignIn, Typed, Jobs
<1>26. CASE SignOut
  BY <1>26 DEF SignOut, Typed, Jobs
<1>27. CASE Restart
  <2>1. jobs' = {} /\ Jobs("load")' = {}
    BY <1>27 DEF Restart, Jobs
  <2>2. unread' \in [Contact -> Nat] /\ list' \in Seq(Entry)
    BY <1>27 DEF Restart
  <2> QED
    BY <1>27, <2>1, <2>2 DEF Restart, Typed
<1>28. CASE UNCHANGED vars
  BY <1>28 DEF vars, Typed, Jobs
<1> QED
  BY <1>1, <1>2, <1>3, <1>4, <1>5, <1>6, <1>7, <1>8, <1>9, <1>10, <1>11, <1>12,
     <1>13, <1>14, <1>15, <1>16, <1>17, <1>18, <1>19, <1>20, <1>21, <1>22, <1>23,
     <1>24, <1>25, <1>26, <1>27, <1>28 DEF Next, Arrival, Handler

-----------------------------------------------------------------------------
(***************************************************************************)
(* Steps by the handlers they touch.                                       *)
(***************************************************************************)

InStep ==
    \/ \E i \in In, c \in Contact : MessageArrives(i, c)
    \/ \E j \in jobs : InVault(j) \/ InCount(j)

SendStep ==
    \/ \E m \in Msg : Send(m)
    \/ \E j \in jobs : SendVault(j) \/ SendEmit(j)

LoadStep ==
    \/ \E c \in Contact : Open(c)
    \/ \E j \in jobs : Select(j) \/ Show(j) \/ Keys(j)

NoteStep ==
    \/ \E m \in Msg : ConfirmArrives(m) \/ StatusArrives(m)
    \/ \E j \in jobs : ConfirmVault(j) \/ ConfirmList(j) \/ StatusVault(j) \/ StatusList(j)

EventStep ==
    \/ \E k \in DOMAIN list : Edit(k) \/ Delete(k)
    \/ \E j \in jobs : \/ SubmitEdit(j) \/ CancelEdit(j)
                       \/ EventEmit(j) \/ EventVault(j) \/ EventList(j)

PlainStep == (\E m \in Msg : Serve(m)) \/ SignIn \/ SignOut \/ UNCHANGED vars

LEMMA Steps ==
  [Next]_vars => InStep \/ SendStep \/ LoadStep \/ NoteStep \/ EventStep \/ PlainStep \/ Restart
  BY DEF Next, Arrival, Handler, InStep, SendStep, LoadStep, NoteStep, EventStep, PlainStep

LEMMA InKinds ==
  ASSUME Typed, InStep
  PROVE  \A kind : kind # "in" => Jobs(kind)' = Jobs(kind)
<1>1. ASSUME NEW i \in In, NEW c \in Contact, MessageArrives(i, c)
      PROVE  \A kind : kind # "in" => Jobs(kind)' = Jobs(kind)
  BY <1>1, StartedKinds DEF MessageArrives
<1>2. ASSUME NEW j \in jobs, InVault(j) \/ InCount(j)
      PROVE  \A kind : kind # "in" => Jobs(kind)' = Jobs(kind)
  <2>1. j \in InJob /\ j.kind = "in" /\ After(j, "count").kind = "in"
    BY <1>2, JobKinds, AfterIn DEF InVault, InCount, Typed
  <2>2. jobs' \subseteq jobs \cup {After(j, "count")} /\ jobs \ {j} \subseteq jobs'
    BY <1>2 DEF InVault, InCount, Becomes, Ends, After
  <2> QED
    BY <2>1, <2>2, OtherKinds
<1> QED
  BY <1>1, <1>2 DEF InStep

LEMMA SendKinds ==
  ASSUME Typed, SendStep
  PROVE  \A kind : kind # "send" => Jobs(kind)' = Jobs(kind)
<1>1. ASSUME NEW m \in Msg, Send(m)
      PROVE  \A kind : kind # "send" => Jobs(kind)' = Jobs(kind)
  BY <1>1, StartedKinds DEF Send
<1>2. ASSUME NEW j \in jobs, SendVault(j) \/ SendEmit(j)
      PROVE  \A kind : kind # "send" => Jobs(kind)' = Jobs(kind)
  <2>1. j \in SendJob /\ j.kind = "send" /\ After(j, "emit").kind = "send"
    BY <1>2, JobKinds, AfterSend DEF SendVault, SendEmit, Typed
  <2>2. jobs' \subseteq jobs \cup {After(j, "emit")} /\ jobs \ {j} \subseteq jobs'
    BY <1>2 DEF SendVault, SendEmit, Becomes, Ends, After
  <2> QED
    BY <2>1, <2>2, OtherKinds
<1> QED
  BY <1>1, <1>2 DEF SendStep

LEMMA LoadKinds ==
  ASSUME Typed, LoadStep
  PROVE  \A kind : kind # "load" => Jobs(kind)' = Jobs(kind)
<1>1. ASSUME NEW c \in Contact, Open(c)
      PROVE  \A kind : kind # "load" => Jobs(kind)' = Jobs(kind)
  BY <1>1, StartedKinds DEF Open
<1>2. ASSUME NEW j \in jobs, Select(j)
      PROVE  \A kind : kind # "load" => Jobs(kind)' = Jobs(kind)
  <2>1. j \in LoadJob /\ j.kind = "load"
    BY <1>2, JobKinds DEF Select, Typed
  <2>2. History(j.at) \subseteq Entry
    BY HistoryTyped DEF Typed
  <2>3. Loaded(j).kind = "load"
    BY <2>1, <2>2, LoadedJob
  <2>4. jobs' = (jobs \ {j}) \cup {Loaded(j)}
    BY <1>2 DEF Select, Loaded
  <2> QED
    BY <2>1, <2>3, <2>4, OtherKinds
<1>3. ASSUME NEW j \in jobs, Show(j) \/ Keys(j)
      PROVE  \A kind : kind # "load" => Jobs(kind)' = Jobs(kind)
  <2>1. j \in LoadJob /\ j.kind = "load" /\ After(j, "keys").kind = "load"
    BY <1>3, JobKinds, AfterLoad DEF Show, Keys, Typed
  <2>2. jobs' \subseteq jobs \cup {After(j, "keys")} /\ jobs \ {j} \subseteq jobs'
    BY <1>3 DEF Show, Keys, Becomes, Ends, After
  <2> QED
    BY <2>1, <2>2, OtherKinds
<1> QED
  BY <1>1, <1>2, <1>3 DEF LoadStep

LEMMA NoteKinds ==
  ASSUME Typed, NoteStep
  PROVE  \A kind : kind \notin {"confirm", "status"} => Jobs(kind)' = Jobs(kind)
<1>1. ASSUME NEW m \in Msg, ConfirmArrives(m) \/ StatusArrives(m)
      PROVE  \A kind : kind \notin {"confirm", "status"} => Jobs(kind)' = Jobs(kind)
  BY <1>1, StartedKinds DEF ConfirmArrives, StatusArrives
<1>2. ASSUME NEW j \in jobs, ConfirmVault(j) \/ ConfirmList(j)
      PROVE  \A kind : kind # "confirm" => Jobs(kind)' = Jobs(kind)
  <2>1. j \in ConfirmJob /\ j.kind = "confirm" /\ After(j, "list").kind = "confirm"
    BY <1>2, JobKinds, AfterConfirm DEF ConfirmVault, ConfirmList, Typed
  <2>2. jobs' \subseteq jobs \cup {After(j, "list")} /\ jobs \ {j} \subseteq jobs'
    BY <1>2 DEF ConfirmVault, ConfirmList, Becomes, Ends, After
  <2> QED
    BY <2>1, <2>2, OtherKinds
<1>3. ASSUME NEW j \in jobs, StatusVault(j) \/ StatusList(j)
      PROVE  \A kind : kind # "status" => Jobs(kind)' = Jobs(kind)
  <2>1. j \in StatusJob /\ j.kind = "status" /\ After(j, "list").kind = "status"
    BY <1>3, JobKinds, AfterStatus DEF StatusVault, StatusList, Typed
  <2>2. jobs' \subseteq jobs \cup {After(j, "list")} /\ jobs \ {j} \subseteq jobs'
    BY <1>3 DEF StatusVault, StatusList, Becomes, Ends, After
  <2> QED
    BY <2>1, <2>2, OtherKinds
<1> QED
  BY <1>1, <1>2, <1>3 DEF NoteStep

LEMMA EventKinds ==
  ASSUME Typed, EventStep
  PROVE  \A kind : kind \notin {"edit", "delete"} => Jobs(kind)' = Jobs(kind)
<1>1. ASSUME NEW k \in DOMAIN list, Edit(k) \/ Delete(k)
      PROVE  \A kind : kind \notin {"edit", "delete"} => Jobs(kind)' = Jobs(kind)
  BY <1>1, StartedKinds DEF Edit, Delete
<1>2. ASSUME NEW j \in jobs,
             SubmitEdit(j) \/ CancelEdit(j) \/ EventEmit(j) \/ EventVault(j) \/ EventList(j)
      PROVE  \A kind : kind \notin {"edit", "delete"} => Jobs(kind)' = Jobs(kind)
  <2>1. j \in EventJob /\ j.kind \in {"edit", "delete"}
    BY <1>2, JobKinds DEF SubmitEdit, CancelEdit, EventEmit, EventVault, EventList, Typed
  <2>2. \E s \in {"emit", "vault", "list"} :
          jobs' \subseteq jobs \cup {After(j, s)} /\ jobs \ {j} \subseteq jobs'
    BY <1>2 DEF SubmitEdit, CancelEdit, EventEmit, EventVault, EventList, Becomes, Ends, After
  <2>3. PICK s \in {"emit", "vault", "list"} :
          jobs' \subseteq jobs \cup {After(j, s)} /\ jobs \ {j} \subseteq jobs'
    BY <2>2
  <2>4. After(j, s).kind = j.kind
    BY <2>1, AfterEvent
  <2> QED
    BY <2>1, <2>3, <2>4, OtherKinds
<1> QED
  BY <1>1, <1>2 DEF EventStep

\* Steps that send nothing, load nothing and receive nothing.
Aside ==
    /\ Jobs("send")' = Jobs("send") /\ Jobs("in")' = Jobs("in") /\ Jobs("load")' = Jobs("load")
    /\ UNCHANGED <<emitted, got, unread, active, crossed>>
    /\ \A m \in Msg : row'[m].at = row[m].at
    /\ faults' >= faults
    /\ \/ /\ loaded' = loaded /\ DOMAIN list' = DOMAIN list
          /\ \A k \in DOMAIN list : list'[k].of = list[k].of
       \/ loaded' = NoContact

LEMMA NoteAside == Typed /\ NoteStep => Aside
<1> SUFFICES ASSUME Typed, NoteStep PROVE Aside
  OBVIOUS
<1>1. Jobs("send")' = Jobs("send") /\ Jobs("in")' = Jobs("in") /\ Jobs("load")' = Jobs("load")
  BY NoteKinds
<1>2. UNCHANGED <<emitted, got, unread, active, crossed, loaded>>
  BY DEF NoteStep, ConfirmArrives, StatusArrives, ConfirmVault, ConfirmList, StatusVault, StatusList,
     serverVars, vaultVars, screenVars, boundVars
<1>3. /\ \A m \in Msg : row'[m].at = row[m].at
      /\ faults' >= faults
  <2>1. ASSUME NEW j \in jobs, ConfirmVault(j) \/ StatusVault(j)
        PROVE  (\A m \in Msg : row'[m].at = row[m].at) /\ faults' >= faults
    BY <2>1, ConfirmVaultRow, StatusVaultRow
  <2>2. CASE row' = row /\ faults' = faults
    BY <2>2 DEF Typed
  <2> QED
    BY <2>1, <2>2 DEF NoteStep, ConfirmArrives, StatusArrives, ConfirmList, StatusList,
       serverVars, vaultVars, screenVars, boundVars
<1>4. /\ DOMAIN list' = DOMAIN list
      /\ \A k \in DOMAIN list : list'[k].of = list[k].of
  <2>1. \A k \in DOMAIN list : list[k] \in Entry
    BY DEF Typed
  <2>2. ASSUME NEW j \in jobs, ConfirmList(j) \/ StatusList(j)
        PROVE  DOMAIN list' = DOMAIN list /\ \A k \in DOMAIN list : list'[k].of = list[k].of
    <3>1. CASE ConfirmList(j)
      BY <2>1, <3>1, EntryChanges DEF ConfirmList, Id, St
    <3>2. CASE StatusList(j)
      BY <2>1, <3>2, EntryChanges DEF StatusList, Id, St
    <3> QED
      BY <2>2, <3>1, <3>2
  <2>3. CASE list' = list
    BY <2>3
  <2> QED
    BY <2>2, <2>3 DEF NoteStep, ConfirmArrives, StatusArrives, ConfirmVault, StatusVault,
       serverVars, vaultVars, screenVars, boundVars
<1> QED
  BY <1>1, <1>2, <1>3, <1>4 DEF Aside

LEMMA EventAside == Typed /\ EventStep => Aside
<1> SUFFICES ASSUME Typed, EventStep PROVE Aside
  OBVIOUS
<1>1. Jobs("send")' = Jobs("send") /\ Jobs("in")' = Jobs("in") /\ Jobs("load")' = Jobs("load")
  BY EventKinds
<1>2. /\ UNCHANGED <<emitted, got, unread, active, crossed, loaded, row>>
      /\ faults' \in {faults, faults + 1}
  BY DEF EventStep, Edit, Delete, SubmitEdit, CancelEdit, EventEmit, EventVault, EventList, Fault,
     serverVars, vaultVars, screenVars, boundVars
<1>3. /\ DOMAIN list' = DOMAIN list
      /\ \A k \in DOMAIN list : list'[k].of = list[k].of
  <2>1. \A k \in DOMAIN list : list[k] \in Entry
    BY DEF Typed
  <2>2. ASSUME NEW j \in jobs, EventList(j)
        PROVE  DOMAIN list' = DOMAIN list /\ \A k \in DOMAIN list : list'[k].of = list[k].of
    BY <2>1, <2>2, EntryChanges DEF EventList, Id, St
  <2>3. CASE list' = list
    BY <2>3
  <2> QED
    BY <2>2, <2>3 DEF EventStep, Edit, Delete, SubmitEdit, CancelEdit, EventEmit, EventVault,
       serverVars, vaultVars, screenVars, boundVars
<1> QED
  BY <1>1, <1>2, <1>3 DEF Aside, Typed

LEMMA PlainAside == Typed /\ PlainStep => Aside
<1> SUFFICES ASSUME Typed, PlainStep PROVE Aside
  OBVIOUS
<1>1. jobs' = jobs /\ UNCHANGED <<emitted, got, unread, active, crossed, row>>
  BY DEF PlainStep, Serve, SignIn, SignOut, vars, serverVars, vaultVars, screenVars, boundVars
<1>2. faults' = faults /\ (loaded' = NoContact \/ (loaded' = loaded /\ list' = list))
  BY DEF PlainStep, Serve, SignIn, SignOut, vars, serverVars, vaultVars, screenVars, boundVars
<1> QED
  BY <1>1, <1>2 DEF Aside, Jobs, Typed

LEMMA AsideSteps == Typed /\ (NoteStep \/ EventStep \/ PlainStep) => Aside
  BY NoteAside, EventAside, PlainAside

\* The send of a message, its save and its frame, in terms of the sends.
LEMMA SendBegins ==
  ASSUME Typed, NEW m \in Msg, Send(m)
  PROVE  /\ \E k : /\ Jobs("send")' = Jobs("send") \cup {k}
                   /\ k.of = m /\ k.at = active /\ k.step = "vault"
         /\ row[m].at = NoContact /\ m \notin emitted /\ \A j \in Jobs("send") : j.of # m
         /\ UNCHANGED <<emitted, row, event, got, unread, active, list, loaded, faults, confirmed>>
         /\ crossed' = (crossed \/ Jobs("load") # {})
<1> DEFINE k == [kind |-> "send", of |-> m, at |-> active, step |-> "vault"]
<1>1. k.kind = "send" /\ k.of = m /\ k.at = active /\ k.step = "vault"
  OBVIOUS
<1>2. Starts(k)
  BY DEF Send
<1> HIDE DEF k
<1>3. Jobs("send")' = Jobs("send") \cup {k}
  BY <1>1, <1>2, StartedKind
<1>4. row[m].at = NoContact /\ m \notin emitted /\ \A j \in Jobs("send") : j.of # m
  BY DEF Send, Begun, Jobs
<1>5. UNCHANGED <<emitted, row, event, got, unread, active, list, loaded, faults, confirmed>>
  BY DEF Send, serverVars, vaultVars, screenVars
<1>6. crossed' = (crossed \/ Jobs("load") # {})
  BY DEF Send, Works, Jobs
<1> QED
  BY <1>1, <1>3, <1>4, <1>5, <1>6

LEMMA SendSaves ==
  ASSUME Typed, NEW j \in jobs, SendVault(j)
  PROVE  /\ j \in Jobs("send") /\ j \in SendJob /\ j.step = "vault"
         /\ \E k : /\ k.of = j.of /\ k.at = j.at /\ k.step = "emit"
                   /\ \/ Jobs("send")' = (Jobs("send") \ {j}) \cup {k}
                      \/ Jobs("send")' = Jobs("send") \ {j} /\ faults' = faults + 1
         /\ UNCHANGED <<emitted, event, got, unread, active, list, loaded, crossed, confirmed>>
<1>1. j \in SendJob /\ j.kind = "send" /\ j.step = "vault"
  BY JobKinds DEF SendVault, Typed
<1>2. /\ After(j, "emit").kind = "send" /\ After(j, "emit").of = j.of
      /\ After(j, "emit").at = j.at /\ After(j, "emit").step = "emit"
  BY <1>1, AfterSend
<1>3. \/ Jobs("send")' = (Jobs("send") \ {j}) \cup {After(j, "emit")}
      \/ Jobs("send")' = Jobs("send") \ {j} /\ faults' = faults + 1
  BY <1>1, <1>2, SendVaultRow, OwnKind
<1>4. UNCHANGED <<emitted, event, got, unread, active, list, loaded, crossed, confirmed>>
  BY DEF SendVault, serverVars, screenVars
<1>5. j \in Jobs("send")
  BY <1>1 DEF Jobs
<1> QED
  BY <1>1, <1>2, <1>3, <1>4, <1>5

LEMMA SendLeaves ==
  ASSUME Typed, NEW j \in jobs, SendEmit(j)
  PROVE  /\ j \in Jobs("send") /\ j \in SendJob /\ j.step = "emit"
         /\ Jobs("send")' = Jobs("send") \ {j}
         /\ emitted' = emitted \cup {j.of}
         /\ list' = Append(list, [of |-> j.of, id |-> "temp", st |-> "sending", changed |-> FALSE])
         /\ UNCHANGED <<row, event, got, unread, active, loaded, faults, crossed, confirmed>>
<1>1. j \in SendJob /\ j.kind = "send" /\ j.step = "emit"
  BY JobKinds DEF SendEmit, Typed
<1>2. Jobs("send")' = Jobs("send") \ {j}
  BY <1>1, OwnKind DEF SendEmit, Ends
<1>3. j \in Jobs("send")
  BY <1>1 DEF Jobs
<1> QED
  BY <1>1, <1>2, <1>3 DEF SendEmit, vaultVars, boundVars

\* Failures are only counted up.
LEMMA SendFaults ==
  ASSUME Typed, SendStep
  PROVE  faults' >= faults /\ faults \in Nat /\ faults' \in Nat
<1>1. ASSUME NEW j \in jobs, SendVault(j) PROVE faults' \in {faults, faults + 1}
  BY <1>1, SendVaultRow
<1>2. ASSUME NEW j \in jobs, SendEmit(j) PROVE faults' = faults
  BY <1>2, SendLeaves
<1>3. ASSUME NEW m \in Msg, Send(m) PROVE faults' = faults
  BY <1>3, SendBegins
<1> QED
  BY <1>1, <1>2, <1>3 DEF SendStep, Typed

LEMMA InRest ==
  ASSUME Typed, InStep
  PROVE  /\ UNCHANGED <<emitted, row, event, active, list, loaded, crossed, confirmed>>
         /\ faults' \in Nat /\ faults' >= faults
<1>1. UNCHANGED <<emitted, row, event, active, list, loaded, crossed, confirmed>>
  BY DEF InStep, MessageArrives, InVault, InCount, serverVars, vaultVars, screenVars, boundVars
<1>2. faults' \in {faults, faults + 1}
  BY DEF InStep, MessageArrives, InVault, InCount, Fault, boundVars
<1> QED
  BY <1>1, <1>2 DEF Typed

LEMMA LoadRest ==
  ASSUME Typed, LoadStep
  PROVE  /\ UNCHANGED <<emitted, row, event, got, confirmed>>
         /\ faults' \in Nat /\ faults' >= faults
<1>1. UNCHANGED <<emitted, row, event, got, confirmed>>
  BY DEF LoadStep, Open, Select, Show, Keys, serverVars, vaultVars
<1>2. faults' \in {faults, faults + 1}
  BY DEF LoadStep, Open, Select, Show, Keys, Fault, boundVars
<1> QED
  BY <1>1, <1>2 DEF Typed

LEMMA RestartRest ==
  ASSUME Typed, Restart
  PROVE  /\ UNCHANGED <<emitted, row, event, got, confirmed, faults>>
         /\ active' = NoContact /\ list' = <<>> /\ crossed' = FALSE
         /\ \A kind : Jobs(kind)' = {}
  BY DEF Restart, Jobs, serverVars, vaultVars

-----------------------------------------------------------------------------
(***************************************************************************)
(* What the server has is in the vault.                                    *)
(***************************************************************************)

\* A message is sent by one handler, which has not sent it yet and saves it first.
SendsApart ==
    /\ \A j, k \in Jobs("send") : j.of = k.of => j = k
    /\ \A j \in Jobs("send") : /\ j.of \notin emitted
                               /\ j.step = "vault" => row[j.of].at = NoContact

LEMMA StepSendsApart == Typed /\ SendsApart /\ [Next]_vars => SendsApart'
<1> SUFFICES ASSUME Typed, SendsApart, [Next]_vars PROVE SendsApart'
  OBVIOUS
<1>0. \A j \in Jobs("send") : j.of \in Msg
  BY JobKinds DEF Jobs, Typed, SendJob
<1>1. CASE Aside
  <2>1. \A j \in Jobs("send") : row'[j.of].at = row[j.of].at
    BY <1>0, <1>1 DEF Aside
  <2> QED
    BY <1>1, <2>1 DEF Aside, SendsApart
<1>2. CASE InStep
  BY <1>2, InKinds, InRest DEF SendsApart
<1>3. CASE LoadStep
  BY <1>3, LoadKinds, LoadRest DEF SendsApart
<1>4. CASE Restart
  BY <1>4, RestartRest DEF SendsApart
<1>5. ASSUME NEW m \in Msg, Send(m) PROVE SendsApart'
  BY <1>5, SendBegins DEF SendsApart
<1>6. ASSUME NEW j \in jobs, SendVault(j) PROVE SendsApart'
  <2>1. /\ j \in Jobs("send") /\ j \in SendJob /\ j.step = "vault"
        /\ \E k : /\ k.of = j.of /\ k.at = j.at /\ k.step = "emit"
                  /\ \/ Jobs("send")' = (Jobs("send") \ {j}) \cup {k}
                     \/ Jobs("send")' = Jobs("send") \ {j} /\ faults' = faults + 1
        /\ UNCHANGED <<emitted, event, got, unread, active, list, loaded, crossed, confirmed>>
    BY <1>6, SendSaves
  <2>2. \A k \in Jobs("send") : k # j => k.of # j.of /\ row'[k.of] = row[k.of]
    BY <1>0, <1>6, <2>1, SendVaultRow DEF SendsApart
  <2> QED
    BY <2>1, <2>2 DEF SendsApart
<1>7. ASSUME NEW j \in jobs, SendEmit(j) PROVE SendsApart'
  <2>1. /\ j \in Jobs("send") /\ Jobs("send")' = Jobs("send") \ {j}
        /\ emitted' = emitted \cup {j.of} /\ row' = row
    BY <1>7, SendLeaves
  <2> QED
    BY <2>1 DEF SendsApart
<1> QED
  BY <1>1, <1>2, <1>3, <1>4, <1>5, <1>6, <1>7, Steps, AsideSteps DEF SendStep

\* While no call has failed: what was sent, or is about to be, has its row.
Kept ==
    faults = 0 =>
      /\ \A m \in emitted : row[m].at # NoContact
      /\ \A j \in Jobs("send") : j.step = "emit" => row[j.of].at = j.at

LEMMA StepKept == Typed /\ SendsApart /\ Kept /\ [Next]_vars => Kept'
<1> SUFFICES ASSUME Typed, SendsApart, Kept, [Next]_vars PROVE Kept'
  OBVIOUS
<1>0. /\ \A j \in Jobs("send") : j.of \in Msg /\ j.at \in Contact
      /\ emitted \subseteq Msg /\ faults \in Nat /\ NoContact \notin Contact
  BY JobKinds, OutboxAssumption DEF Jobs, Typed, SendJob
<1>1. CASE Aside
  <2>1. \A j \in Jobs("send") : row'[j.of].at = row[j.of].at
    BY <1>0, <1>1 DEF Aside
  <2>2. faults' \in Nat /\ faults' >= faults
    BY <1>1, StepTyped DEF Aside, Typed
  <2> QED
    BY <1>0, <1>1, <2>1, <2>2 DEF Aside, Kept
<1>2. CASE InStep
  BY <1>0, <1>2, InKinds, InRest DEF Kept
<1>3. CASE LoadStep
  BY <1>0, <1>3, LoadKinds, LoadRest DEF Kept
<1>4. CASE Restart
  BY <1>4, RestartRest DEF Kept
<1>5. ASSUME NEW m \in Msg, Send(m) PROVE Kept'
  BY <1>5, SendBegins DEF Kept
<1>6. ASSUME NEW j \in jobs, SendVault(j) PROVE Kept'
  <2>1. /\ j \in Jobs("send") /\ j \in SendJob /\ j.step = "vault"
        /\ \E k : /\ k.of = j.of /\ k.at = j.at /\ k.step = "emit"
                  /\ \/ Jobs("send")' = (Jobs("send") \ {j}) \cup {k}
                     \/ Jobs("send")' = Jobs("send") \ {j} /\ faults' = faults + 1
        /\ emitted' = emitted
    BY <1>6, SendSaves
  <2>2. \A k \in Jobs("send") : k # j => k.of # j.of /\ row'[k.of] = row[k.of]
    BY <1>0, <1>6, <2>1, SendVaultRow DEF SendsApart
  <2>3. \A m \in emitted : m # j.of /\ row'[m] = row[m]
    BY <1>0, <1>6, <2>1, SendVaultRow DEF SendsApart
  <2>4. CASE faults' = faults /\ row'[j.of].at = j.at
    BY <1>0, <2>1, <2>2, <2>3, <2>4 DEF Kept
  <2>5. CASE faults' = faults + 1
    BY <1>0, <2>5 DEF Kept
  <2> QED
    BY <1>6, <2>4, <2>5, SendVaultRow
<1>7. ASSUME NEW j \in jobs, SendEmit(j) PROVE Kept'
  <2>1. /\ j \in Jobs("send") /\ j.step = "emit" /\ Jobs("send")' = Jobs("send") \ {j}
        /\ emitted' = emitted \cup {j.of} /\ row' = row /\ faults' = faults
    BY <1>7, SendLeaves
  <2> QED
    BY <1>0, <2>1 DEF Kept
<1> QED
  BY <1>1, <1>2, <1>3, <1>4, <1>5, <1>6, <1>7, Steps, AsideSteps DEF SendStep

LEMMA InitKept == Init => SendsApart /\ Kept
<1> SUFFICES ASSUME Init PROVE SendsApart /\ Kept
  OBVIOUS
<1>1. Jobs("send") = {} /\ emitted = {}
  BY DEF Init, Jobs
<1> QED
  BY <1>1 DEF SendsApart, Kept

\* What the server has stored of this client has its row in the vault, however
\* sends, confirmations, restarts and sign-outs overlap: the row comes first,
\* and only a vault that failed leaves a message without it.
THEOREM SentIsKept == Spec => []StoredIsKept
<1>1. Typed /\ Kept => StoredIsKept
  BY DEF Typed, Kept, StoredIsKept
<1> QED
  BY <1>1, InitTyped, StepTyped, InitKept, StepSendsApart, StepKept, PTL DEF Spec

-----------------------------------------------------------------------------
(***************************************************************************)
(* An event finds its row.                                                 *)
(***************************************************************************)

\* The row of m has the server's id.
Renamed(m) == row[m].id = "server"

\* Whatever refers to a message by the server's id: its row has it by then.
EventsFound == \A m \in Msg : event[m] = "server" => Renamed(m)
NotesFound == \A j \in Jobs("confirm") : j.step = "list" => Renamed(j.of)
EditsFound == \A j \in Jobs("edit") \cup Jobs("delete") : j.id = "server" => Renamed(j.of)
ListFound ==
    \A k \in DOMAIN list : list[k].of \in Msg /\ list[k].id = "server" => Renamed(list[k].of)
RowsFound ==
    \A j \in Jobs("load") : \A e \in j.rows : e.of \in Msg /\ e.id = "server" => Renamed(e.of)

Found ==
    /\ \A m \in Msg : row[m].at = NoContact => ~ Renamed(m)
    /\ \A j \in Jobs("confirm") : j.of \in confirmed
    /\ faults = 0 => EventsFound /\ NotesFound /\ EditsFound /\ ListFound /\ RowsFound

\* No row loses the server's id.
NoneForgets ==
    /\ \A m \in Msg : Renamed(m) => Renamed(m)'
    /\ \A m \in Msg : row'[m].at = NoContact => ~ Renamed(m)'

LEMMA StepRenamed == Typed /\ SendsApart /\ Found /\ [Next]_vars => NoneForgets
<1> SUFFICES ASSUME Typed, SendsApart, Found, [Next]_vars PROVE NoneForgets
  OBVIOUS
<1>1. ASSUME NEW j \in jobs, ConfirmVault(j) PROVE NoneForgets
  BY <1>1, ConfirmVaultRow DEF NoneForgets, Renamed, Found, ConfirmJob
<1>2. ASSUME NEW j \in jobs, StatusVault(j) PROVE NoneForgets
  BY <1>2, StatusVaultRow DEF NoneForgets, Renamed, Found
<1>3. ASSUME NEW j \in jobs, SendVault(j) PROVE NoneForgets
  <2>1. j \in Jobs("send") /\ j \in SendJob /\ j.step = "vault"
    BY <1>3, SendSaves
  <2>2. row[j.of].at = NoContact /\ j.of \in Msg
    BY <2>1 DEF SendsApart, SendJob
  <2>3. ~ Renamed(j.of) /\ \A m \in Msg : row[m].at = NoContact => ~ Renamed(m)
    BY <2>2 DEF Found
  <2>4. /\ \A n \in Msg : n # j.of => row'[n] = row[n]
        /\ row'[j.of].id = "temp" \/ row' = row
    BY <1>3, SendVaultRow
  <2> QED
    BY <2>2, <2>3, <2>4 DEF NoneForgets, Renamed
<1>4. CASE row' = row
  BY <1>4 DEF NoneForgets, Renamed, Found
<1>5. CASE NoteStep
  <2>1. (\E j \in jobs : ConfirmVault(j) \/ StatusVault(j)) \/ row' = row
    BY <1>5 DEF NoteStep, ConfirmArrives, ConfirmList, StatusArrives, StatusList, vaultVars
  <2> QED
    BY <1>1, <1>2, <1>4, <2>1
<1>6. CASE SendStep
  <2>1. (\E j \in jobs : SendVault(j)) \/ row' = row
    BY <1>6 DEF SendStep, Send, SendEmit, vaultVars
  <2> QED
    BY <1>3, <1>4, <2>1
<1>7. CASE EventStep
  BY <1>4, <1>7 DEF EventStep, Edit, Delete, SubmitEdit, CancelEdit, EventEmit, EventVault, EventList,
     vaultVars
<1>8. CASE PlainStep
  BY <1>4, <1>8 DEF PlainStep, Serve, SignIn, SignOut, vars, vaultVars
<1> QED
  BY <1>4, <1>5, <1>6, <1>7, <1>8, InRest, LoadRest, RestartRest, Steps

LEMMA StepConfirmed ==
  ASSUME Typed, Found, [Next]_vars
  PROVE  \A j \in Jobs("confirm")' : j.of \in confirmed'
<1>1. CASE Jobs("confirm")' \subseteq Jobs("confirm") /\ confirmed' = confirmed
  BY <1>1 DEF Found
<1>2. ASSUME NEW m \in Msg, ConfirmArrives(m)
      PROVE  \A j \in Jobs("confirm")' : j.of \in confirmed'
  <2> DEFINE k == [kind |-> "confirm", of |-> m, step |-> "vault"]
  <2>1. k.kind = "confirm" /\ k.of = m /\ Starts(k)
    BY <1>2 DEF ConfirmArrives
  <2> HIDE DEF k
  <2>2. Jobs("confirm")' = Jobs("confirm") \cup {k}
    BY <2>1, StartedKind
  <2>3. confirmed' = confirmed \cup {m}
    BY <1>2 DEF ConfirmArrives
  <2> QED
    BY <2>1, <2>2, <2>3 DEF Found
<1>3. ASSUME NEW j \in jobs, ConfirmVault(j)
      PROVE  \A k \in Jobs("confirm")' : k.of \in confirmed'
  <2>1. j \in ConfirmJob /\ j.kind = "confirm" /\ jobs' = (jobs \ {j}) \cup {After(j, "list")}
    BY <1>3, JobKinds DEF ConfirmVault, Typed, Becomes, After
  <2>2. After(j, "list").kind = "confirm" /\ After(j, "list").of = j.of
    BY <2>1, AfterConfirm
  <2>3. Jobs("confirm")' = (Jobs("confirm") \ {j}) \cup {After(j, "list")} /\ j \in Jobs("confirm")
    BY <2>1, <2>2, OwnKind DEF Jobs
  <2>4. confirmed' = confirmed
    BY <1>3 DEF ConfirmVault, serverVars
  <2> QED
    BY <2>2, <2>3, <2>4 DEF Found
<1>4. ASSUME NEW j \in jobs, ConfirmList(j)
      PROVE  \A k \in Jobs("confirm")' : k.of \in confirmed'
  <2>1. Jobs("confirm")' \subseteq Jobs("confirm") /\ confirmed' = confirmed
    BY <1>4 DEF ConfirmList, Ends, Jobs, serverVars
  <2> QED
    BY <1>1, <2>1
<1>5. ASSUME NEW m \in Msg, StatusArrives(m)
      PROVE  \A k \in Jobs("confirm")' : k.of \in confirmed'
  <2>1. Jobs("confirm")' = Jobs("confirm") /\ confirmed' = confirmed
    BY <1>5, StartedKinds DEF StatusArrives
  <2> QED
    BY <1>1, <2>1
<1>6. ASSUME NEW j \in jobs, StatusVault(j) \/ StatusList(j)
      PROVE  \A k \in Jobs("confirm")' : k.of \in confirmed'
  <2>1. j \in StatusJob /\ j.kind = "status" /\ After(j, "list").kind = "status"
    BY <1>6, JobKinds, AfterStatus DEF StatusVault, StatusList, Typed
  <2>2. jobs' \subseteq jobs \cup {After(j, "list")}
    BY <1>6 DEF StatusVault, StatusList, Becomes, Ends, After
  <2>3. Jobs("confirm")' \subseteq Jobs("confirm") /\ confirmed' = confirmed
    BY <1>6, <2>1, <2>2 DEF Jobs, StatusVault, StatusList, serverVars
  <2> QED
    BY <1>1, <2>3
<1>7. CASE SendStep
  <2>1. confirmed' = confirmed
    BY <1>7, SendBegins, SendSaves, SendLeaves DEF SendStep
  <2> QED
    BY <1>1, <1>7, <2>1, SendKinds
<1>8. CASE InStep \/ LoadStep \/ Restart
  BY <1>1, <1>8, InKinds, InRest, LoadKinds, LoadRest, RestartRest
<1>9. CASE EventStep
  <2>1. confirmed' = confirmed
    BY <1>9 DEF EventStep, Edit, Delete, SubmitEdit, CancelEdit, EventEmit, EventVault, EventList,
       serverVars
  <2> QED
    BY <1>1, <1>9, <2>1, EventKinds
<1>10. CASE PlainStep
  <2>1. jobs' = jobs /\ confirmed' = confirmed
    BY <1>10 DEF PlainStep, Serve, SignIn, SignOut, vars, serverVars
  <2> QED
    BY <1>1, <2>1 DEF Jobs
<1> QED
  BY <1>2, <1>3, <1>4, <1>5, <1>6, <1>7, <1>8, <1>9, <1>10, Steps DEF NoteStep

LEMMA StepEventsFound ==
  ASSUME Typed, EventsFound, EditsFound, NoneForgets, [Next]_vars
  PROVE  EventsFound'
<1>1. CASE event' = event
  BY <1>1 DEF EventsFound, NoneForgets
<1>2. ASSUME NEW j \in jobs, EventVault(j) PROVE EventsFound'
  <2>1. j \in EventJob /\ j \in Jobs("edit") \cup Jobs("delete")
    BY <1>2, JobKinds DEF EventVault, Typed, Jobs
  <2>2. event' = event \/ event' = [event EXCEPT ![j.of] = j.id]
    BY <1>2 DEF EventVault
  <2>3. j.id = "server" => Renamed(j.of)
    BY <2>1 DEF EditsFound
  <2>4. \A m \in Msg : event'[m] = "server" => Renamed(m)
    BY <2>1, <2>2, <2>3 DEF EventsFound, Typed
  <2> QED
    BY <2>4 DEF EventsFound, NoneForgets
<1>3. EventStep => (\E j \in jobs : EventVault(j)) \/ event' = event
  BY DEF EventStep, Edit, Delete, SubmitEdit, CancelEdit, EventEmit, EventList, vaultVars
<1>4. NoteStep => event' = event
  BY DEF NoteStep, ConfirmArrives, StatusArrives, ConfirmVault, ConfirmList, StatusVault, StatusList,
     vaultVars
<1>5. PlainStep => event' = event
  BY DEF PlainStep, Serve, SignIn, SignOut, vars, vaultVars
<1>6. SendStep => event' = event
  BY SendBegins, SendSaves, SendLeaves DEF SendStep
<1> QED
  BY <1>1, <1>2, <1>3, <1>4, <1>5, <1>6, InRest, LoadRest, RestartRest, Steps

LEMMA StepNotesFound ==
  ASSUME Typed, Kept, Found, faults = 0, faults' = 0, NoneForgets, [Next]_vars
  PROVE  NotesFound'
<1>1. \A j \in Jobs("confirm") : j.of \in Msg
  BY JobKinds DEF Jobs, Typed, ConfirmJob
<1>2. CASE Jobs("confirm")' \subseteq Jobs("confirm")
  BY <1>1, <1>2 DEF Found, NotesFound, NoneForgets
<1>3. ASSUME NEW m \in Msg, ConfirmArrives(m) PROVE NotesFound'
  <2> DEFINE k == [kind |-> "confirm", of |-> m, step |-> "vault"]
  <2>1. k.kind = "confirm" /\ k.step = "vault" /\ Starts(k)
    BY <1>3 DEF ConfirmArrives
  <2> HIDE DEF k
  <2>2. Jobs("confirm")' = Jobs("confirm") \cup {k}
    BY <2>1, StartedKind
  <2> QED
    BY <1>1, <2>1, <2>2 DEF Found, NotesFound, NoneForgets
<1>4. ASSUME NEW j \in jobs, ConfirmVault(j) PROVE NotesFound'
  <2>1. j \in ConfirmJob /\ j.kind = "confirm" /\ jobs' = (jobs \ {j}) \cup {After(j, "list")}
    BY <1>4, JobKinds DEF ConfirmVault, Typed, Becomes, After
  <2>2. After(j, "list").kind = "confirm" /\ After(j, "list").of = j.of
    BY <2>1, AfterConfirm
  <2>3. Jobs("confirm")' = (Jobs("confirm") \ {j}) \cup {After(j, "list")} /\ j \in Jobs("confirm")
    BY <2>1, <2>2, OwnKind DEF Jobs
  <2>4. row[j.of].at # NoContact /\ j.of \in Msg
    BY <1>1, <2>3 DEF Found, Typed, Kept
  <2>5. row'[j.of].id = "server"
    BY <1>4, <2>4, ConfirmVaultRow
  <2> QED
    BY <1>1, <2>2, <2>3, <2>5 DEF Found, NotesFound, NoneForgets, Renamed
<1>5. ASSUME NEW j \in jobs, ConfirmList(j) PROVE NotesFound'
  <2>1. Jobs("confirm")' \subseteq Jobs("confirm")
    BY <1>5 DEF ConfirmList, Ends, Jobs
  <2> QED
    BY <1>2, <2>1
<1>6. ASSUME NEW m \in Msg, StatusArrives(m) PROVE NotesFound'
  BY <1>2, <1>6, StartedKinds DEF StatusArrives
<1>7. ASSUME NEW j \in jobs, StatusVault(j) \/ StatusList(j) PROVE NotesFound'
  <2>1. j \in StatusJob /\ j.kind = "status" /\ After(j, "list").kind = "status"
    BY <1>7, JobKinds, AfterStatus DEF StatusVault, StatusList, Typed
  <2>2. jobs' \subseteq jobs \cup {After(j, "list")}
    BY <1>7 DEF StatusVault, StatusList, Becomes, Ends, After
  <2>3. Jobs("confirm")' \subseteq Jobs("confirm")
    BY <2>1, <2>2 DEF Jobs
  <2> QED
    BY <1>2, <2>3
<1>8. CASE SendStep \/ InStep \/ LoadStep \/ EventStep \/ Restart
  BY <1>2, <1>8, SendKinds, InKinds, LoadKinds, EventKinds, RestartRest
<1>9. CASE PlainStep
  <2>1. jobs' = jobs
    BY <1>9 DEF PlainStep, Serve, SignIn, SignOut, vars
  <2> QED
    BY <1>2, <2>1 DEF Jobs
<1> QED
  BY <1>3, <1>4, <1>5, <1>6, <1>7, <1>8, <1>9, Steps DEF NoteStep

LEMMA StepEditsFound ==
  ASSUME Typed, EditsFound, ListFound, NoneForgets, [Next]_vars
  PROVE  EditsFound'
<1> DEFINE All == Jobs("edit") \cup Jobs("delete")
<1>1. \A j \in All : j.of \in Msg
  BY JobKinds DEF Jobs, Typed, EventJob
<1>2. CASE All' \subseteq All
  BY <1>1, <1>2 DEF EditsFound, NoneForgets
<1>3. ASSUME NEW n \in DOMAIN list, Edit(n) \/ Delete(n) PROVE EditsFound'
  <2>1. \E k : jobs' = jobs \cup {k} /\ k.of = list[n].of /\ k.id = list[n].id
    <3> DEFINE k(kind, step) == [kind |-> kind, of |-> list[n].of, id |-> list[n].id, step |-> step]
    <3>1. \A kind, step : k(kind, step).of = list[n].of /\ k(kind, step).id = list[n].id
      OBVIOUS
    <3>2. \E kind, step : jobs' = jobs \cup {k(kind, step)}
      BY <1>3 DEF Edit, Delete, Starts
    <3> HIDE DEF k
    <3> QED
      BY <3>1, <3>2
  <2>2. PICK k : jobs' = jobs \cup {k} /\ k.of = list[n].of /\ k.id = list[n].id
    BY <2>1
  <2>3. list[n].of \in Msg
    BY <1>3 DEF Edit, Delete, Menu
  <2>4. \A j \in All' : j \in All \/ j = k
    BY <2>2 DEF Jobs
  <2> QED
    BY <1>1, <2>2, <2>3, <2>4 DEF EditsFound, ListFound, NoneForgets
<1>4. ASSUME NEW j \in jobs,
             SubmitEdit(j) \/ CancelEdit(j) \/ EventEmit(j) \/ EventVault(j) \/ EventList(j)
      PROVE  EditsFound'
  <2>1. j \in EventJob /\ j \in All
    BY <1>4, JobKinds DEF SubmitEdit, CancelEdit, EventEmit, EventVault, EventList, Typed, Jobs
  <2>2. \E s \in {"emit", "vault", "list"} : jobs' \subseteq jobs \cup {After(j, s)}
    BY <1>4 DEF SubmitEdit, CancelEdit, EventEmit, EventVault, EventList, Becomes, Ends, After
  <2>3. PICK s \in {"emit", "vault", "list"} : jobs' \subseteq jobs \cup {After(j, s)}
    BY <2>2
  <2>4. After(j, s).of = j.of /\ After(j, s).id = j.id
    BY <2>1, AfterEvent
  <2>5. \A k \in All' : k \in All \/ k = After(j, s)
    BY <2>3 DEF Jobs
  <2> QED
    BY <1>1, <2>1, <2>4, <2>5 DEF EditsFound, NoneForgets
<1>5. CASE SendStep \/ InStep \/ LoadStep \/ NoteStep \/ Restart
  <2>1. Jobs("edit")' \subseteq Jobs("edit") /\ Jobs("delete")' \subseteq Jobs("delete")
    BY <1>5, SendKinds, InKinds, LoadKinds, NoteKinds, RestartRest
  <2> QED
    BY <1>2, <2>1
<1>6. CASE PlainStep
  <2>1. jobs' = jobs
    BY <1>6 DEF PlainStep, Serve, SignIn, SignOut, vars
  <2> QED
    BY <1>2, <2>1 DEF Jobs
<1> QED
  BY <1>3, <1>4, <1>5, <1>6, Steps DEF EventStep

LEMMA StepListFound ==
  ASSUME Typed, NotesFound, ListFound, RowsFound, NoneForgets, [Next]_vars
  PROVE  ListFound'
<1>1. \A k \in DOMAIN list : list[k] \in Entry
  BY DEF Typed
<1>2. CASE list' = list
  BY <1>2 DEF ListFound, NoneForgets
<1>3. CASE list' = <<>>
  BY <1>3 DEF ListFound
<1>4. ASSUME NEW j \in jobs, ConfirmList(j) PROVE ListFound'
  <2>1. j \in ConfirmJob /\ j \in Jobs("confirm") /\ j.step = "list"
    BY <1>4, JobKinds DEF ConfirmList, Typed, Jobs
  <2>2. Renamed(j.of)
    BY <2>1 DEF NotesFound
  <2>3. /\ DOMAIN list' = DOMAIN list
        /\ \A k \in DOMAIN list : /\ list'[k].of = list[k].of
                                  /\ list'[k].id = list[k].id \/ list[k].of = j.of
    BY <1>1, <1>4, EntryChanges DEF ConfirmList, Id, St
  <2> QED
    BY <2>1, <2>2, <2>3 DEF ListFound, NoneForgets
<1>5. ASSUME NEW j \in jobs, StatusList(j) \/ EventList(j) PROVE ListFound'
  <2>1. /\ DOMAIN list' = DOMAIN list
        /\ \A k \in DOMAIN list : list'[k].of = list[k].of /\ list'[k].id = list[k].id
    <3>1. CASE StatusList(j)
      BY <1>1, <3>1, EntryChanges DEF StatusList, Id, St
    <3>2. CASE EventList(j)
      BY <1>1, <3>2, EntryChanges DEF EventList, Id, St
    <3> QED
      BY <1>5, <3>1, <3>2
  <2> QED
    BY <2>1 DEF ListFound, NoneForgets
<1>6. ASSUME NEW j \in jobs, SendEmit(j) PROVE ListFound'
  <2> DEFINE e == [of |-> j.of, id |-> "temp", st |-> "sending", changed |-> FALSE]
  <2>1. e.id = "temp" /\ list' = Append(list, e)
    BY <1>6, SendLeaves
  <2> HIDE DEF e
  <2>2. \A k \in DOMAIN list' : list'[k] = e \/ (k \in DOMAIN list /\ list'[k] = list[k])
    BY <2>1 DEF Typed
  <2> QED
    BY <2>1, <2>2 DEF ListFound, NoneForgets
<1>7. ASSUME NEW j \in jobs, Show(j) PROVE ListFound'
  <2>1. j \in LoadJob /\ j \in Jobs("load")
    BY <1>7, JobKinds DEF Show, Typed, Jobs
  <2>2. j.rows \in SUBSET Entry /\ IsFiniteSet(j.rows)
    BY <2>1 DEF Typed, LoadJob
  <2>3. list' = <<>> \/ \A k \in DOMAIN list' : list'[k] \in j.rows
    BY <1>7, <2>2, ListOf DEF Show
  <2> QED
    BY <1>3, <2>1, <2>3 DEF ListFound, RowsFound, NoneForgets
<1>8. NoteStep => (\E j \in jobs : ConfirmList(j) \/ StatusList(j)) \/ list' = list
  BY DEF NoteStep, ConfirmArrives, StatusArrives, ConfirmVault, StatusVault, screenVars
<1>9. EventStep => (\E j \in jobs : EventList(j)) \/ list' = list
  BY DEF EventStep, Edit, Delete, SubmitEdit, CancelEdit, EventEmit, EventVault, screenVars
<1>10. SendStep => (\E j \in jobs : SendEmit(j)) \/ list' = list
  BY DEF SendStep, Send, SendVault, screenVars
<1>11. LoadStep => (\E j \in jobs : Show(j)) \/ list' = list
  BY DEF LoadStep, Open, Select, Keys, screenVars
<1>12. PlainStep => list' = list \/ list' = <<>>
  BY DEF PlainStep, Serve, SignIn, SignOut, vars, screenVars
<1> QED
  BY <1>2, <1>3, <1>4, <1>5, <1>6, <1>7, <1>8, <1>9, <1>10, <1>11, <1>12, InRest, RestartRest, Steps

\* The steps of a load, in terms of the loads.
LEMMA LoadBegins ==
  ASSUME Typed, NEW c \in Contact, Open(c)
  PROVE  /\ \E k : /\ Jobs("load")' = Jobs("load") \cup {k}
                   /\ k.at = c /\ k.step = "select" /\ k.rows = {}
         /\ active' = c /\ unread'[c] = 0 /\ list' = list /\ loaded' = loaded
         /\ crossed' = (Jobs("load") # {} \/ Jobs("send") # {})
<1> DEFINE k == [kind |-> "load", at |-> c, no |-> opens', step |-> "select", rows |-> {}]
<1>1. k.kind = "load" /\ k.at = c /\ k.step = "select" /\ k.rows = {}
  OBVIOUS
<1>2. Starts(k)
  BY DEF Open
<1> HIDE DEF k
<1>3. Jobs("load")' = Jobs("load") \cup {k}
  BY <1>1, <1>2, StartedKind
<1>4. active' = c /\ unread'[c] = 0 /\ list' = list /\ loaded' = loaded
  BY DEF Open, Typed
<1>5. crossed' = (Jobs("load") # {} \/ Jobs("send") # {})
  BY DEF Open, Works, Jobs
<1> QED
  BY <1>1, <1>3, <1>4, <1>5

LEMMA LoadReads ==
  ASSUME Typed, NEW j \in jobs, Select(j)
  PROVE  /\ j \in Jobs("load") /\ j \in LoadJob /\ j.step = "select"
         /\ \E k : /\ Jobs("load")' = (Jobs("load") \ {j}) \cup {k}
                   /\ k.at = j.at /\ k.step = "show" /\ k.rows = History(j.at)
         /\ UNCHANGED <<active, unread, list, loaded, crossed, faults>>
<1>1. j \in LoadJob /\ j.kind = "load" /\ j.step = "select"
  BY JobKinds DEF Select, Typed
<1>2. History(j.at) \subseteq Entry
  BY HistoryTyped DEF Typed
<1>3. /\ Loaded(j).kind = "load" /\ Loaded(j).at = j.at /\ Loaded(j).step = "show"
      /\ Loaded(j).rows = History(j.at)
  BY <1>1, <1>2, LoadedJob
<1>4. jobs' = (jobs \ {j}) \cup {Loaded(j)}
  BY DEF Select, Loaded
<1>5. Jobs("load")' = (Jobs("load") \ {j}) \cup {Loaded(j)} /\ j \in Jobs("load")
  BY <1>1, <1>3, <1>4, OwnKind DEF Jobs
<1>6. UNCHANGED <<active, unread, list, loaded, crossed, faults>>
  BY DEF Select, screenVars, boundVars
<1> QED
  BY <1>1, <1>3, <1>5, <1>6

LEMMA LoadShows ==
  ASSUME Typed, NEW j \in jobs, Show(j)
  PROVE  /\ j \in Jobs("load") /\ j \in LoadJob /\ j.step = "show"
         /\ \E k : /\ Jobs("load")' = (Jobs("load") \ {j}) \cup {k}
                   /\ k.at = j.at /\ k.step = "keys" /\ k.rows = j.rows
         /\ UNCHANGED <<active, unread, crossed>>
         /\ \/ list' = SetToSeq(j.rows) /\ loaded' = j.at /\ faults' = faults
            \/ faults' = faults + 1
<1>1. j \in LoadJob /\ j.kind = "load" /\ j.step = "show"
  BY JobKinds DEF Show, Typed
<1>2. /\ After(j, "keys").kind = "load" /\ After(j, "keys").at = j.at
      /\ After(j, "keys").step = "keys" /\ After(j, "keys").rows = j.rows
  BY <1>1, AfterLoad
<1>3. jobs' = (jobs \ {j}) \cup {After(j, "keys")}
  BY DEF Show, Becomes, After
<1>4. Jobs("load")' = (Jobs("load") \ {j}) \cup {After(j, "keys")} /\ j \in Jobs("load")
  BY <1>1, <1>2, <1>3, OwnKind DEF Jobs
<1>5. UNCHANGED <<active, unread, crossed>>
  BY DEF Show
<1>6. \/ list' = SetToSeq(j.rows) /\ loaded' = j.at /\ faults' = faults
      \/ faults' = faults + 1
  BY DEF Show, Fault
<1> QED
  BY <1>1, <1>2, <1>4, <1>5, <1>6

LEMMA LoadEnds ==
  ASSUME Typed, NEW j \in jobs, Keys(j)
  PROVE  /\ j \in Jobs("load") /\ j.step = "keys" /\ Jobs("load")' = Jobs("load") \ {j}
         /\ UNCHANGED <<active, unread, list, loaded, crossed>>
<1>1. j.kind = "load" /\ j.step = "keys" /\ jobs' = jobs \ {j}
  BY DEF Keys, Ends
<1>2. Jobs("load")' = Jobs("load") \ {j} /\ j \in Jobs("load")
  BY <1>1, OwnKind DEF Jobs
<1> QED
  BY <1>1, <1>2 DEF Keys

\* What the history holds.
LEMMA HistoryHolds ==
  ASSUME Typed, NEW c \in Contact
  PROVE  /\ \A m \in Msg : (\E e \in History(c) : e.of = m) <=> row[m].at = c
         /\ \A i \in In : (\E e \in History(c) : e.of = i) <=> got[i] = c
         /\ \A e, f \in History(c) : e.of = f.of => e = f
         /\ \A e \in History(c) : e.of \in Msg => e.id = row[e.of].id
<1>1. History(c) = { OwnRow(m) : m \in OwnOf(c) } \cup { InRow(i) : i \in InOf(c) }
  BY DEF History, OwnRow, InRow, OwnOf, InOf
<1>2. \A m \in Msg : OwnRow(m).of = m /\ OwnRow(m).id = row[m].id
  BY DEF OwnRow
<1>3. \A i \in In : InRow(i).of = i
  BY DEF InRow
<1>4. Msg \cap In = {}
  BY OutboxAssumption
<1>5. OwnOf(c) \subseteq Msg /\ InOf(c) \subseteq In
  BY DEF OwnOf, InOf
<1>6. \A e \in History(c) : \/ e.of \in OwnOf(c) /\ e = OwnRow(e.of)
                            \/ e.of \in InOf(c) /\ e = InRow(e.of)
  BY <1>1, <1>2, <1>3, <1>5
<1>7. \A m \in OwnOf(c) : OwnRow(m) \in History(c) /\ OwnRow(m).of = m
  BY <1>1, <1>2, <1>5
<1>8. \A i \in InOf(c) : InRow(i) \in History(c) /\ InRow(i).of = i
  BY <1>1, <1>3, <1>5
<1>9. \A e, f \in History(c) : e.of = f.of => e = f
  BY <1>4, <1>5, <1>6
<1>10. \A e \in History(c) : e.of \in Msg => e.id = row[e.of].id
  BY <1>2, <1>4, <1>5, <1>6
<1>11. \A m \in Msg : (\E e \in History(c) : e.of = m) <=> row[m].at = c
  BY <1>4, <1>5, <1>6, <1>7 DEF OwnOf
<1>12. \A i \in In : (\E e \in History(c) : e.of = i) <=> got[i] = c
  BY <1>4, <1>5, <1>6, <1>8 DEF InOf
<1> QED
  BY <1>9, <1>10, <1>11, <1>12

LEMMA StepRowsFound ==
  ASSUME Typed, RowsFound, NoneForgets, [Next]_vars
  PROVE  RowsFound'
<1>1. CASE Jobs("load")' \subseteq Jobs("load")
  BY <1>1 DEF RowsFound, NoneForgets
<1>2. ASSUME NEW c \in Contact, Open(c) PROVE RowsFound'
  BY <1>2, LoadBegins DEF RowsFound, NoneForgets
<1>3. ASSUME NEW j \in jobs, Select(j) PROVE RowsFound'
  <2>1. /\ j \in LoadJob
        /\ \E k : /\ Jobs("load")' = (Jobs("load") \ {j}) \cup {k}
                  /\ k.rows = History(j.at)
    BY <1>3, LoadReads
  <2>2. \A e \in History(j.at) : e.of \in Msg => e.id = row[e.of].id
    BY <2>1, HistoryHolds DEF LoadJob
  <2> QED
    BY <2>1, <2>2 DEF RowsFound, NoneForgets, Renamed
<1>4. ASSUME NEW j \in jobs, Show(j) PROVE RowsFound'
  BY <1>4, LoadShows DEF RowsFound, NoneForgets
<1>5. ASSUME NEW j \in jobs, Keys(j) PROVE RowsFound'
  BY <1>1, <1>5, LoadEnds
<1>6. CASE SendStep \/ InStep \/ Restart
  BY <1>1, <1>6, SendKinds, InKinds, RestartRest
<1>7. CASE NoteStep \/ EventStep \/ PlainStep
  BY <1>1, <1>7, AsideSteps DEF Aside
<1> QED
  BY <1>2, <1>3, <1>4, <1>5, <1>6, <1>7, Steps DEF LoadStep

LEMMA FaultsGrow == Typed /\ [Next]_vars => faults' >= faults
<1> SUFFICES ASSUME Typed, [Next]_vars PROVE faults' >= faults
  OBVIOUS
<1>1. NoteStep \/ EventStep \/ PlainStep => faults' >= faults
  BY AsideSteps DEF Aside
<1>2. SendStep => faults' >= faults
  BY SendFaults
<1>3. InStep \/ LoadStep => faults' >= faults
  BY InRest, LoadRest
<1>4. Restart => faults' >= faults
  <2>1. Restart => faults' = faults
    BY RestartRest
  <2> QED
    BY <2>1 DEF Typed
<1> QED
  BY <1>1, <1>2, <1>3, <1>4, Steps

LEMMA StepFound == Typed /\ SendsApart /\ Kept /\ Found /\ [Next]_vars => Found'
<1> SUFFICES ASSUME Typed, SendsApart, Kept, Found, [Next]_vars PROVE Found'
  OBVIOUS
<1>1. NoneForgets
  BY StepRenamed
<1>2. \A j \in Jobs("confirm")' : j.of \in confirmed'
  BY StepConfirmed
<1>3. ASSUME faults' = 0
      PROVE  (EventsFound /\ NotesFound /\ EditsFound /\ ListFound /\ RowsFound)'
  <2>1. faults = 0
    BY <1>3, FaultsGrow DEF Typed
  <2>2. EventsFound /\ NotesFound /\ EditsFound /\ ListFound /\ RowsFound
    BY <2>1 DEF Found
  <2> QED
    BY <1>1, <1>3, <2>1, <2>2, StepEventsFound, StepNotesFound, StepEditsFound, StepListFound,
       StepRowsFound
<1> QED
  BY <1>1, <1>2, <1>3 DEF Found, NoneForgets

LEMMA InitFound == Init => Found
<1> SUFFICES ASSUME Init PROVE Found
  OBVIOUS
<1>1. \A kind : Jobs(kind) = {}
  BY DEF Init, Jobs
<1>2. \A m \in Msg : ~ Renamed(m) /\ event[m] = "none"
  BY DEF Init, NoRow, Renamed
<1>3. DOMAIN list = {}
  BY DEF Init
<1> QED
  BY <1>1, <1>2, <1>3 DEF Found, EventsFound, NotesFound, EditsFound, ListFound, RowsFound

\* An edit or a deletion that was recorded under the server's id finds its row,
\* wherever the confirmation fell between the menu, the frame and the vault.
THEOREM EventsMeetRows == Spec => []EventFindsRow
<1>1. Found => EventFindsRow
  BY DEF Found, EventsFound, Renamed, EventFindsRow
<1> QED
  BY <1>1, InitTyped, StepTyped, InitKept, StepSendsApart, StepKept, InitFound, StepFound,
     PTL DEF Spec

-----------------------------------------------------------------------------
(***************************************************************************)
(* What is on the screen, and what the badge counts.                       *)
(***************************************************************************)

\* A message that arrives is handled once: the vault has it from its first step.
InsApart ==
    /\ \A j, k \in Jobs("in") : j.of = k.of => j = k
    /\ \A j \in Jobs("in") : got[j.of] = IF j.step = "vault" THEN NoContact ELSE j.at

LEMMA InArrives ==
  ASSUME Typed, NEW i \in In, NEW c \in Contact, MessageArrives(i, c)
  PROVE  /\ \E k : /\ Jobs("in")' = Jobs("in") \cup {k}
                   /\ k.of = i /\ k.at = c /\ k.step = "vault"
         /\ got[i] = NoContact /\ \A j \in Jobs("in") : j.of # i
         /\ got' = got /\ unread' = unread
<1> DEFINE k == [kind |-> "in", of |-> i, at |-> c, step |-> "vault"]
<1>1. k.kind = "in" /\ k.of = i /\ k.at = c /\ k.step = "vault"
  OBVIOUS
<1>2. Starts(k)
  BY DEF MessageArrives
<1> HIDE DEF k
<1>3. Jobs("in")' = Jobs("in") \cup {k}
  BY <1>1, <1>2, StartedKind
<1>4. got[i] = NoContact /\ (\A j \in Jobs("in") : j.of # i) /\ got' = got /\ unread' = unread
  BY DEF MessageArrives, Jobs, vaultVars, screenVars
<1> QED
  BY <1>1, <1>3, <1>4

LEMMA InSaves ==
  ASSUME Typed, NEW j \in jobs, InVault(j)
  PROVE  /\ j \in Jobs("in") /\ j \in InJob /\ j.step = "vault"
         /\ \/ \E k : /\ Jobs("in")' = (Jobs("in") \ {j}) \cup {k}
                      /\ k.of = j.of /\ k.at = j.at /\ k.step = "count"
                      /\ got' = [got EXCEPT ![j.of] = j.at]
            \/ Jobs("in")' = Jobs("in") \ {j} /\ got' = got /\ faults' = faults + 1
         /\ unread' = unread
<1>1. j \in InJob /\ j.kind = "in" /\ j.step = "vault"
  BY JobKinds DEF InVault, Typed
<1>2. /\ After(j, "count").kind = "in" /\ After(j, "count").of = j.of
      /\ After(j, "count").at = j.at /\ After(j, "count").step = "count"
  BY <1>1, AfterIn
<1>3. \/ jobs' = (jobs \ {j}) \cup {After(j, "count")} /\ got' = [got EXCEPT ![j.of] = j.at]
      \/ jobs' = jobs \ {j} /\ got' = got /\ faults' = faults + 1
  BY DEF InVault, Becomes, Ends, After, Fault
<1>4. \/ /\ Jobs("in")' = (Jobs("in") \ {j}) \cup {After(j, "count")}
         /\ got' = [got EXCEPT ![j.of] = j.at]
      \/ Jobs("in")' = Jobs("in") \ {j} /\ got' = got /\ faults' = faults + 1
  BY <1>1, <1>2, <1>3, OwnKind
<1>5. unread' = unread /\ j \in Jobs("in")
  BY <1>1 DEF InVault, screenVars, Jobs
<1> QED
  BY <1>1, <1>2, <1>4, <1>5

LEMMA InCounts ==
  ASSUME Typed, NEW j \in jobs, InCount(j)
  PROVE  /\ j \in Jobs("in") /\ j \in InJob /\ j.step = "count"
         /\ Jobs("in")' = Jobs("in") \ {j} /\ got' = got
         /\ unread' = [unread EXCEPT ![j.at] = unread[j.at] + 1]
<1>1. j \in InJob /\ j.kind = "in" /\ j.step = "count" /\ jobs' = jobs \ {j}
  BY JobKinds DEF InCount, Typed, Ends
<1>2. Jobs("in")' = Jobs("in") \ {j} /\ j \in Jobs("in")
  BY <1>1, OwnKind DEF Jobs
<1> QED
  BY <1>1, <1>2 DEF InCount, vaultVars

LEMMA StepInsApart == Typed /\ InsApart /\ [Next]_vars => InsApart'
<1> SUFFICES ASSUME Typed, InsApart, [Next]_vars PROVE InsApart'
  OBVIOUS
<1>0. \A j \in Jobs("in") : j.of \in In
  BY JobKinds DEF Jobs, Typed, InJob
<1>1. CASE Jobs("in")' = Jobs("in") /\ got' = got
  BY <1>1 DEF InsApart
<1>2. ASSUME NEW i \in In, NEW c \in Contact, MessageArrives(i, c) PROVE InsApart'
  BY <1>2, InArrives DEF InsApart
<1>3. ASSUME NEW j \in jobs, InVault(j) PROVE InsApart'
  <2>1. j \in Jobs("in") /\ j \in InJob /\ \A k \in Jobs("in") : k # j => k.of # j.of
    BY <1>3, InSaves DEF InsApart
  <2>2. CASE Jobs("in")' = Jobs("in") \ {j} /\ got' = got
    BY <2>2 DEF InsApart
  <2>3. ASSUME NEW k, Jobs("in")' = (Jobs("in") \ {j}) \cup {k},
               k.of = j.of, k.at = j.at, k.step = "count",
               got' = [got EXCEPT ![j.of] = j.at]
        PROVE  InsApart'
    <3>1. got'[k.of] = k.at
      BY <2>1, <2>3 DEF InJob, Typed
    <3>2. \A n \in Jobs("in") \ {j} : got'[n.of] = got[n.of]
      BY <1>0, <2>1, <2>3 DEF Typed
    <3> QED
      BY <2>1, <2>3, <3>1, <3>2 DEF InsApart
  <2> QED
    BY <1>3, <2>2, <2>3, InSaves
<1>4. ASSUME NEW j \in jobs, InCount(j) PROVE InsApart'
  BY <1>4, InCounts DEF InsApart
<1>5. CASE SendStep
  <2>1. got' = got
    BY <1>5, SendBegins, SendSaves, SendLeaves DEF SendStep
  <2> QED
    BY <1>1, <1>5, <2>1, SendKinds
<1>6. CASE LoadStep
  BY <1>1, <1>6, LoadKinds, LoadRest
<1>7. CASE NoteStep \/ EventStep \/ PlainStep
  BY <1>1, <1>7, AsideSteps DEF Aside
<1>8. CASE Restart
  BY <1>8, RestartRest DEF InsApart
<1> QED
  BY <1>2, <1>3, <1>4, <1>5, <1>6, <1>7, <1>8, Steps DEF InStep

\* Unless loads and sends have overlapped: what is under way is of the active
\* contact, and a load is alone.
LoadAlone ==
    ~ crossed =>
      /\ \A j \in Jobs("load") \cup Jobs("send") : j.at = active
      /\ \A j \in Jobs("load") : Jobs("load") = {j} /\ Jobs("send") = {}

LEMMA StepLoadAlone == Typed /\ LoadAlone /\ [Next]_vars => LoadAlone'
<1> SUFFICES ASSUME Typed, LoadAlone, [Next]_vars PROVE LoadAlone'
  OBVIOUS
<1>1. CASE /\ Jobs("load")' = Jobs("load") /\ Jobs("send")' = Jobs("send")
           /\ UNCHANGED <<active, crossed>>
  BY <1>1 DEF LoadAlone
<1>2. ASSUME NEW m \in Msg, Send(m) PROVE LoadAlone'
  <2>1. SendStep
    BY <1>2 DEF SendStep
  <2>2. Jobs("load")' = Jobs("load")
    BY <2>1, SendKinds
  <2>3. /\ \E k : Jobs("send")' = Jobs("send") \cup {k} /\ k.at = active
        /\ active' = active /\ crossed' = (crossed \/ Jobs("load") # {})
    BY <1>2, SendBegins
  <2>4. CASE ~ crossed'
    <3>1. ~ crossed /\ Jobs("load") = {}
      BY <2>3, <2>4
    <3> QED
      BY <2>2, <2>3, <3>1 DEF LoadAlone
  <2> QED
    BY <2>4 DEF LoadAlone
<1>3. ASSUME NEW j \in jobs, SendVault(j) PROVE LoadAlone'
  <2>1. SendStep
    BY <1>3 DEF SendStep
  <2>2. Jobs("load")' = Jobs("load")
    BY <2>1, SendKinds
  <2> QED
    BY <1>3, <2>2, SendSaves DEF LoadAlone
<1>4. ASSUME NEW j \in jobs, SendEmit(j) PROVE LoadAlone'
  <2>1. SendStep
    BY <1>4 DEF SendStep
  <2>2. Jobs("load")' = Jobs("load")
    BY <2>1, SendKinds
  <2> QED
    BY <1>4, <2>2, SendLeaves DEF LoadAlone
<1>5. ASSUME NEW c \in Contact, Open(c) PROVE LoadAlone'
  <2>1. LoadStep
    BY <1>5 DEF LoadStep
  <2>2. Jobs("send")' = Jobs("send")
    BY <2>1, LoadKinds
  <2>3. /\ \E k : Jobs("load")' = Jobs("load") \cup {k} /\ k.at = c
        /\ active' = c /\ crossed' = (Jobs("load") # {} \/ Jobs("send") # {})
    BY <1>5, LoadBegins
  <2>4. CASE ~ crossed'
    <3>1. Jobs("load") = {} /\ Jobs("send") = {}
      BY <2>3, <2>4
    <3> QED
      BY <2>2, <2>3, <3>1 DEF LoadAlone
  <2> QED
    BY <2>4 DEF LoadAlone
<1>6. ASSUME NEW j \in jobs, Select(j) \/ Show(j) \/ Keys(j) PROVE LoadAlone'
  <2>1. LoadStep
    BY <1>6 DEF LoadStep
  <2>2. Jobs("send")' = Jobs("send")
    BY <2>1, LoadKinds
  <2>3. /\ j \in Jobs("load") /\ UNCHANGED <<active, crossed>>
        /\ \E k : k.at = j.at /\ Jobs("load")' \subseteq (Jobs("load") \ {j}) \cup {k}
    <3>1. CASE Select(j)
      BY <3>1, LoadReads
    <3>2. CASE Show(j)
      BY <3>2, LoadShows
    <3>3. CASE Keys(j)
      BY <3>3, LoadEnds
    <3> QED
      BY <1>6, <3>1, <3>2, <3>3
  <2> QED
    BY <2>2, <2>3 DEF LoadAlone
<1>7. CASE InStep
  BY <1>1, <1>7, InKinds, InRest
<1>8. CASE NoteStep \/ EventStep \/ PlainStep
  BY <1>1, <1>8, AsideSteps DEF Aside
<1>9. CASE Restart
  BY <1>9, RestartRest DEF LoadAlone
<1> QED
  BY <1>2, <1>3, <1>4, <1>5, <1>6, <1>7, <1>8, <1>9, Steps DEF SendStep, LoadStep

LEMMA InitAlone == Init => InsApart /\ LoadAlone
<1> SUFFICES ASSUME Init PROVE InsApart /\ LoadAlone
  OBVIOUS
<1>1. \A kind : Jobs(kind) = {}
  BY DEF Init, Jobs
<1> QED
  BY <1>1 DEF InsApart, LoadAlone

Showing(x) == \E k \in DOMAIN list : list[k].of = x
Emitting(m) == \E j \in Jobs("send") : j.step = "emit" /\ j.of = m

\* What arrived and waits to be counted; what the badge has to answer for, of the
\* messages of the open conversation that a set of rows, or the screen, is without.
Uncounted == { i \in In : \E j \in Jobs("in") : j.step = "count" /\ j.of = i }
Due == { i \in In \ Uncounted : got[i] = active }
InRows(rows) == { i \in In : \E e \in rows : e.of = i }
Shown == { i \in In : Showing(i) }

\* What a load has read is the history but for what was counted since.
RowsRight(rows) ==
    /\ \A e, f \in rows : e.of = f.of => e = f
    /\ \A m \in Msg : (\E e \in rows : e.of = m) <=> row[m].at = active
    /\ Cardinality(Due \ InRows(rows)) <= unread[active]
RowsSeen == \A j \in Jobs("load") : j.step = "show" => RowsRight(j.rows)

\* What the screen shows is the history but for what is being sent or was counted
\* since.
OnceShown == \A k, l \in DOMAIN list : list[k].of \in Msg /\ list[k].of = list[l].of => k = l
OwnShown == \A m \in Msg : Showing(m) <=> row[m].at = active /\ ~ Emitting(m)
ListRight == OnceShown /\ OwnShown /\ Cardinality(Due \ Shown) <= unread[active]
ListSeen == loaded = active /\ (\A j \in Jobs("load") : j.step = "keys") => ListRight

Seen == ~ crossed /\ faults = 0 /\ active # NoContact => RowsSeen /\ ListSeen

\* The badge's sets are finite, and one that loses its members loses its number.
LEMMA FewerDue ==
  ASSUME NEW S \in SUBSET In, NEW T \in SUBSET S
  PROVE  /\ Cardinality(T) \in Nat /\ Cardinality(S) \in Nat
         /\ Cardinality(T) <= Cardinality(S)
<1>1. IsFiniteSet(S)
  BY OutboxAssumption, FS_Subset
<1>2. IsFiniteSet(T) /\ Cardinality(T) <= Cardinality(S)
  BY <1>1, FS_Subset
<1> QED
  BY <1>1, <1>2, FS_CardinalityType

LEMMA OneMoreDue ==
  ASSUME NEW S \in SUBSET In, NEW i \in In, NEW T \in SUBSET (S \cup {i})
  PROVE  /\ Cardinality(T) \in Nat /\ Cardinality(S) \in Nat
         /\ Cardinality(T) <= Cardinality(S) + 1
<1>1. IsFiniteSet(S)
  BY OutboxAssumption, FS_Subset
<1>2. /\ IsFiniteSet(S \cup {i})
      /\ Cardinality(S \cup {i}) \in {Cardinality(S), Cardinality(S) + 1}
  <2>1. Cardinality(S \cup {i}) = IF i \in S THEN Cardinality(S) ELSE Cardinality(S) + 1
    BY <1>1, FS_AddElement
  <2> QED
    BY <1>1, <2>1, FS_AddElement
<1>3. Cardinality(T) \in Nat /\ Cardinality(T) <= Cardinality(S \cup {i})
  BY <1>2, FewerDue
<1>4. Cardinality(S) \in Nat
  BY <1>1, FS_CardinalityType
<1> QED
  BY <1>2, <1>3, <1>4

\* The badge goes on answering for what it answered for, whatever is shown.
BadgeHolds ==
    \A Q \in SUBSET In :
      Cardinality(Due \ Q) <= unread[active] => Cardinality(Due' \ Q) <= unread'[active']

LEMMA BadgeStays ==
  ASSUME Due' \subseteq Due, active' = active, unread[active] \in Nat,
         unread'[active] = unread[active]
  PROVE  BadgeHolds
<1> SUFFICES ASSUME NEW Q \in SUBSET In, Cardinality(Due \ Q) <= unread[active]
             PROVE  Cardinality(Due' \ Q) <= unread'[active']
  BY DEF BadgeHolds
<1>1. Due \ Q \in SUBSET In /\ Due' \ Q \in SUBSET (Due \ Q)
  BY DEF Due
<1>2. /\ Cardinality(Due' \ Q) \in Nat /\ Cardinality(Due \ Q) \in Nat
      /\ Cardinality(Due' \ Q) <= Cardinality(Due \ Q)
  BY <1>1, FewerDue
<1> QED
  BY <1>2

LEMMA BadgeCounts ==
  ASSUME NEW i \in In, Due' \subseteq Due \cup {i}, active' = active,
         unread[active] \in Nat, unread'[active] = unread[active] + 1
  PROVE  BadgeHolds
<1> SUFFICES ASSUME NEW Q \in SUBSET In, Cardinality(Due \ Q) <= unread[active]
             PROVE  Cardinality(Due' \ Q) <= unread'[active']
  BY DEF BadgeHolds
<1>1. Due \ Q \in SUBSET In /\ Due' \ Q \in SUBSET ((Due \ Q) \cup {i})
  BY DEF Due
<1>2. /\ Cardinality(Due' \ Q) \in Nat /\ Cardinality(Due \ Q) \in Nat
      /\ Cardinality(Due' \ Q) <= Cardinality(Due \ Q) + 1
  BY <1>1, OneMoreDue
<1> QED
  BY <1>2

\* The steps that touch neither the rows and the list nor the sends.
LEMMA SeenStays ==
  ASSUME Typed, Typed', Seen, BadgeHolds, active' = active, ~ crossed' => ~ crossed,
         faults' >= faults, Jobs("load")' = Jobs("load"),
         \A m \in Msg : Emitting(m)' <=> Emitting(m),
         \A m \in Msg : row'[m].at = row[m].at,
         \/ loaded' = NoContact
         \/ /\ loaded' = loaded /\ DOMAIN list' = DOMAIN list
            /\ \A k \in DOMAIN list : list'[k].of = list[k].of
  PROVE  Seen'
<1> SUFFICES ASSUME ~ crossed', faults' = 0, active' # NoContact PROVE RowsSeen' /\ ListSeen'
  BY DEF Seen
<1>1. ~ crossed /\ faults = 0 /\ active # NoContact
  BY DEF Typed
<1>2. RowsSeen /\ ListSeen
  BY <1>1 DEF Seen
<1>3. RowsSeen'
  <2>1. ASSUME NEW j \in Jobs("load"), j.step = "show" PROVE RowsRight(j.rows)'
    <3>1. RowsRight(j.rows)
      BY <1>2, <2>1 DEF RowsSeen
    <3>2. InRows(j.rows) \in SUBSET In
      BY DEF InRows
    <3>3. Cardinality(Due' \ InRows(j.rows)) <= unread'[active']
      BY <3>1, <3>2 DEF RowsRight, BadgeHolds
    <3> QED
      BY <3>1, <3>3 DEF RowsRight, InRows
  <2> QED
    BY <2>1 DEF RowsSeen
<1>4. ListSeen'
  <2> SUFFICES ASSUME loaded' = active', \A j \in Jobs("load")' : j.step = "keys"
               PROVE  ListRight'
    BY DEF ListSeen
  <2>1. loaded = active /\ loaded' # NoContact
    BY <1>1
  <2>2. ListRight
    BY <1>2, <2>1 DEF ListSeen
  <2>3. \A x : Showing(x)' <=> Showing(x)
    BY <2>1 DEF Showing
  <2>4. Shown' = Shown /\ Shown \in SUBSET In
    BY <2>3 DEF Shown
  <2>5. Cardinality(Due' \ Shown') <= unread'[active']
    BY <2>2, <2>4 DEF ListRight, BadgeHolds
  <2>6. OwnShown'
    BY <2>2, <2>3 DEF ListRight, OwnShown
  <2>7. OnceShown'
    BY <2>1, <2>2 DEF ListRight, OnceShown
  <2> QED
    BY <2>5, <2>6, <2>7 DEF ListRight
<1> QED
  BY <1>3, <1>4

LEMMA AsideSeen == Typed /\ Typed' /\ Seen /\ Aside => (active = NoContact \/ Seen')
<1> SUFFICES ASSUME Typed, Typed', Seen, Aside, active # NoContact PROVE Seen'
  OBVIOUS
<1>1. Due' = Due
  BY DEF Aside, Due, Uncounted
<1>2. unread[active] \in Nat
  BY DEF Typed
<1>3. BadgeHolds
  BY <1>1, <1>2, BadgeStays DEF Aside
<1>4. \A m \in Msg : Emitting(m)' <=> Emitting(m)
  BY DEF Aside, Emitting
<1> QED
  BY <1>3, <1>4, SeenStays DEF Aside

LEMMA InSeen ==
  ASSUME Typed, Typed', InsApart, Seen, InStep, active # NoContact
  PROVE  faults' = 0 => Seen'
<1> SUFFICES ASSUME faults' = 0 PROVE Seen'
  OBVIOUS
<1>1. /\ Jobs("load")' = Jobs("load") /\ Jobs("send")' = Jobs("send")
      /\ UNCHANGED <<row, active, list, loaded, crossed>> /\ faults' >= faults
  BY InKinds, InRest
<1>2. \A m \in Msg : Emitting(m)' <=> Emitting(m)
  BY <1>1 DEF Emitting
<1>3. unread[active] \in Nat /\ unread \in [Contact -> Nat] /\ active \in Contact
  BY DEF Typed
<1>4. faults = 0
  BY <1>1 DEF Typed
<1>5. ASSUME NEW i \in In, NEW c \in Contact, MessageArrives(i, c) PROVE BadgeHolds
  <2>1. /\ \E k : Jobs("in")' = Jobs("in") \cup {k} /\ k.step = "vault"
        /\ got' = got /\ unread' = unread
    BY <1>5, InArrives
  <2>2. Uncounted' = Uncounted
    BY <2>1 DEF Uncounted
  <2>3. Due' = Due
    BY <1>1, <2>1, <2>2 DEF Due
  <2> QED
    BY <1>1, <1>3, <2>1, <2>3, BadgeStays
<1>6. ASSUME NEW j \in jobs, InVault(j) PROVE BadgeHolds
  <2>1. /\ j \in Jobs("in") /\ j \in InJob /\ j.step = "vault"
        /\ \E k : /\ Jobs("in")' = (Jobs("in") \ {j}) \cup {k}
                  /\ k.of = j.of /\ k.at = j.at /\ k.step = "count"
                  /\ got' = [got EXCEPT ![j.of] = j.at]
        /\ unread' = unread
    <3>1. faults' # faults + 1
      BY <1>4
    <3> QED
      BY <1>6, <3>1, InSaves
  <2>2. PICK k : /\ Jobs("in")' = (Jobs("in") \ {j}) \cup {k}
                 /\ k.of = j.of /\ k.at = j.at /\ k.step = "count"
                 /\ got' = [got EXCEPT ![j.of] = j.at]
    BY <2>1
  <2>3. Uncounted' = Uncounted \cup {j.of}
    BY <2>1, <2>2 DEF Uncounted, InJob
  <2>4. \A i \in In : i # j.of => got'[i] = got[i]
    BY <2>2 DEF Typed
  <2>5. Due' \subseteq Due
    BY <1>1, <2>3, <2>4 DEF Due
  <2> QED
    BY <1>1, <1>3, <2>1, <2>5, BadgeStays
<1>7. ASSUME NEW j \in jobs, InCount(j) PROVE BadgeHolds
  <2>1. /\ j \in Jobs("in") /\ j \in InJob /\ j.step = "count"
        /\ Jobs("in")' = Jobs("in") \ {j} /\ got' = got
        /\ unread' = [unread EXCEPT ![j.at] = unread[j.at] + 1]
    BY <1>7, InCounts
  <2>2. Uncounted \subseteq Uncounted' \cup {j.of}
    BY <2>1 DEF Uncounted
  <2>3. j.of \in In /\ j.at \in Contact /\ got[j.of] = j.at
    BY <2>1 DEF InJob, InsApart
  <2>4. CASE j.at = active
    <3>1. Due' \subseteq Due \cup {j.of}
      BY <1>1, <2>1, <2>2 DEF Due
    <3>2. unread'[active] = unread[active] + 1
      BY <1>3, <2>1, <2>4
    <3> QED
      BY <1>1, <1>3, <2>3, <3>1, <3>2, BadgeCounts
  <2>5. CASE j.at # active
    <3>1. Due' \subseteq Due
      BY <1>1, <2>1, <2>2, <2>3, <2>5 DEF Due
    <3>2. unread'[active] = unread[active]
      BY <1>3, <2>1, <2>3, <2>5
    <3> QED
      BY <1>1, <1>3, <3>1, <3>2, BadgeStays
  <2> QED
    BY <2>4, <2>5
<1>8. BadgeHolds
  BY <1>5, <1>6, <1>7 DEF InStep
<1> QED
  BY <1>1, <1>2, <1>8, SeenStays

\* The new entry is the one of the message that was being sent.
LEMMA EmitShows ==
  ASSUME Typed, SendsApart, Kept, NEW j \in jobs, SendEmit(j), ListRight,
         faults = 0, j.at = active
  PROVE  ListRight'
<1>1. /\ j \in Jobs("send") /\ j \in SendJob /\ j.step = "emit"
      /\ Jobs("send")' = Jobs("send") \ {j}
      /\ list' = Append(list, [of |-> j.of, id |-> "temp", st |-> "sending", changed |-> FALSE])
      /\ UNCHANGED <<row, got, unread, active>>
  BY SendLeaves
<1>2. j.of \in Msg /\ row[j.of].at = active /\ Emitting(j.of)
  BY <1>1 DEF Kept, SendJob, Emitting
<1>3. ~ Showing(j.of)
  BY <1>2 DEF ListRight, OwnShown
<1>4. /\ \A k \in DOMAIN list' : \/ k \in DOMAIN list /\ list'[k] = list[k]
                                 \/ k = Len(list) + 1 /\ list'[k].of = j.of
      /\ DOMAIN list' = DOMAIN list \cup {Len(list) + 1}
      /\ Len(list) + 1 \notin DOMAIN list
      /\ list'[Len(list) + 1].of = j.of
      /\ \A k \in DOMAIN list : list'[k] = list[k]
  <2>1. list \in Seq(Entry)
    BY DEF Typed
  <2> QED
    BY <1>1, <2>1
<1>5. \A x : Showing(x)' <=> Showing(x) \/ x = j.of
  BY <1>4 DEF Showing
<1>6. OnceShown'
  BY <1>3, <1>4 DEF ListRight, OnceShown, Showing
<1>7. OwnShown'
  <2>1. \A m \in Msg : Emitting(m)' <=> Emitting(m) /\ m # j.of
    BY <1>1 DEF Emitting, SendsApart
  <2> QED
    BY <1>1, <1>2, <1>5, <2>1 DEF ListRight, OwnShown
<1>8. Shown' = Shown
  BY <1>2, <1>5, OutboxAssumption DEF Shown
<1>9. Due' = Due
  <2>1. SendStep
    BY DEF SendStep
  <2>2. Jobs("in")' = Jobs("in")
    BY <2>1, SendKinds
  <2> QED
    BY <1>1, <2>2 DEF Due, Uncounted
<1> QED
  BY <1>1, <1>6, <1>7, <1>8, <1>9 DEF ListRight

\* A row that is saved is one that is being sent.
LEMMA SaveShows ==
  ASSUME Typed, SendsApart, NEW j \in jobs, SendVault(j), ListRight,
         faults = 0, faults' = 0, j.at = active, active # NoContact
  PROVE  ListRight'
<1>1. /\ j \in Jobs("send") /\ j \in SendJob /\ j.step = "vault"
      /\ \E k : /\ k.of = j.of /\ k.step = "emit"
                /\ Jobs("send")' = (Jobs("send") \ {j}) \cup {k}
      /\ UNCHANGED <<got, unread, active, list>>
  <2>1. faults' # faults + 1
    OBVIOUS
  <2> QED
    BY <2>1, SendSaves
<1>2. row'[j.of].at = active /\ \A n \in Msg : n # j.of => row'[n] = row[n]
  BY SendVaultRow
<1>3. row[j.of].at = NoContact /\ j.of \in Msg
  BY <1>1 DEF SendsApart, SendJob
<1>4. ~ Showing(j.of)
  BY <1>3 DEF ListRight, OwnShown
<1>5. \A x : Showing(x)' <=> Showing(x)
  BY <1>1 DEF Showing
<1>6. OwnShown'
  <2>1. \A m \in Msg : Emitting(m)' <=> Emitting(m) \/ m = j.of
    BY <1>1 DEF Emitting, SendsApart
  <2>2. ASSUME NEW m \in Msg PROVE Showing(m)' <=> row'[m].at = active' /\ ~ Emitting(m)'
    <3>1. CASE m = j.of
      BY <1>4, <1>5, <2>1, <3>1
    <3>2. CASE m # j.of
      BY <1>1, <1>2, <1>5, <2>1, <3>2 DEF ListRight, OwnShown
    <3> QED
      BY <3>1, <3>2
  <2> QED
    BY <2>2 DEF OwnShown
<1>7. Shown' = Shown /\ OnceShown'
  BY <1>1, <1>5 DEF Shown, ListRight, OnceShown
<1>8. Due' = Due
  <2>1. SendStep
    BY DEF SendStep
  <2>2. Jobs("in")' = Jobs("in")
    BY <2>1, SendKinds
  <2> QED
    BY <1>1, <2>2 DEF Due, Uncounted
<1> QED
  BY <1>1, <1>6, <1>7, <1>8 DEF ListRight

LEMMA SendSeen ==
  ASSUME Typed, Typed', SendsApart, Kept, LoadAlone, Seen, SendStep, active # NoContact,
         faults = 0, faults' = 0, ~ crossed'
  PROVE  Seen'
<1>1. Jobs("in")' = Jobs("in") /\ Jobs("load")' = Jobs("load")
  BY SendKinds
<1>2. unread[active] \in Nat
  BY DEF Typed
<1>3. ASSUME NEW m \in Msg, Send(m) PROVE Seen'
  <2>1. /\ \E k : Jobs("send")' = Jobs("send") \cup {k} /\ k.step = "vault"
        /\ UNCHANGED <<row, got, unread, active, list, loaded>>
        /\ crossed' = (crossed \/ Jobs("load") # {})
    BY <1>3, SendBegins
  <2>2. Due' = Due
    BY <1>1, <2>1 DEF Due, Uncounted
  <2>3. BadgeHolds
    BY <1>2, <2>1, <2>2, BadgeStays
  <2>4. \A n \in Msg : Emitting(n)' <=> Emitting(n)
    BY <2>1 DEF Emitting
  <2>5. ~ crossed
    BY <2>1
  <2> QED
    BY <1>1, <2>1, <2>3, <2>4, <2>5, SeenStays
<1>4. ASSUME NEW j \in jobs, SendVault(j) \/ SendEmit(j) PROVE Seen'
  <2>1. /\ j \in Jobs("send") /\ UNCHANGED <<active, loaded, crossed>>
    BY <1>4, SendSaves, SendLeaves
  <2>2. Jobs("load") = {} /\ j.at = active
    BY <2>1 DEF LoadAlone
  <2>3. RowsSeen'
    BY <1>1, <2>2 DEF RowsSeen
  <2>4. CASE loaded = active
    <3>1. ListRight
      BY <2>1, <2>2, <2>4 DEF Seen, ListSeen
    <3>2. ListRight'
      BY <1>4, <2>2, <3>1, EmitShows, SaveShows
    <3> QED
      BY <2>3, <3>2 DEF Seen, ListSeen
  <2>5. CASE loaded # active
    BY <2>1, <2>3, <2>5 DEF Seen, ListSeen
  <2> QED
    BY <2>4, <2>5
<1> QED
  BY <1>3, <1>4 DEF SendStep

LEMMA LoadSeen ==
  ASSUME Typed, Typed', LoadAlone, Seen, LoadStep, faults = 0, faults' = 0, ~ crossed',
         active' # NoContact
  PROVE  Seen'
<1>1. /\ Jobs("in")' = Jobs("in") /\ Jobs("send")' = Jobs("send")
      /\ UNCHANGED <<row, got>>
  BY LoadKinds, LoadRest
<1>2. ASSUME NEW c \in Contact, Open(c) PROVE Seen'
  <2>1. /\ \E k : Jobs("load")' = Jobs("load") \cup {k} /\ k.step = "select"
        /\ crossed' = (Jobs("load") # {} \/ Jobs("send") # {})
    BY <1>2, LoadBegins
  <2>2. \E k : Jobs("load")' = {k} /\ k.step = "select"
    BY <2>1
  <2> QED
    BY <2>2 DEF Seen, RowsSeen, ListSeen
<1>3. ASSUME NEW j \in jobs, Select(j) PROVE Seen'
  <2>1. /\ j \in Jobs("load") /\ j \in LoadJob
        /\ \E k : /\ Jobs("load")' = (Jobs("load") \ {j}) \cup {k}
                  /\ k.step = "show" /\ k.rows = History(j.at)
        /\ UNCHANGED <<active, unread, crossed>>
    BY <1>3, LoadReads
  <2>2. Jobs("load") = {j} /\ j.at = active
    BY <2>1 DEF LoadAlone
  <2>3. PICK k : Jobs("load")' = {k} /\ k.step = "show" /\ k.rows = History(active)
    BY <2>1, <2>2
  <2>4. active \in Contact
    BY <2>1, <2>2 DEF LoadJob
  <2>5. /\ \A m \in Msg : (\E e \in History(active) : e.of = m) <=> row[m].at = active
        /\ \A i \in In : (\E e \in History(active) : e.of = i) <=> got[i] = active
        /\ \A e, f \in History(active) : e.of = f.of => e = f
    BY <2>4, HistoryHolds
  <2>6. Due' = Due
    BY <1>1, <2>1 DEF Due, Uncounted
  <2>7. Due \ InRows(k.rows) = {}
    BY <2>3, <2>5 DEF Due, InRows
  <2>8. Cardinality(Due' \ InRows(k.rows)) <= unread'[active']
    <3>1. unread'[active'] \in Nat
      BY <2>1, <2>4 DEF Typed
    <3>2. Cardinality(Due' \ InRows(k.rows)) = 0
      BY <2>6, <2>7, FS_EmptySet
    <3> QED
      BY <3>1, <3>2
  <2>9. RowsRight(k.rows)'
    BY <1>1, <2>1, <2>3, <2>5, <2>8 DEF RowsRight, InRows
  <2> QED
    BY <2>3, <2>9 DEF Seen, RowsSeen, ListSeen
<1>4. ASSUME NEW j \in jobs, Show(j) PROVE Seen'
  <2>1. /\ j \in Jobs("load") /\ j \in LoadJob /\ j.step = "show"
        /\ \E k : Jobs("load")' = (Jobs("load") \ {j}) \cup {k} /\ k.step = "keys"
        /\ UNCHANGED <<active, unread, crossed>>
        /\ list' = SetToSeq(j.rows)
    <3>1. faults' # faults + 1
      OBVIOUS
    <3> QED
      BY <1>4, <3>1, LoadShows
  <2>2. Jobs("load") = {j} /\ j.at = active /\ Jobs("send") = {}
    BY <2>1 DEF LoadAlone
  <2>3. \E k : Jobs("load")' = {k} /\ k.step = "keys"
    BY <2>1, <2>2
  <2>4. RowsRight(j.rows)
    BY <2>1 DEF Seen, RowsSeen
  <2>5. j.rows \in SUBSET Entry /\ IsFiniteSet(j.rows)
    BY <2>1 DEF LoadJob, Typed
  <2>6. /\ \A k \in DOMAIN list' : list'[k] \in j.rows
        /\ \A e \in j.rows : \E k \in DOMAIN list' : list'[k] = e
        /\ \A k, l \in DOMAIN list' : list'[k] = list'[l] => k = l
    BY <2>1, <2>5, ListOf
  <2>7. \A x : Showing(x)' <=> \E e \in j.rows : e.of = x
    BY <2>6 DEF Showing
  <2>8. OnceShown'
    BY <2>4, <2>6 DEF RowsRight, OnceShown
  <2>9. OwnShown'
    <3>1. \A m \in Msg : ~ Emitting(m)'
      BY <1>1, <2>2 DEF Emitting
    <3> QED
      BY <1>1, <2>1, <2>4, <2>7, <3>1 DEF RowsRight, OwnShown
  <2>10. Shown' = InRows(j.rows)
    BY <2>7 DEF Shown, InRows
  <2>11. Due' = Due
    BY <1>1, <2>1 DEF Due, Uncounted
  <2>12. ListRight'
    BY <2>1, <2>4, <2>8, <2>9, <2>10, <2>11 DEF ListRight, RowsRight
  <2> QED
    BY <2>3, <2>12 DEF Seen, RowsSeen, ListSeen
<1>5. ASSUME NEW j \in jobs, Keys(j) PROVE Seen'
  <2>1. /\ j \in Jobs("load") /\ j.step = "keys" /\ Jobs("load")' = Jobs("load") \ {j}
        /\ UNCHANGED <<active, unread, list, loaded, crossed>>
    BY <1>5, LoadEnds
  <2>2. Jobs("load") = {j}
    BY <2>1 DEF LoadAlone
  <2>3. CASE loaded = active
    <3>1. ListRight
      BY <2>1, <2>2, <2>3 DEF Seen, ListSeen
    <3>2. Due' = Due /\ Shown' = Shown
      BY <1>1, <2>1 DEF Due, Uncounted, Shown, Showing
    <3>3. OnceShown' /\ OwnShown'
      BY <1>1, <2>1, <3>1 DEF ListRight, OnceShown, OwnShown, Showing, Emitting
    <3>4. ListRight'
      BY <2>1, <3>1, <3>2, <3>3 DEF ListRight
    <3> QED
      BY <2>1, <2>2, <3>4 DEF Seen, RowsSeen, ListSeen
  <2>4. CASE loaded # active
    BY <2>1, <2>2, <2>4 DEF Seen, RowsSeen, ListSeen
  <2> QED
    BY <2>3, <2>4
<1> QED
  BY <1>2, <1>3, <1>4, <1>5 DEF LoadStep

LEMMA StepSeen ==
  ASSUME Typed, SendsApart, Kept, InsApart, LoadAlone, Seen, [Next]_vars
  PROVE  Seen'
<1> SUFFICES ASSUME ~ crossed', faults' = 0, active' # NoContact PROVE Seen'
  BY DEF Seen
<1>1. Typed' /\ faults = 0
  BY StepTyped, FaultsGrow DEF Typed
<1>2. CASE Aside
  BY <1>1, <1>2, AsideSeen DEF Aside
<1>3. CASE InStep
  BY <1>1, <1>3, InSeen, InRest
<1>4. CASE SendStep
  <2>1. active' = active
    BY <1>4, SendBegins, SendSaves, SendLeaves DEF SendStep
  <2> QED
    BY <1>1, <1>4, <2>1, SendSeen
<1>5. CASE LoadStep
  BY <1>1, <1>5, LoadSeen
<1>6. ~ Restart
  BY RestartRest
<1> QED
  BY <1>2, <1>3, <1>4, <1>5, <1>6, Steps, AsideSteps

LEMMA InitSeen == Init => Seen
  BY DEF Init, Seen

\* Between the handlers, what Seen says is what is promised.
LEMMA SeenSettled ==
  ASSUME Typed, Seen, Settled
  PROVE  ListRight /\ Uncounted = {} /\ \A m \in Msg : ~ Emitting(m)
<1>1. \A kind : Jobs(kind) = {}
  BY DEF Settled, Jobs
<1>2. ListRight
  BY <1>1 DEF Settled, Seen, ListSeen
<1> QED
  BY <1>1, <1>2 DEF Uncounted, Emitting

\* In a conversation whose list was loaded while nothing else worked on the list,
\* every message of one's own is there exactly once: neither the row without the
\* frame nor the frame after the row doubles it or loses it.
THEOREM OwnIsShownOnce == Spec => []OwnShownOnce
<1>1. ASSUME Typed, Seen PROVE OwnShownOnce
  <2> SUFFICES ASSUME Settled, NEW m \in Msg
               PROVE  Times(m) = IF row[m].at = active THEN 1 ELSE 0
    BY DEF OwnShownOnce
  <2>1. ListRight /\ ~ Emitting(m)
    BY <1>1, SeenSettled
  <2> DEFINE P == { k \in DOMAIN list : list[k].of = m }
  <2>2. Times(m) = Cardinality(P)
    BY DEF Times
  <2>3. CASE row[m].at = active
    <3>1. Showing(m)
      BY <2>1, <2>3 DEF ListRight, OwnShown
    <3>2. PICK k \in DOMAIN list : list[k].of = m
      BY <3>1 DEF Showing
    <3>3. P = {k}
      BY <2>1, <3>2 DEF ListRight, OnceShown
    <3> QED
      BY <2>2, <2>3, <3>3, FS_Singleton
  <2>4. CASE row[m].at # active
    <3>1. ~ Showing(m)
      BY <2>1, <2>4 DEF ListRight, OwnShown
    <3>2. P = {}
      BY <3>1 DEF Showing
    <3> QED
      BY <2>2, <2>4, <3>2, FS_EmptySet
  <2> QED
    BY <2>3, <2>4
<1> QED
  BY <1>1, InitTyped, StepTyped, InitKept, StepSendsApart, StepKept, InitAlone, StepInsApart,
     StepLoadAlone, InitSeen, StepSeen, PTL DEF Spec

\* A message in the open conversation that is not on the screen is counted in the
\* badge, wherever it came in between the steps of the load.
THEOREM UnseenIsCounted == Spec => []NothingUnseen
<1>1. ASSUME Typed, Seen PROVE NothingUnseen
  <2> SUFFICES ASSUME Settled
               PROVE  unread[active] >=
                        Cardinality({i \in In : got[i] = active /\ Times(i) = 0})
    BY DEF NothingUnseen
  <2>1. ListRight /\ Uncounted = {}
    BY <1>1, SeenSettled
  <2>2. \A i \in In : Showing(i) => Times(i) # 0
    <3> SUFFICES ASSUME NEW i \in In, Showing(i) PROVE Times(i) # 0
      OBVIOUS
    <3> DEFINE P == { k \in DOMAIN list : list[k].of = i }
    <3>1. P # {}
      BY DEF Showing
    <3>2. IsFiniteSet(P)
      <4>1. list \in Seq(Entry)
        BY <1>1 DEF Typed
      <4>2. DOMAIN list = 1 .. Len(list) /\ Len(list) \in Nat
        BY <4>1
      <4>3. IsFiniteSet(1 .. Len(list))
        BY <4>2, FS_Interval
      <4> QED
        BY <4>2, <4>3, FS_Subset
    <3> QED
      BY <3>1, <3>2, FS_EmptySet DEF Times
  <2> DEFINE unseen == { i \in In : got[i] = active /\ Times(i) = 0 }
  <2>3. unseen \in SUBSET (Due \ Shown)
    BY <2>1, <2>2 DEF Due, Shown
  <2>4. Due \ Shown \in SUBSET In
    BY DEF Due
  <2> HIDE DEF unseen
  <2>5. /\ Cardinality(unseen) \in Nat /\ Cardinality(Due \ Shown) \in Nat
        /\ Cardinality(unseen) <= Cardinality(Due \ Shown)
    BY <2>3, <2>4, FewerDue
  <2>6. Cardinality(Due \ Shown) <= unread[active]
    BY <2>1 DEF ListRight
  <2>7. unread[active] \in Nat
    <3>1. active \in Contact /\ unread \in [Contact -> Nat]
      BY <1>1 DEF Settled, Typed
    <3> QED
      BY <3>1
  <2>8. unread[active] >= Cardinality(unseen)
    BY <2>5, <2>6, <2>7
  <2> QED
    BY <2>8 DEF unseen
<1> QED
  BY <1>1, InitTyped, StepTyped, InitKept, StepSendsApart, StepKept, InitAlone, StepInsApart,
     StepLoadAlone, InitSeen, StepSeen, PTL DEF Spec

=============================================================================
