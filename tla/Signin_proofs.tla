---------------------------- MODULE Signin_proofs ----------------------------
(***************************************************************************)
(* Theorems about Signin, for any users, any number of handlers under way, *)
(* of registrations elsewhere, of failures, restarts and bootstraps.       *)
(***************************************************************************)
EXTENDS Signin, WellFoundedInduction, TLAPS

-----------------------------------------------------------------------------
(***************************************************************************)
(* Kinds of values.                                                        *)
(***************************************************************************)

Users == User \cup {NoUser}
Tokens == [user : Users, dev : Nat, no : Nat]
Sessions == [user : Users, admin : BOOLEAN, named : BOOLEAN]
Apps == [session : Sessions, keys : Nat, device : Nat]
Devices == [owner : User, key : Nat, active : BOOLEAN]
Vaults == [keys : Nat, device : Nat]
Socks == [on : BOOLEAN, token : Tokens]
Loads == [token : Tokens, dev : Nat, step : {"asked", "listed", "refused"}]
Savings == [session : Sessions, token : Tokens]
Wizards == [app : Apps, token : Tokens]
Leavings == [step : {"no", "api", "clear"}, token : Tokens]
Views == {"HOME", "WAITING", "REGISTER", "LOADING"}
Forms == [view : Views, email : Users, uid : Users, code : Users,
          submitting : BOOLEAN, checking : BOOLEAN, maint : BOOLEAN]
Steps == {"access", "boot", "returning", "setup", "challenge", "match", "verify",
          "post", "keys", "device", "otpks", "enter"}
Flows == [step : Steps, kind : {"submit", "select", "check", "register"}, no : Nat,
          orphan : BOOLEAN, user : Users, uid : Users, code : Users,
          submitting : BOOLEAN, keys : Nat, dev : Nat, list : SUBSET Nat]

ServerTyped ==
    /\ status \in [User -> {"unknown", "pending", "active"}] /\ status[Admin] = "active"
    /\ named \subseteq User /\ devices \in Seq(Devices)
    /\ live \subseteq [user : User, dev : Nat, no : Nat]
    /\ boots \in Nat /\ boots <= MaxBoots
DiskTyped == vault \in Vaults /\ saved \subseteq User
AppTyped ==
    /\ root \in {"AUTH", "ONBOARDING", "CHAT", "ADMIN"}
    /\ app \in Apps /\ token \in Tokens /\ sock \in Socks
FlowTyped ==
    /\ flow \in [Flow -> Flows \cup {Idle}]
    /\ \A f \in Flow : flow[f].step \notin {"idle", "access", "post"} => flow[f].user \in User
SideTyped ==
    /\ loads \subseteq Loads /\ saving \in Savings /\ wizard \in Wizards
    /\ leaving \in Leavings
BoundTyped ==
    /\ keysMade \in Nat /\ elsewhere \in Nat /\ begun \in Nat
    /\ fails \in Nat /\ restarts \in Nat /\ crossed \in BOOLEAN /\ broke \in BOOLEAN
Typed == /\ ServerTyped /\ DiskTyped /\ AppTyped /\ form \in Forms /\ FlowTyped
         /\ SideTyped /\ BoundTyped

\* A set of numbers up to n has a largest one: Newest is defined.
LEMMA HasLargest ==
    ASSUME NEW n \in Nat, NEW S, S \subseteq 1 .. n, S # {}
    PROVE  \E d \in S : \A e \in S : e <= d
<1>. DEFINE T == {n - d : d \in S}
            R == OpToRel(<, Nat)
<1>1. T \subseteq Nat /\ T # {}
  <2>1. ASSUME NEW d \in S  PROVE n - d \in Nat
    OBVIOUS
  <2>2. PICK d \in S : TRUE
    OBVIOUS
  <2>3. n - d \in T
    OBVIOUS
  <2>. QED
    BY <2>1, <2>3
<1>2. IsWellFoundedOn(R, Nat)
  BY NatLessThanWellFounded
<1>3. \E x \in T : \A y \in T : ~ (<<y, x>> \in R)
  <2>. HIDE DEF R, T
  <2>. QED
    BY <1>1, <1>2, WFMin, Zenon
<1>4. PICK x \in T : \A y \in T : ~ (<<y, x>> \in R)
  BY <1>3
<1>5. ASSUME NEW y \in T  PROVE x <= y
  <2>1. x \in Nat /\ y \in Nat
    BY <1>1
  <2>2. CASE y < x
    <3>1. <<y, x>> \in R
      BY <2>1, <2>2 DEF OpToRel
    <3>. QED
      BY <3>1, <1>4
  <2>. QED
    BY <2>1, <2>2
<1>6. PICK d \in S : x = n - d
  OBVIOUS
<1>7. ASSUME NEW e \in S  PROVE e <= d
  <2>1. n - e \in T
    OBVIOUS
  <2>2. x <= n - e
    BY <2>1, <1>5
  <2>. QED
    BY <2>2, <1>6
<1>. QED
  BY <1>7

-----------------------------------------------------------------------------
(***************************************************************************)
(* What the steps of a handler do, without the forms of their records.     *)
(***************************************************************************)

\* The handler f is over; it goes on at step s with keys k, device d, list L.
Stops(f) == flow' = [flow EXCEPT ![f] = Idle]
Put(q, s, k, d, L) == [q EXCEPT !.step = s, !.keys = k, !.dev = d, !.list = L]
Moves(f, s, k, d, L) == flow' = [flow EXCEPT ![f] = Put(flow[f], s, k, d, L)]

\* The form then shows view v and keeps the user u with the code c, unless it
\* is not that of f any more.
Draws(f, v, u, c) ==
    /\ form' \in Forms
    /\ flow[f].orphan => form' = form
    /\ ~ flow[f].orphan =>
           form'.view = v /\ form'.uid = u /\ form'.code = c /\ form'.email = form.email

LEMMA PutIs ==
    ASSUME NEW q \in Flows, NEW s \in Steps, NEW k \in Nat, NEW d \in Nat,
           NEW L \in SUBSET Nat
    PROVE  /\ Put(q, s, k, d, L) \in Flows /\ Put(q, s, k, d, L) # Idle
           /\ Put(q, s, k, d, L).step = s /\ Put(q, s, k, d, L).keys = k
           /\ Put(q, s, k, d, L).dev = d /\ Put(q, s, k, d, L).list = L
           /\ Put(q, s, k, d, L).kind = q.kind /\ Put(q, s, k, d, L).user = q.user
           /\ Put(q, s, k, d, L).uid = q.uid /\ Put(q, s, k, d, L).code = q.code
           /\ Put(q, s, k, d, L).orphan = q.orphan /\ Put(q, s, k, d, L).no = q.no
           /\ Put(q, s, k, d, L).submitting = q.submitting
<1>1. Put(q, s, k, d, L) \in Flows
  BY DEF Put, Flows
<1>2. DOMAIN q = {"step", "kind", "no", "orphan", "user", "uid", "code", "submitting",
                  "keys", "dev", "list"}
  BY DEF Flows
<1>. QED
  BY <1>1, <1>2 DEF Put, Flows, Idle, Steps

LEMMA PutStep ==
    ASSUME NEW q \in Flows, NEW s \in Steps
    PROVE  [q EXCEPT !.step = s] = Put(q, s, q.keys, q.dev, q.list)
  BY DEF Put, Flows

\* A handler under way has all its fields.
LEMMA BusyIsFlow ==
    ASSUME FlowTyped, NEW f \in Flow, flow[f].step # "idle"
    PROVE  flow[f] \in Flows /\ Busy(f)
  BY DEF FlowTyped, Idle, Busy

LEMMA EndsDraws ==
    ASSUME form \in Forms, FlowTyped, NEW f \in Flow, flow[f].step # "idle",
           NEW n \in Forms, n.email = form.email, Ends(f, n)
    PROVE  Stops(f) /\ Draws(f, n.view, n.uid, n.code)
<1>. DEFINE e == [n EXCEPT !.submitting = FALSE,
                           !.checking = @ /\ flow[f].kind # "check"]
<1>1. Stops(f) /\ form' = IF flow[f].orphan THEN form ELSE e
  BY DEF Ends, Goes, Sets, Stops
<1>2. e \in Forms /\ e.view = n.view /\ e.uid = n.uid /\ e.code = n.code /\ e.email = n.email
  BY DEF Forms
<1>3. flow[f].orphan \in BOOLEAN
  BY BusyIsFlow DEF Flows
<1>. HIDE DEF e
<1>4. CASE flow[f].orphan
  BY <1>1, <1>4 DEF Draws
<1>5. CASE ~ flow[f].orphan
  BY <1>1, <1>2, <1>5 DEF Draws
<1>. QED
  BY <1>4, <1>5

\* handleLogin's first lines: a check that was begun during another request ends
\* here, any other handler asks for the challenge.
LEMMA LoginDoes ==
    ASSUME form \in Forms, FlowTyped, NEW f \in Flow, flow[f].step # "idle",
           NEW n \in Forms, n.email = form.email, Login(f, n),
           flow[f].kind = "check" => n = form
    PROVE  /\ Draws(f, n.view, n.uid, n.code)
           /\ \/ Stops(f) /\ flow[f].kind = "check"
              \/ Moves(f, "challenge", flow[f].keys, flow[f].dev, flow[f].list)
<1>. DEFINE q == flow[f]
            e == [n EXCEPT !.submitting = q.kind # "select", !.maint = FALSE]
<1>1. q \in Flows /\ q.keys \in Nat /\ q.dev \in Nat /\ q.list \in SUBSET Nat
      /\ q.orphan \in BOOLEAN
  BY BusyIsFlow DEF Flows
<1>2. CASE q.kind = "check" /\ q.submitting
  <2>1. Ends(f, n)
    BY <1>2 DEF Login
  <2>. QED
    BY <1>2, <2>1, EndsDraws
<1>3. CASE ~ (q.kind = "check" /\ q.submitting)
  <2>1. Goes(f, [q EXCEPT !.step = "challenge"]) /\ Sets(f, e)
    BY <1>3 DEF Login
  <2>2. [q EXCEPT !.step = "challenge"] = Put(q, "challenge", q.keys, q.dev, q.list)
    BY <1>1, PutStep DEF Steps
  <2>3. Moves(f, "challenge", q.keys, q.dev, q.list)
    BY <2>1, <2>2 DEF Goes, Moves
  <2>4. e \in Forms /\ e.view = n.view /\ e.uid = n.uid /\ e.code = n.code /\ e.email = n.email
    BY DEF Forms
  <2>5. form' = IF q.orphan THEN form ELSE e
    BY <2>1 DEF Sets
  <2>6. Draws(f, n.view, n.uid, n.code)
    <3>. HIDE DEF e
    <3>1. CASE q.orphan
      BY <2>5, <3>1 DEF Draws
    <3>2. CASE ~ q.orphan
      BY <2>4, <2>5, <3>2 DEF Draws
    <3>. QED
      BY <3>1, <3>2
  <2>. QED
    BY <2>3, <2>6
<1>. QED
  BY <1>2, <1>3

\* What a handler other than Enter leaves alone.
Inside == UNCHANGED <<appVars, saved, named, sideVars, elsewhere, begun, restarts, crossed>>

LEMMA AccessAnsweredDoes ==
    ASSUME Typed, NEW f \in Flow, AccessAnswered(f)
    PROVE  /\ flow[f].step = "access" /\ flow[f].user \in User
           /\ Asked(flow[f].user) /\ Inside
           /\ UNCHANGED <<devices, live, boots, vault, token, keysMade, fails, broke>>
           /\ \/ Stops(f) /\ Draws(f, form.view, form.uid, form.code) /\ flow[f].kind = "check"
              \/ /\ Stops(f) /\ Draws(f, "WAITING", flow[f].user, flow[f].user)
                 /\ flow[f].kind # "check" /\ status[flow[f].user] # "active"
              \/ /\ Moves(f, "boot", flow[f].keys, flow[f].dev, flow[f].list)
                 /\ Draws(f, form.view, flow[f].user, flow[f].user) /\ flow[f].kind = "submit"
              \/ /\ Moves(f, "challenge", flow[f].keys, flow[f].dev, flow[f].list)
                 /\ Draws(f, form.view, form.uid, form.code) /\ flow[f].kind = "check"
              \/ /\ Moves(f, "challenge", flow[f].keys, flow[f].dev, flow[f].list)
                 /\ Draws(f, form.view, flow[f].user, flow[f].user)
                 /\ flow[f].kind \notin {"submit", "check"}
<1>. DEFINE q == flow[f]
            kept == [form EXCEPT !.uid = q.user, !.code = q.user]
            known == IF q.kind = "check" THEN form ELSE kept
            waits == [known EXCEPT !.view = "WAITING"]
<1>1. /\ q.step = "access" /\ q.user # NoUser /\ Asked(q.user)
      /\ UNCHANGED <<named, devices, live, boots, diskVars, appVars, token, sideVars,
                     boundVars, fails, broke>>
      /\ IF status[q.user] # "active"
         THEN Ends(f, IF q.kind = "check" THEN form ELSE waits)
         ELSE IF q.kind = "submit"
         THEN Goes(f, [q EXCEPT !.step = "boot"]) /\ Sets(f, known)
         ELSE Login(f, known)
  BY DEF AccessAnswered
<1>2. form \in Forms /\ FlowTyped /\ q.step # "idle"
  BY <1>1 DEF Typed
<1>3. q \in Flows /\ q.user \in User /\ q.keys \in Nat /\ q.dev \in Nat
      /\ q.list \in SUBSET Nat /\ q.orphan \in BOOLEAN
  BY <1>1, <1>2, BusyIsFlow DEF Flows, Users
<1>4. Inside /\ UNCHANGED <<devices, live, boots, vault, token, keysMade, fails, broke>>
  BY <1>1 DEF Inside, diskVars, boundVars
<1>5. /\ kept \in Forms /\ kept.view = form.view /\ kept.email = form.email
      /\ kept.uid = q.user /\ kept.code = q.user
  BY <1>2, <1>3 DEF Forms, Users
<1>. HIDE DEF kept
<1>6. CASE status[q.user] # "active" /\ q.kind = "check"
  <2>1. Ends(f, form)
    BY <1>1, <1>6
  <2>2. Stops(f) /\ Draws(f, form.view, form.uid, form.code)
    BY <1>2, <2>1, EndsDraws
  <2>. QED
    BY <1>1, <1>3, <1>4, <1>6, <2>2
<1>7. CASE status[q.user] # "active" /\ q.kind # "check"
  <2>1. Ends(f, waits) /\ known = kept
    BY <1>1, <1>7
  <2>2. /\ waits \in Forms /\ waits.view = "WAITING" /\ waits.email = form.email
        /\ waits.uid = q.user /\ waits.code = q.user
    BY <1>5, <2>1 DEF Forms, Views
  <2>. HIDE DEF waits
  <2>3. Stops(f) /\ Draws(f, waits.view, waits.uid, waits.code)
    BY <1>2, <2>1, <2>2, EndsDraws
  <2>. QED
    BY <1>1, <1>3, <1>4, <1>7, <2>2, <2>3
<1>8. CASE status[q.user] = "active" /\ q.kind = "submit"
  <2>1. Goes(f, [q EXCEPT !.step = "boot"]) /\ Sets(f, kept)
    BY <1>1, <1>8
  <2>2. [q EXCEPT !.step = "boot"] = Put(q, "boot", q.keys, q.dev, q.list)
    BY <1>3, PutStep DEF Steps
  <2>3. Moves(f, "boot", q.keys, q.dev, q.list)
    BY <2>1, <2>2 DEF Goes, Moves
  <2>4. Draws(f, form.view, q.user, q.user)
    BY <1>2, <1>3, <1>5, <2>1 DEF Draws, Sets
  <2>. QED
    BY <1>1, <1>3, <1>4, <1>8, <2>3, <2>4
<1>9. CASE status[q.user] = "active" /\ q.kind = "check"
  <2>1. Login(f, form)
    BY <1>1, <1>9
  <2>2. /\ Draws(f, form.view, form.uid, form.code)
        /\ \/ Stops(f) /\ flow[f].kind = "check"
           \/ Moves(f, "challenge", flow[f].keys, flow[f].dev, flow[f].list)
    BY <1>2, <2>1, LoginDoes
  <2>. QED
    BY <1>1, <1>3, <1>4, <1>9, <2>2
<1>10. CASE status[q.user] = "active" /\ q.kind \notin {"submit", "check"}
  <2>1. Login(f, kept)
    BY <1>1, <1>10
  <2>2. /\ Draws(f, kept.view, kept.uid, kept.code)
        /\ \/ Stops(f) /\ flow[f].kind = "check"
           \/ Moves(f, "challenge", flow[f].keys, flow[f].dev, flow[f].list)
    BY <1>2, <1>5, <1>10, <2>1, LoginDoes
  <2>. QED
    BY <1>1, <1>3, <1>4, <1>5, <1>10, <2>2
<1>. QED
  BY <1>6, <1>7, <1>8, <1>9, <1>10

\* The form of a handler that changes nothing a property looks at.
LEMMA SameForm ==
    ASSUME form \in Forms, UNCHANGED form, NEW f \in Flow
    PROVE  Draws(f, form.view, form.uid, form.code)
  BY DEF Draws

LEMMA EndsSame ==
    ASSUME form \in Forms, FlowTyped, NEW f \in Flow, flow[f].step # "idle",
           NEW m \in BOOLEAN, Ends(f, [form EXCEPT !.maint = m])
    PROVE  Stops(f) /\ Draws(f, form.view, form.uid, form.code)
<1>. DEFINE n == [form EXCEPT !.maint = m]
<1>1. /\ n \in Forms /\ n.view = form.view /\ n.email = form.email
      /\ n.uid = form.uid /\ n.code = form.code
  BY DEF Forms
<1>2. Ends(f, n)
  OBVIOUS
<1>. HIDE DEF n
<1>. QED
  BY <1>1, <1>2, EndsDraws

LEMMA EndsSameForm ==
    ASSUME form \in Forms, FlowTyped, NEW f \in Flow, flow[f].step # "idle", Ends(f, form)
    PROVE  Stops(f) /\ Draws(f, form.view, form.uid, form.code)
  BY EndsDraws

LEMMA EndsAt ==
    ASSUME form \in Forms, FlowTyped, NEW f \in Flow, flow[f].step # "idle",
           NEW v \in Views, Ends(f, [form EXCEPT !.view = v])
    PROVE  Stops(f) /\ Draws(f, v, form.uid, form.code)
<1>. DEFINE n == [form EXCEPT !.view = v]
<1>1. /\ n \in Forms /\ n.view = v /\ n.email = form.email
      /\ n.uid = form.uid /\ n.code = form.code
  BY DEF Forms
<1>2. Ends(f, n)
  OBVIOUS
<1>. HIDE DEF n
<1>. QED
  BY <1>1, <1>2, EndsDraws

LEMMA EndsAtRegister ==
    ASSUME form \in Forms, FlowTyped, NEW f \in Flow, flow[f].step # "idle",
           NEW u \in Users, Ends(f, [form EXCEPT !.uid = u, !.view = "REGISTER"])
    PROVE  Stops(f) /\ Draws(f, "REGISTER", u, form.code)
<1>. DEFINE n == [form EXCEPT !.uid = u, !.view = "REGISTER"]
<1>1. /\ n \in Forms /\ n.view = "REGISTER" /\ n.email = form.email
      /\ n.uid = u /\ n.code = form.code
  BY DEF Forms, Views
<1>2. Ends(f, n)
  OBVIOUS
<1>. HIDE DEF n
<1>. QED
  BY <1>1, <1>2, EndsDraws

LEMMA AccessFailsDoes ==
    ASSUME Typed, NEW f \in Flow, AccessFails(f)
    PROVE  /\ flow[f].step = "access" /\ Inside
           /\ UNCHANGED <<devices, live, boots, vault, token, keysMade, broke>>
           /\ Stops(f) /\ Draws(f, form.view, form.uid, form.code)
           /\ \/ flow[f].user = NoUser /\ UNCHANGED <<status, fails>>
              \/ /\ flow[f].user \in User /\ fails' = fails + 1
                 /\ UNCHANGED status \/ Asked(flow[f].user)
<1>. DEFINE q == flow[f]
<1>1. /\ q.step = "access"
      /\ IF q.user = NoUser THEN UNCHANGED <<status, fails>>
         ELSE Fault /\ (UNCHANGED status \/ Asked(q.user))
      /\ \E m \in {form.maint, q.kind = "submit"} : Ends(f, [form EXCEPT !.maint = m])
      /\ UNCHANGED <<named, devices, live, boots, diskVars, appVars, token, sideVars,
                     boundVars, broke>>
  BY DEF AccessFails
<1>2. form \in Forms /\ FlowTyped /\ q.step # "idle"
  BY <1>1 DEF Typed
<1>3. q \in Flows /\ q.user \in Users /\ form.maint \in BOOLEAN
  BY <1>1, <1>2, BusyIsFlow DEF Flows, Forms
<1>4. Inside /\ UNCHANGED <<devices, live, boots, vault, token, keysMade, broke>>
  BY <1>1 DEF Inside, diskVars, boundVars
<1>5. PICK m \in {form.maint, q.kind = "submit"} : Ends(f, [form EXCEPT !.maint = m])
  BY <1>1
<1>6. m \in BOOLEAN
  BY <1>3
<1>7. Stops(f) /\ Draws(f, form.view, form.uid, form.code)
  BY <1>2, <1>5, <1>6, EndsSame
<1>8. \/ q.user = NoUser /\ UNCHANGED <<status, fails>>
      \/ q.user \in User /\ fails' = fails + 1 /\ (UNCHANGED status \/ Asked(q.user))
  BY <1>1, <1>3 DEF Fault, Users
<1>. QED
  BY <1>1, <1>4, <1>7, <1>8

\* What the login, asked for with the form as it is, comes to.
AsksChallenge(f) ==
    /\ Draws(f, form.view, form.uid, form.code)
    /\ \/ Stops(f) /\ flow[f].kind = "check"
       \/ Moves(f, "challenge", flow[f].keys, flow[f].dev, flow[f].list)

LEMMA BootstrapAnsweredDoes ==
    ASSUME Typed, NEW f \in Flow, BootstrapAnswered(f)
    PROVE  /\ flow[f].step = "boot" /\ flow[f].user \in User /\ Inside
           /\ UNCHANGED <<status, devices, vault, token, keysMade, broke>>
           /\ \/ /\ flow[f].user = Admin /\ boots > 0 /\ boots' = boots - 1
                 /\ live' = live \cup {TokenOf(flow[f])} /\ UNCHANGED fails
                 /\ Moves(f, "returning", flow[f].keys, flow[f].dev, flow[f].list)
                 /\ Draws(f, "LOADING", form.uid, form.code)
              \/ /\ flow[f].user = Admin /\ boots > 0 /\ boots' = boots - 1
                 /\ UNCHANGED live /\ fails' = fails + 1 /\ AsksChallenge(f)
              \/ /\ flow[f].user # Admin \/ boots = 0
                 /\ UNCHANGED <<boots, live, fails>> /\ AsksChallenge(f)
<1>. DEFINE q == flow[f]
            loading == [form EXCEPT !.view = "LOADING"]
<1>1. /\ q.step = "boot"
      /\ \/ /\ q.user = Admin /\ boots > 0
            /\ boots' = boots - 1 /\ live' = live \cup {TokenOf(q)}
            /\ Goes(f, [q EXCEPT !.step = "returning"])
            /\ Sets(f, loading) /\ UNCHANGED fails
         \/ /\ q.user = Admin /\ boots > 0 /\ Fault
            /\ boots' = boots - 1 /\ UNCHANGED live /\ Login(f, form)
         \/ /\ q.user # Admin \/ boots = 0
            /\ Login(f, form) /\ UNCHANGED <<boots, live, fails>>
      /\ UNCHANGED <<status, named, devices, diskVars, appVars, token, sideVars,
                     boundVars, broke>>
  BY DEF BootstrapAnswered
<1>2. form \in Forms /\ FlowTyped /\ q.step # "idle"
  BY <1>1 DEF Typed
<1>3. q \in Flows /\ q.user \in User /\ q.keys \in Nat /\ q.dev \in Nat
      /\ q.list \in SUBSET Nat /\ q.orphan \in BOOLEAN
  BY <1>1, <1>2, BusyIsFlow DEF Flows, FlowTyped
<1>4. Inside /\ UNCHANGED <<status, devices, vault, token, keysMade, broke>>
  BY <1>1 DEF Inside, diskVars, boundVars
<1>5. Login(f, form) => AsksChallenge(f)
  BY <1>2, LoginDoes DEF AsksChallenge
<1>6. Goes(f, [q EXCEPT !.step = "returning"])
        => Moves(f, "returning", q.keys, q.dev, q.list)
  <2>1. [q EXCEPT !.step = "returning"] = Put(q, "returning", q.keys, q.dev, q.list)
    BY <1>3, PutStep DEF Steps
  <2>. QED
    BY <2>1 DEF Goes, Moves
<1>7. Sets(f, loading) => Draws(f, "LOADING", form.uid, form.code)
  <2>1. /\ loading \in Forms /\ loading.view = "LOADING" /\ loading.email = form.email
        /\ loading.uid = form.uid /\ loading.code = form.code
    BY <1>2 DEF Forms, Views
  <2>. HIDE DEF loading
  <2>. QED
    BY <1>2, <1>3, <2>1 DEF Sets, Draws
<1>. QED
  BY <1>1, <1>3, <1>4, <1>5, <1>6, <1>7 DEF Fault

LEMMA ReturningAdminDoes ==
    ASSUME Typed, NEW f \in Flow, ReturningAdmin(f)
    PROVE  /\ flow[f].step = "returning" /\ flow[f].user \in User /\ Inside
           /\ token' = TokenOf(flow[f])
           /\ UNCHANGED <<status, devices, live, boots, vault, keysMade, broke>>
           /\ \/ /\ vault.keys # 0 /\ vault.device # 0 /\ UNCHANGED fails
                 /\ Moves(f, "enter", vault.keys, flow[f].dev, {vault.device})
                 /\ Draws(f, form.view, form.uid, form.code)
              \/ /\ \/ ~ (vault.keys # 0 /\ vault.device # 0) /\ UNCHANGED fails
                    \/ fails' = fails + 1
                 /\ Moves(f, "setup", flow[f].keys, flow[f].dev, flow[f].list)
                 /\ Draws(f, form.view, flow[f].user, form.code)
<1>. DEFINE q == flow[f]
            has == vault.keys # 0 /\ vault.device # 0
            n == [form EXCEPT !.uid = q.user]
<1>1. /\ q.step = "returning" /\ token' = TokenOf(q)
      /\ \/ /\ has
            /\ Goes(f, [q EXCEPT !.step = "enter", !.keys = vault.keys,
                                 !.list = {vault.device}])
            /\ UNCHANGED <<form, fails>>
         \/ /\ IF has THEN Fault ELSE UNCHANGED fails
            /\ Goes(f, [q EXCEPT !.step = "setup"]) /\ Sets(f, n)
      /\ UNCHANGED <<serverVars, diskVars, appVars, sideVars, boundVars, broke>>
  BY DEF ReturningAdmin
<1>2. form \in Forms /\ FlowTyped /\ q.step # "idle" /\ vault.keys \in Nat
      /\ vault.device \in Nat
  BY <1>1 DEF Typed, DiskTyped, Vaults
<1>3. q \in Flows /\ q.user \in User /\ q.keys \in Nat /\ q.dev \in Nat
      /\ q.list \in SUBSET Nat /\ q.orphan \in BOOLEAN
  BY <1>1, <1>2, BusyIsFlow DEF Flows, FlowTyped
<1>4. Inside /\ UNCHANGED <<status, devices, live, boots, vault, keysMade, broke>>
  BY <1>1 DEF Inside, serverVars, diskVars, boundVars
<1>5. Goes(f, [q EXCEPT !.step = "enter", !.keys = vault.keys, !.list = {vault.device}])
        => Moves(f, "enter", vault.keys, q.dev, {vault.device})
  <2>1. {vault.device} \in SUBSET Nat /\ "enter" \in Steps
    BY <1>2 DEF Steps
  <2>2. [q EXCEPT !.step = "enter", !.keys = vault.keys, !.list = {vault.device}]
          = Put(q, "enter", vault.keys, q.dev, {vault.device})
    <3>1. q \in Flows
      BY <1>3
    <3>. QED
      BY <3>1 DEF Put, Flows
  <2>. QED
    BY <2>2 DEF Goes, Moves
<1>6. Goes(f, [q EXCEPT !.step = "setup"]) => Moves(f, "setup", q.keys, q.dev, q.list)
  <2>1. [q EXCEPT !.step = "setup"] = Put(q, "setup", q.keys, q.dev, q.list)
    BY <1>3, PutStep DEF Steps
  <2>. QED
    BY <2>1 DEF Goes, Moves
<1>7. Sets(f, n) => Draws(f, form.view, q.user, form.code)
  <2>1. /\ n \in Forms /\ n.view = form.view /\ n.email = form.email
        /\ n.uid = q.user /\ n.code = form.code
    BY <1>2, <1>3 DEF Forms, Users
  <2>. HIDE DEF n
  <2>. QED
    BY <1>2, <1>3, <2>1 DEF Sets, Draws
<1>8. UNCHANGED form => Draws(f, form.view, form.uid, form.code)
  BY <1>2, SameForm
<1>. HIDE DEF n
<1>. QED
  BY <1>1, <1>3, <1>4, <1>5, <1>6, <1>7, <1>8 DEF Fault

LEMMA CompleteSetupDoes ==
    ASSUME Typed, NEW f \in Flow, CompleteSetup(f)
    PROVE  /\ flow[f].step = "setup" /\ flow[f].user \in User /\ Inside
           /\ UNCHANGED <<status, devices, live, boots, token>>
           /\ Draws(f, form.view, form.uid, form.code)
           /\ \/ /\ keysMade' = keysMade + 1 /\ vault' = [vault EXCEPT !.keys = keysMade']
                 /\ Moves(f, "enter", keysMade', flow[f].dev, flow[f].list)
                 /\ (vault.keys = 0 /\ UNCHANGED fails) \/ fails' = fails + 1
                 /\ UNCHANGED broke
              \/ Stops(f) /\ UNCHANGED <<vault, keysMade>> /\ fails' \in {fails, fails + 1}
                 /\ broke' = TRUE
<1>. DEFINE q == flow[f]
<1>1. /\ q.step = "setup"
      /\ \/ /\ keysMade' = keysMade + 1
            /\ IF vault.keys = 0 THEN UNCHANGED fails ELSE Fault
            /\ vault' = [vault EXCEPT !.keys = keysMade']
            /\ Goes(f, [q EXCEPT !.step = "enter", !.keys = keysMade'])
            /\ UNCHANGED <<form, broke>>
         \/ /\ IF vault.keys = 0 THEN Fault ELSE UNCHANGED fails
            /\ Ends(f, form) /\ broke' = TRUE /\ UNCHANGED <<vault, keysMade>>
      /\ UNCHANGED <<serverVars, saved, appVars, token, sideVars,
                     elsewhere, begun, restarts, crossed>>
  BY DEF CompleteSetup
<1>2. form \in Forms /\ FlowTyped /\ q.step # "idle"
  BY <1>1 DEF Typed
<1>3. q \in Flows /\ q.user \in User
  BY <1>1, <1>2, BusyIsFlow DEF Flows, FlowTyped
<1>4. Inside /\ UNCHANGED <<status, devices, live, boots, token>>
  BY <1>1 DEF Inside, serverVars
<1>5. Goes(f, [q EXCEPT !.step = "enter", !.keys = keysMade'])
        => Moves(f, "enter", keysMade', q.dev, q.list)
  <2>1. [q EXCEPT !.step = "enter", !.keys = keysMade']
          = Put(q, "enter", keysMade', q.dev, q.list)
    BY <1>3 DEF Put, Flows
  <2>. QED
    BY <2>1 DEF Goes, Moves
<1>6. Ends(f, form) => Stops(f) /\ Draws(f, form.view, form.uid, form.code)
  BY <1>2, EndsSameForm
<1>7. UNCHANGED form => Draws(f, form.view, form.uid, form.code)
  BY <1>2, SameForm
<1>. QED
  BY <1>1, <1>3, <1>4, <1>5, <1>6, <1>7 DEF Fault

LEMMA ActiveAreNumbers ==
    ASSUME devices \in Seq(Devices), NEW u
    PROVE  /\ ActiveDevices(u) \in SUBSET Nat
           /\ \A d \in ActiveDevices(u) : /\ d \in 1 .. Len(devices) /\ d # 0
                                          /\ devices[d].owner = u /\ devices[d].active
  BY DEF ActiveDevices

LEMMA ChallengeAnsweredDoes ==
    ASSUME Typed, NEW f \in Flow, ChallengeAnswered(f)
    PROVE  /\ flow[f].step = "challenge" /\ flow[f].user \in User /\ Inside
           /\ UNCHANGED <<status, devices, live, boots, vault, token, keysMade, fails, broke>>
           /\ Draws(f, form.view, form.uid, form.code)
           /\ Moves(f, "match", flow[f].keys, flow[f].dev, ActiveDevices(flow[f].user))
<1>. DEFINE q == flow[f]
<1>1. /\ q.step = "challenge"
      /\ Goes(f, [q EXCEPT !.step = "match", !.list = ActiveDevices(q.user)])
      /\ UNCHANGED <<serverVars, diskVars, appVars, form, token, sideVars, boundVars,
                     fails, broke>>
  BY DEF ChallengeAnswered
<1>2. form \in Forms /\ FlowTyped /\ q.step # "idle"
  BY <1>1 DEF Typed
<1>3. q \in Flows /\ q.user \in User
  BY <1>1, <1>2, BusyIsFlow DEF Flows, FlowTyped
<1>4. Inside /\ UNCHANGED <<status, devices, live, boots, vault, token, keysMade, fails,
                            broke>>
  BY <1>1 DEF Inside, serverVars, diskVars, boundVars
<1>5. [q EXCEPT !.step = "match", !.list = ActiveDevices(q.user)]
        = Put(q, "match", q.keys, q.dev, ActiveDevices(q.user))
  BY <1>3 DEF Put, Flows
<1>6. Draws(f, form.view, form.uid, form.code)
  BY <1>1, <1>2, SameForm
<1>. QED
  BY <1>1, <1>3, <1>4, <1>5, <1>6 DEF Goes, Moves

LEMMA MatchDeviceDoes ==
    ASSUME Typed, NEW f \in Flow, MatchDevice(f)
    PROVE  /\ flow[f].step = "match" /\ flow[f].user \in User /\ Inside
           /\ UNCHANGED <<status, devices, live, boots, vault, token, keysMade, broke>>
           /\ \/ /\ vault.keys # 0 /\ vault.device \in flow[f].list /\ UNCHANGED fails
                 /\ Draws(f, form.view, form.uid, form.code)
                 /\ Moves(f, "verify", vault.keys, vault.device, flow[f].list)
              \/ /\ Stops(f) /\ Draws(f, "REGISTER", flow[f].user, form.code)
                 /\ fails' \in {fails, fails + 1}
<1>. DEFINE q == flow[f]
            here == vault.keys # 0 /\ vault.device \in q.list
            n == [form EXCEPT !.uid = q.user, !.view = "REGISTER"]
<1>1. /\ q.step = "match"
      /\ \/ /\ here
            /\ Goes(f, [q EXCEPT !.step = "verify", !.keys = vault.keys, !.dev = vault.device])
            /\ UNCHANGED <<form, fails>>
         \/ /\ IF here THEN Fault ELSE UNCHANGED fails
            /\ Ends(f, n)
      /\ UNCHANGED <<serverVars, diskVars, appVars, token, sideVars, boundVars, broke>>
  BY DEF MatchDevice
<1>2. form \in Forms /\ FlowTyped /\ q.step # "idle"
  BY <1>1 DEF Typed
<1>3. q \in Flows /\ q.user \in User
  BY <1>1, <1>2, BusyIsFlow DEF Flows, FlowTyped
<1>4. Inside /\ UNCHANGED <<status, devices, live, boots, vault, token, keysMade, broke>>
  BY <1>1 DEF Inside, serverVars, diskVars, boundVars
<1>5. Goes(f, [q EXCEPT !.step = "verify", !.keys = vault.keys, !.dev = vault.device])
        => Moves(f, "verify", vault.keys, vault.device, q.list)
  <2>1. [q EXCEPT !.step = "verify", !.keys = vault.keys, !.dev = vault.device]
          = Put(q, "verify", vault.keys, vault.device, q.list)
    BY <1>3 DEF Put, Flows
  <2>. QED
    BY <2>1 DEF Goes, Moves
<1>6. Ends(f, n) => Stops(f) /\ Draws(f, "REGISTER", q.user, form.code)
  BY <1>2, <1>3, EndsAtRegister DEF Users
<1>7. UNCHANGED form => Draws(f, form.view, form.uid, form.code)
  BY <1>2, SameForm
<1>. HIDE DEF n
<1>. QED
  BY <1>1, <1>3, <1>4, <1>5, <1>6, <1>7 DEF Fault

LEMMA VerifyAnsweredDoes ==
    ASSUME Typed, NEW f \in Flow, VerifyAnswered(f)
    PROVE  /\ flow[f].step = "verify" /\ flow[f].user \in User /\ Inside
           /\ UNCHANGED <<status, devices, boots, vault, keysMade, fails, broke>>
           /\ \/ /\ devices[flow[f].dev].key = flow[f].keys
                 /\ token' = TokenOf(flow[f]) /\ live' = live \cup {TokenOf(flow[f])}
                 /\ Draws(f, form.view, form.uid, form.code)
                 /\ Moves(f, "enter", flow[f].keys, flow[f].dev, {flow[f].dev})
              \/ /\ token' = NoToken /\ Stops(f) /\ UNCHANGED live
                 /\ \/ Draws(f, "REGISTER", flow[f].user, form.code)
                    \/ Draws(f, form.view, form.uid, form.code)
<1>. DEFINE q == flow[f]
            known == devices[q.dev].active
            signed == devices[q.dev].key = q.keys
            n == [form EXCEPT !.uid = q.user, !.view = "REGISTER"]
<1>1. /\ q.step = "verify"
      /\ IF known /\ signed
         THEN /\ token' = TokenOf(q) /\ live' = live \cup {TokenOf(q)}
              /\ Goes(f, [q EXCEPT !.step = "enter", !.list = {q.dev}])
              /\ UNCHANGED form
         ELSE /\ token' = NoToken
              /\ Ends(f, IF known THEN n ELSE form)
              /\ UNCHANGED live
      /\ UNCHANGED <<status, named, devices, boots, diskVars, appVars, sideVars,
                     boundVars, fails, broke>>
  BY DEF VerifyAnswered
<1>2. form \in Forms /\ FlowTyped /\ q.step # "idle"
  BY <1>1 DEF Typed
<1>3. q \in Flows /\ q.user \in User
  BY <1>1, <1>2, BusyIsFlow DEF Flows, FlowTyped
<1>4. Inside /\ UNCHANGED <<status, devices, boots, vault, keysMade, fails, broke>>
  BY <1>1 DEF Inside, diskVars, boundVars
<1>5. Goes(f, [q EXCEPT !.step = "enter", !.list = {q.dev}])
        => Moves(f, "enter", q.keys, q.dev, {q.dev})
  <2>1. [q EXCEPT !.step = "enter", !.list = {q.dev}] = Put(q, "enter", q.keys, q.dev, {q.dev})
    BY <1>3 DEF Put, Flows
  <2>. QED
    BY <2>1 DEF Goes, Moves
<1>6. Ends(f, n) => Stops(f) /\ Draws(f, "REGISTER", q.user, form.code)
  BY <1>2, <1>3, EndsAtRegister DEF Users
<1>7. UNCHANGED form => Draws(f, form.view, form.uid, form.code)
  BY <1>2, SameForm
<1>8. Ends(f, form) => Stops(f) /\ Draws(f, form.view, form.uid, form.code)
  BY <1>2, EndsSameForm
<1>. HIDE DEF n
<1>9. CASE known /\ signed
  BY <1>1, <1>3, <1>4, <1>5, <1>7, <1>9
<1>10. CASE ~ (known /\ signed)
  <2>1. token' = NoToken /\ UNCHANGED live /\ (Ends(f, n) \/ Ends(f, form))
    BY <1>1, <1>10
  <2>. QED
    BY <1>1, <1>3, <1>4, <1>6, <1>8, <2>1
<1>. QED
  BY <1>9, <1>10

LEMMA LoginFailsDoes ==
    ASSUME Typed, NEW f \in Flow, LoginFails(f)
    PROVE  /\ flow[f].step \in {"challenge", "verify"} /\ Inside
           /\ UNCHANGED <<status, devices, live, boots, vault, token, keysMade, broke>>
           /\ Stops(f) /\ Draws(f, form.view, form.uid, form.code) /\ fails' = fails + 1
<1>1. /\ flow[f].step \in {"challenge", "verify"} /\ Fault
      /\ \E m \in Reports : Ends(f, [form EXCEPT !.maint = m])
      /\ UNCHANGED <<serverVars, diskVars, appVars, token, sideVars, boundVars, broke>>
  BY DEF LoginFails
<1>2. form \in Forms /\ FlowTyped /\ flow[f].step # "idle" /\ form.maint \in BOOLEAN
  BY <1>1 DEF Typed, Forms
<1>3. PICK m \in Reports : Ends(f, [form EXCEPT !.maint = m])
  BY <1>1
<1>4. m \in BOOLEAN
  BY <1>2 DEF Reports
<1>5. Stops(f) /\ Draws(f, form.view, form.uid, form.code)
  BY <1>2, <1>3, <1>4, EndsSame
<1>. QED
  BY <1>1, <1>5 DEF Inside, Fault, serverVars, diskVars, boundVars

LEMMA RegisterAnsweredDoes ==
    ASSUME Typed, NEW f \in Flow, RegisterAnswered(f)
    PROVE  /\ flow[f].step = "post" /\ Inside
           /\ UNCHANGED <<status, boots, vault, keysMade, broke>>
           /\ \/ /\ flow[f].user \in User /\ flow[f].code = flow[f].user
                 /\ Registered(flow[f]) /\ UNCHANGED <<token, fails>>
                 /\ Draws(f, form.view, form.uid, form.code)
                 /\ Moves(f, "keys", flow[f].keys, Len(devices'), flow[f].list)
              \/ /\ flow[f].user \in User /\ flow[f].code = flow[f].user
                 /\ Registered(flow[f]) \/ UNCHANGED <<devices, live>>
                 /\ Stops(f) /\ Draws(f, "REGISTER", form.uid, form.code)
                 /\ UNCHANGED token /\ fails' = fails + 1
              \/ /\ token' \in {token, NoToken} /\ UNCHANGED <<devices, live, fails>>
                 /\ Stops(f) /\ Draws(f, "REGISTER", form.uid, form.code)
<1>. DEFINE q == flow[f]
            right == q.user # NoUser /\ q.code = q.user
            n == [form EXCEPT !.view = "REGISTER"]
<1>1. /\ q.step = "post"
      /\ \/ /\ right /\ Registered(q)
            /\ Goes(f, [q EXCEPT !.step = "keys", !.dev = Len(devices')])
            /\ UNCHANGED <<form, token, fails>>
         \/ /\ right /\ Fault
            /\ Registered(q) \/ UNCHANGED <<devices, live>>
            /\ Ends(f, n) /\ UNCHANGED token
         \/ /\ ~ right
            /\ token' = IF q.user = NoUser THEN token ELSE NoToken
            /\ Ends(f, n) /\ UNCHANGED <<devices, live, fails>>
      /\ UNCHANGED <<status, named, boots, diskVars, appVars, sideVars, boundVars, broke>>
  BY DEF RegisterAnswered
<1>2. form \in Forms /\ FlowTyped /\ q.step # "idle"
  BY <1>1 DEF Typed
<1>3. q \in Flows /\ q.user \in Users
  BY <1>1, <1>2, BusyIsFlow DEF Flows
<1>4. Inside /\ UNCHANGED <<status, boots, vault, keysMade, broke>>
  BY <1>1 DEF Inside, diskVars, boundVars
<1>5. Goes(f, [q EXCEPT !.step = "keys", !.dev = Len(devices')])
        => Moves(f, "keys", q.keys, Len(devices'), q.list)
  <2>1. [q EXCEPT !.step = "keys", !.dev = Len(devices')]
          = Put(q, "keys", q.keys, Len(devices'), q.list)
    BY <1>3 DEF Put, Flows
  <2>. QED
    BY <2>1 DEF Goes, Moves
<1>6. Ends(f, n) => Stops(f) /\ Draws(f, "REGISTER", form.uid, form.code)
  BY <1>2, EndsAt DEF Views
<1>7. UNCHANGED form => Draws(f, form.view, form.uid, form.code)
  BY <1>2, SameForm
<1>8. right => q.user \in User
  BY <1>3 DEF Users
<1>. HIDE DEF n
<1>. QED
  BY <1>1, <1>4, <1>5, <1>6, <1>7, <1>8 DEF Fault

LEMMA SaveAnchorsDoes ==
    ASSUME Typed, NEW f \in Flow, SaveAnchors(f)
    PROVE  /\ flow[f].step \in {"keys", "device", "otpks"} /\ flow[f].user \in User /\ Inside
           /\ UNCHANGED <<status, devices, live, boots, keysMade, broke>>
           /\ \/ /\ flow[f].step = "keys" /\ vault' = [vault EXCEPT !.keys = flow[f].keys]
                 /\ Draws(f, form.view, form.uid, form.code) /\ UNCHANGED <<token, fails>>
                 /\ Moves(f, "device", flow[f].keys, flow[f].dev, {flow[f].dev})
              \/ /\ flow[f].step = "device" /\ vault' = [vault EXCEPT !.device = flow[f].dev]
                 /\ Draws(f, form.view, form.uid, form.code) /\ UNCHANGED <<token, fails>>
                 /\ Moves(f, "otpks", flow[f].keys, flow[f].dev, {flow[f].dev})
              \/ /\ flow[f].step = "otpks" /\ token' = TokenOf(flow[f])
                 /\ Draws(f, form.view, form.uid, form.code) /\ UNCHANGED <<vault, fails>>
                 /\ Moves(f, "enter", flow[f].keys, flow[f].dev, {flow[f].dev})
              \/ /\ Stops(f) /\ Draws(f, "REGISTER", form.uid, form.code)
                 /\ UNCHANGED <<vault, token>> /\ fails' = fails + 1
<1>. DEFINE q == flow[f]
            next == CASE q.step = "keys" -> "device"
                      [] q.step = "device" -> "otpks"
                      [] OTHER -> "enter"
            n == [form EXCEPT !.view = "REGISTER"]
<1>1. /\ q.step \in {"keys", "device", "otpks"}
      /\ \/ /\ Goes(f, [q EXCEPT !.step = next, !.list = {q.dev}])
            /\ vault' = CASE q.step = "keys" -> [vault EXCEPT !.keys = q.keys]
                          [] q.step = "device" -> [vault EXCEPT !.device = q.dev]
                          [] OTHER -> vault
            /\ token' = IF q.step = "otpks" THEN TokenOf(q) ELSE token
            /\ UNCHANGED <<form, fails>>
         \/ Fault /\ Ends(f, n) /\ UNCHANGED <<vault, token>>
      /\ UNCHANGED <<serverVars, saved, appVars, sideVars, boundVars, broke>>
  BY DEF SaveAnchors
<1>2. form \in Forms /\ FlowTyped /\ q.step # "idle"
  BY <1>1 DEF Typed
<1>3. q \in Flows /\ q.user \in User
  BY <1>1, <1>2, BusyIsFlow DEF Flows, FlowTyped
<1>4. Inside /\ UNCHANGED <<status, devices, live, boots, keysMade, broke>>
  BY <1>1 DEF Inside, serverVars, boundVars
<1>5. ASSUME NEW s, Goes(f, [q EXCEPT !.step = s, !.list = {q.dev}])
      PROVE  Moves(f, s, q.keys, q.dev, {q.dev})
  <2>1. [q EXCEPT !.step = s, !.list = {q.dev}] = Put(q, s, q.keys, q.dev, {q.dev})
    BY <1>3 DEF Put, Flows
  <2>. QED
    BY <1>5, <2>1 DEF Goes, Moves
<1>6. Ends(f, n) => Stops(f) /\ Draws(f, "REGISTER", form.uid, form.code)
  BY <1>2, EndsAt DEF Views
<1>7. UNCHANGED form => Draws(f, form.view, form.uid, form.code)
  BY <1>2, SameForm
<1>8. CASE Fault /\ Ends(f, n) /\ UNCHANGED <<vault, token>>
  BY <1>1, <1>3, <1>4, <1>6, <1>8 DEF Fault
<1>9. CASE /\ Goes(f, [q EXCEPT !.step = next, !.list = {q.dev}])
           /\ vault' = CASE q.step = "keys" -> [vault EXCEPT !.keys = q.keys]
                         [] q.step = "device" -> [vault EXCEPT !.device = q.dev]
                         [] OTHER -> vault
           /\ token' = IF q.step = "otpks" THEN TokenOf(q) ELSE token
           /\ UNCHANGED <<form, fails>>
  <2>1. Moves(f, next, q.keys, q.dev, {q.dev})
    <3>. HIDE DEF next
    <3>. QED
      BY <1>5, <1>9
  <2>2. CASE q.step = "keys"
    BY <1>3, <1>4, <1>7, <1>9, <2>1, <2>2
  <2>3. CASE q.step = "device"
    BY <1>3, <1>4, <1>7, <1>9, <2>1, <2>3
  <2>4. CASE q.step = "otpks"
    BY <1>3, <1>4, <1>7, <1>9, <2>1, <2>4
  <2>. QED
    BY <1>1, <2>2, <2>3, <2>4
<1>. QED
  BY <1>1, <1>8, <1>9

\* A handler that begins.
New(kind, s, u, key) ==
    [step |-> s, kind |-> kind, no |-> begun + 1, orphan |-> FALSE, user |-> u,
     uid |-> form.uid, code |-> form.code, submitting |-> form.submitting,
     keys |-> key, dev |-> 0, list |-> {}]

Begins(f, kind, s, u, key) ==
    /\ root = "AUTH" /\ ~ Busy(f) /\ begun' = begun + 1
    /\ flow' = [flow EXCEPT ![f] = New(kind, s, u, key)]
    /\ crossed' = (crossed \/ loads # {} \/ \E g \in Flow : Busy(g))
    /\ UNCHANGED <<serverVars, diskVars, appVars, token, sideVars, elsewhere,
                   fails, restarts, broke>>

LEMMA NewIs ==
    ASSUME form \in Forms, begun \in Nat, NEW kind \in {"submit", "select", "check", "register"},
           NEW s \in Steps, NEW u \in Users, NEW key \in Nat
    PROVE  New(kind, s, u, key) \in Flows
  BY DEF New, Flows, Forms

LEMMA RequestAccessDoes ==
    ASSUME Typed, NEW f \in Flow, RequestAccess(f)
    PROVE  /\ form.email \in User /\ form.view = "HOME" /\ UNCHANGED keysMade
           /\ Begins(f, "submit", "access", form.email, 0)
           /\ form' \in Forms /\ form'.submitting /\ form'.view = "HOME"
           /\ form'.email = form.email /\ form'.uid = form.uid /\ form'.code = form.code
<1>1. form \in Forms /\ form.email \in Users
  BY DEF Typed, Forms
<1>2. form.email # NoUser /\ form.view = "HOME" /\ UNCHANGED keysMade
  BY DEF RequestAccess, Enabled, HomeForm, OnScreen
<1>3. Begins(f, "submit", "access", form.email, 0)
  BY DEF RequestAccess, Begin, Begins, Goes, New
<1>4. form' = [form EXCEPT !.submitting = TRUE, !.maint = FALSE]
  BY DEF RequestAccess
<1>. QED
  BY <1>1, <1>2, <1>3, <1>4 DEF Forms, Users

LEMMA AccountSelectDoes ==
    ASSUME Typed, NEW f \in Flow, NEW u \in User, AccountSelect(f, u)
    PROVE  /\ u \in saved /\ form.view = "HOME" /\ UNCHANGED keysMade
           /\ Begins(f, "select", "access", u, 0)
           /\ form' \in Forms /\ form'.submitting /\ form'.view = "HOME"
           /\ form'.email = u /\ form'.uid = form.uid /\ form'.code = form.code
<1>1. form \in Forms
  BY DEF Typed
<1>2. u \in saved /\ form.view = "HOME" /\ UNCHANGED keysMade
  BY DEF AccountSelect, Profiles, HomeForm, OnScreen
<1>3. Begins(f, "select", "access", u, 0)
  BY DEF AccountSelect, Begin, Begins, Goes, New
<1>4. form' = [form EXCEPT !.submitting = TRUE, !.email = u]
  BY DEF AccountSelect
<1>. QED
  BY <1>1, <1>2, <1>3, <1>4 DEF Forms, Users

LEMMA CheckApprovalDoes ==
    ASSUME Typed, NEW f \in Flow, CheckApproval(f)
    PROVE  /\ form.email \in Users /\ form.view = "WAITING" /\ UNCHANGED keysMade
           /\ Begins(f, "check", "access", form.email, 0)
           /\ form' \in Forms /\ form'.view = "WAITING"
           /\ form'.email = form.email /\ form'.uid = form.uid /\ form'.code = form.code
<1>1. form \in Forms /\ form.email \in Users
  BY DEF Typed, Forms
<1>2. form.view = "WAITING" /\ UNCHANGED keysMade
  BY DEF CheckApproval, Waiting, OnScreen
<1>3. Begins(f, "check", "access", form.email, 0)
  BY DEF CheckApproval, Begin, Begins, Goes, New
<1>4. form' = [form EXCEPT !.checking = TRUE]
  BY DEF CheckApproval
<1>. QED
  BY <1>1, <1>2, <1>3, <1>4 DEF Forms

LEMMA RegisterDeviceDoes ==
    ASSUME Typed, NEW f \in Flow, RegisterDevice(f)
    PROVE  /\ form.email \in Users /\ form.uid \in User /\ keysMade' = keysMade + 1
           /\ Begins(f, "register", "post", form.email, keysMade')
           /\ form' \in Forms /\ form'.view = "LOADING"
           /\ form'.email = form.email /\ form'.uid = form.uid /\ form'.code = form.code
<1>1. form \in Forms /\ form.email \in Users /\ form.uid \in Users
  BY DEF Typed, Forms
<1>2. form.uid # NoUser /\ keysMade' = keysMade + 1
  BY DEF RegisterDevice
<1>3. Begins(f, "register", "post", form.email, keysMade')
  BY DEF RegisterDevice, Begin, Begins, Goes, New
<1>4. form' = [form EXCEPT !.view = "LOADING", !.submitting = TRUE]
  BY DEF RegisterDevice
<1>. QED
  BY <1>1, <1>2, <1>3, <1>4 DEF Forms, Users, Views

-----------------------------------------------------------------------------
(***************************************************************************)
(* Types.                                                                  *)
(***************************************************************************)

LEMMA MovesTyped ==
    ASSUME FlowTyped, NEW f \in Flow, flow[f].step # "idle", flow[f].user \in User,
           NEW s \in Steps, NEW k \in Nat, NEW d \in Nat, NEW L \in SUBSET Nat,
           Moves(f, s, k, d, L)
    PROVE  FlowTyped'
<1>. DEFINE p == Put(flow[f], s, k, d, L)
<1>1. p \in Flows /\ p.user = flow[f].user
  BY BusyIsFlow, PutIs
<1>2. flow' = [flow EXCEPT ![f] = p]
  BY DEF Moves
<1>. HIDE DEF p
<1>. QED
  BY <1>1, <1>2 DEF FlowTyped

LEMMA StopsTyped ==
    ASSUME FlowTyped, NEW f \in Flow, Stops(f)
    PROVE  FlowTyped'
  BY DEF FlowTyped, Stops, Idle

LEMMA InsideTyped ==
    ASSUME Typed, Inside, ServerTyped', vault' \in Vaults, token' \in Tokens, form' \in Forms,
           FlowTyped', keysMade' \in Nat, fails' \in Nat, broke' \in BOOLEAN
    PROVE  Typed'
<1>1. DiskTyped'
  BY DEF Typed, DiskTyped, Inside
<1>2. AppTyped'
  BY DEF Typed, AppTyped, Inside, appVars
<1>3. SideTyped'
  BY DEF Typed, SideTyped, Inside, sideVars
<1>4. BoundTyped'
  BY DEF Typed, BoundTyped, Inside
<1>. QED
  BY <1>1, <1>2, <1>3, <1>4 DEF Typed

LEMMA SameServer ==
    ASSUME ServerTyped, UNCHANGED <<status, named, devices, live, boots>>
    PROVE  ServerTyped'
  BY DEF ServerTyped

\* Keeps the status of who is active.
LEMMA AskedTyped ==
    ASSUME ServerTyped, NEW u \in User, UNCHANGED <<named, devices, live, boots>>,
           UNCHANGED status \/ Asked(u)
    PROVE  ServerTyped'
<1>1. CASE UNCHANGED status
  BY <1>1 DEF ServerTyped
<1>2. CASE Asked(u)
  <2>1. status' \in [User -> {"unknown", "pending", "active"}]
    BY <1>2 DEF Asked, ServerTyped
  <2>2. status'[Admin] = "active"
    BY <1>2, SigninAssumption DEF Asked, ServerTyped
  <2>. QED
    BY <2>1, <2>2 DEF ServerTyped
<1>. QED
  BY <1>1, <1>2

LEMMA TokenOfTyped ==
    ASSUME FlowTyped, NEW f \in Flow, flow[f].step # "idle", flow[f].user \in User
    PROVE  /\ TokenOf(flow[f]) \in [user : User, dev : Nat, no : Nat]
           /\ TokenOf(flow[f]) \in Tokens
  BY BusyIsFlow DEF TokenOf, Flows, Tokens, Users

LEMMA FlowFields ==
    ASSUME FlowTyped, NEW f \in Flow, flow[f].step # "idle"
    PROVE  /\ flow[f] \in Flows /\ flow[f].keys \in Nat /\ flow[f].dev \in Nat
           /\ flow[f].list \in SUBSET Nat /\ {flow[f].dev} \in SUBSET Nat
           /\ flow[f].user \in Users /\ flow[f].uid \in Users /\ flow[f].code \in Users
           /\ flow[f].orphan \in BOOLEAN
  BY BusyIsFlow DEF Flows

LEMMA NoTokenTyped == NoToken \in Tokens /\ SignedOut \in Apps /\ NoForm \in Forms
                      /\ NoSession \in Sessions /\ NoSave \in Savings /\ NoCall \in Wizards
<1>1. NoToken \in Tokens
  BY DEF NoToken, Tokens, Users
<1>2. NoSession \in Sessions
  BY DEF NoSession, Sessions, Users
<1>3. SignedOut \in Apps
  BY <1>2 DEF SignedOut, Apps
<1>4. NoForm \in Forms
  BY DEF NoForm, Forms, Users, Views
<1>5. NoSave \in Savings
  BY <1>1, <1>2 DEF NoSave, Savings
<1>6. NoCall \in Wizards
  BY <1>1, <1>3 DEF NoCall, Wizards
<1>. QED
  BY <1>1, <1>2, <1>3, <1>4, <1>5, <1>6

LEMMA AccessAnsweredTyped ==
    ASSUME Typed, NEW f \in Flow, AccessAnswered(f)
    PROVE  Typed'
<1>1. /\ flow[f].step = "access" /\ flow[f].user \in User /\ Asked(flow[f].user) /\ Inside
      /\ UNCHANGED <<devices, live, boots, vault, token, keysMade, fails, broke>>
      /\ form' \in Forms
      /\ \/ Stops(f)
         \/ Moves(f, "boot", flow[f].keys, flow[f].dev, flow[f].list)
         \/ Moves(f, "challenge", flow[f].keys, flow[f].dev, flow[f].list)
  BY AccessAnsweredDoes DEF Draws
<1>2. ServerTyped'
  BY <1>1, AskedTyped DEF Typed, Inside
<1>3. FlowTyped'
  BY <1>1, FlowFields, MovesTyped, StopsTyped DEF Typed, Steps
<1>. QED
  BY <1>1, <1>2, <1>3, InsideTyped DEF Typed, DiskTyped, AppTyped, BoundTyped

LEMMA AccessFailsTyped ==
    ASSUME Typed, NEW f \in Flow, AccessFails(f)
    PROVE  Typed'
<1>1. /\ Inside /\ UNCHANGED <<devices, live, boots, vault, token, keysMade, broke>>
      /\ form' \in Forms /\ Stops(f)
      /\ \/ UNCHANGED <<status, fails>>
         \/ /\ flow[f].user \in User /\ fails' = fails + 1
            /\ UNCHANGED status \/ Asked(flow[f].user)
  BY AccessFailsDoes DEF Draws
<1>2. ServerTyped'
  BY <1>1, SameServer, AskedTyped DEF Typed, Inside
<1>3. FlowTyped'
  BY <1>1, StopsTyped DEF Typed
<1>. QED
  BY <1>1, <1>2, <1>3, InsideTyped DEF Typed, DiskTyped, AppTyped, BoundTyped

LEMMA BootstrapAnsweredTyped ==
    ASSUME Typed, NEW f \in Flow, BootstrapAnswered(f)
    PROVE  Typed'
<1>1. /\ flow[f].step = "boot" /\ flow[f].user \in User /\ Inside
      /\ UNCHANGED <<status, devices, vault, token, keysMade, broke>>
      /\ form' \in Forms /\ fails' \in {fails, fails + 1}
      /\ boots' = boots \/ (boots > 0 /\ boots' = boots - 1)
      /\ live' \in {live, live \cup {TokenOf(flow[f])}}
      /\ \/ Stops(f)
         \/ Moves(f, "returning", flow[f].keys, flow[f].dev, flow[f].list)
         \/ Moves(f, "challenge", flow[f].keys, flow[f].dev, flow[f].list)
  BY BootstrapAnsweredDoes DEF Draws, AsksChallenge
<1>2. ServerTyped'
  BY <1>1, TokenOfTyped, SigninAssumption DEF Typed, ServerTyped, Inside
<1>3. FlowTyped'
  BY <1>1, FlowFields, MovesTyped, StopsTyped DEF Typed, Steps
<1>. QED
  BY <1>1, <1>2, <1>3, InsideTyped DEF Typed, DiskTyped, AppTyped, BoundTyped

LEMMA ReturningAdminTyped ==
    ASSUME Typed, NEW f \in Flow, ReturningAdmin(f)
    PROVE  Typed'
<1>1. /\ flow[f].step = "returning" /\ flow[f].user \in User /\ Inside
      /\ token' = TokenOf(flow[f]) /\ form' \in Forms /\ fails' \in {fails, fails + 1}
      /\ UNCHANGED <<status, devices, live, boots, vault, keysMade, broke>>
      /\ \/ Moves(f, "enter", vault.keys, flow[f].dev, {vault.device})
         \/ Moves(f, "setup", flow[f].keys, flow[f].dev, flow[f].list)
  BY ReturningAdminDoes DEF Draws
<1>2. ServerTyped'
  BY <1>1, SameServer DEF Typed, Inside
<1>3. vault.keys \in Nat /\ {vault.device} \in SUBSET Nat
  BY DEF Typed, DiskTyped, Vaults
<1>4. FlowTyped'
  BY <1>1, <1>3, FlowFields, MovesTyped DEF Typed, Steps
<1>5. token' \in Tokens
  BY <1>1, TokenOfTyped DEF Typed
<1>. QED
  BY <1>1, <1>2, <1>4, <1>5, InsideTyped DEF Typed, DiskTyped, BoundTyped

LEMMA CompleteSetupTyped ==
    ASSUME Typed, NEW f \in Flow, CompleteSetup(f)
    PROVE  Typed'
<1>1. /\ flow[f].step = "setup" /\ flow[f].user \in User /\ Inside
      /\ UNCHANGED <<status, devices, live, boots, token>> /\ form' \in Forms
      /\ fails' \in {fails, fails + 1} /\ broke' \in {broke, TRUE}
      /\ \/ /\ keysMade' = keysMade + 1 /\ vault' = [vault EXCEPT !.keys = keysMade']
            /\ Moves(f, "enter", keysMade', flow[f].dev, flow[f].list)
         \/ Stops(f) /\ UNCHANGED <<vault, keysMade>>
  BY CompleteSetupDoes DEF Draws
<1>2. ServerTyped'
  BY <1>1, SameServer DEF Typed, Inside
<1>3. keysMade' \in Nat /\ vault' \in Vaults
  BY <1>1 DEF Typed, DiskTyped, BoundTyped, Vaults
<1>4. FlowTyped'
  BY <1>1, <1>3, FlowFields, MovesTyped, StopsTyped DEF Typed, Steps
<1>. QED
  <2>1. fails' \in Nat
    BY <1>1 DEF Typed, BoundTyped
  <2>3. broke' \in BOOLEAN
    BY <1>1, Zenon DEF Typed, BoundTyped
  <2>2. token' \in Tokens /\ form' \in Forms /\ Inside
    BY <1>1 DEF Typed, AppTyped
  <2>. QED
    BY <1>2, <1>3, <1>4, <2>1, <2>2, <2>3, InsideTyped

LEMMA ChallengeAnsweredTyped ==
    ASSUME Typed, NEW f \in Flow, ChallengeAnswered(f)
    PROVE  Typed'
<1>1. /\ flow[f].step = "challenge" /\ flow[f].user \in User /\ Inside /\ form' \in Forms
      /\ UNCHANGED <<status, devices, live, boots, vault, token, keysMade, fails, broke>>
      /\ Moves(f, "match", flow[f].keys, flow[f].dev, ActiveDevices(flow[f].user))
  BY ChallengeAnsweredDoes DEF Draws
<1>2. ServerTyped'
  BY <1>1, SameServer DEF Typed, Inside
<1>3. ActiveDevices(flow[f].user) \in SUBSET Nat
  BY ActiveAreNumbers DEF Typed, ServerTyped
<1>4. FlowTyped'
  BY <1>1, <1>3, FlowFields, MovesTyped DEF Typed, Steps
<1>. QED
  BY <1>1, <1>2, <1>4, InsideTyped DEF Typed, DiskTyped, AppTyped, BoundTyped

LEMMA MatchDeviceTyped ==
    ASSUME Typed, NEW f \in Flow, MatchDevice(f)
    PROVE  Typed'
<1>1. /\ flow[f].step = "match" /\ flow[f].user \in User /\ Inside /\ form' \in Forms
      /\ UNCHANGED <<status, devices, live, boots, vault, token, keysMade, broke>>
      /\ fails' \in {fails, fails + 1}
      /\ \/ Moves(f, "verify", vault.keys, vault.device, flow[f].list)
         \/ Stops(f)
  BY MatchDeviceDoes DEF Draws
<1>2. ServerTyped'
  BY <1>1, SameServer DEF Typed, Inside
<1>3. vault.keys \in Nat /\ vault.device \in Nat
  BY DEF Typed, DiskTyped, Vaults
<1>4. FlowTyped'
  BY <1>1, <1>3, FlowFields, MovesTyped, StopsTyped DEF Typed, Steps
<1>. QED
  BY <1>1, <1>2, <1>4, InsideTyped DEF Typed, DiskTyped, AppTyped, BoundTyped

LEMMA VerifyAnsweredTyped ==
    ASSUME Typed, NEW f \in Flow, VerifyAnswered(f)
    PROVE  Typed'
<1>1. /\ flow[f].step = "verify" /\ flow[f].user \in User /\ Inside /\ form' \in Forms
      /\ UNCHANGED <<status, devices, boots, vault, keysMade, fails, broke>>
      /\ token' \in {TokenOf(flow[f]), NoToken}
      /\ live' \in {live, live \cup {TokenOf(flow[f])}}
      /\ \/ Moves(f, "enter", flow[f].keys, flow[f].dev, {flow[f].dev})
         \/ Stops(f)
  BY VerifyAnsweredDoes DEF Draws
<1>2. ServerTyped'
  BY <1>1, TokenOfTyped DEF Typed, ServerTyped, Inside
<1>3. FlowTyped'
  BY <1>1, FlowFields, MovesTyped, StopsTyped DEF Typed, Steps
<1>4. token' \in Tokens
  BY <1>1, TokenOfTyped, NoTokenTyped DEF Typed
<1>. QED
  BY <1>1, <1>2, <1>3, <1>4, InsideTyped DEF Typed, DiskTyped, BoundTyped

LEMMA LoginFailsTyped ==
    ASSUME Typed, NEW f \in Flow, LoginFails(f)
    PROVE  Typed'
<1>1. /\ Inside /\ UNCHANGED <<status, devices, live, boots, vault, token, keysMade, broke>>
      /\ form' \in Forms /\ Stops(f) /\ fails' = fails + 1
  BY LoginFailsDoes DEF Draws
<1>2. ServerTyped'
  BY <1>1, SameServer DEF Typed, Inside
<1>3. FlowTyped'
  BY <1>1, StopsTyped DEF Typed
<1>. QED
  BY <1>1, <1>2, <1>3, InsideTyped DEF Typed, DiskTyped, AppTyped, BoundTyped

LEMMA RegisteredTyped ==
    ASSUME ServerTyped, NEW q \in Flows, q.user \in User, Registered(q),
           UNCHANGED <<status, named, boots>>
    PROVE  /\ ServerTyped' /\ Len(devices') = Len(devices) + 1 /\ Len(devices') \in Nat
           /\ DOMAIN devices \subseteq DOMAIN devices'
           /\ \A d \in DOMAIN devices : devices'[d] = devices[d]
           /\ devices'[Len(devices')].owner = q.user /\ devices'[Len(devices')].key = q.keys
           /\ devices'[Len(devices')].active /\ Len(devices') \in DOMAIN devices'
<1>. DEFINE row == [owner |-> q.user, key |-> q.keys, active |-> TRUE]
            t == [TokenOf(q) EXCEPT !.dev = Len(devices')]
<1>1. devices' = Append(devices, row) /\ live' = live \cup {t}
  BY DEF Registered
<1>2. row \in Devices /\ row.owner = q.user /\ row.key = q.keys /\ row.active
  BY DEF Devices, Flows
<1>3. devices \in Seq(Devices)
  BY DEF ServerTyped
<1>. HIDE DEF row
<1>4. /\ devices' \in Seq(Devices) /\ Len(devices') = Len(devices) + 1
      /\ DOMAIN devices \subseteq DOMAIN devices'
      /\ \A d \in DOMAIN devices : devices'[d] = devices[d]
      /\ devices'[Len(devices')] = row /\ Len(devices') \in DOMAIN devices'
      /\ Len(devices') \in Nat
  BY <1>1, <1>2, <1>3
<1>5. t \in [user : User, dev : Nat, no : Nat]
  BY <1>4 DEF TokenOf, Flows
<1>6. ServerTyped'
  <2>1. live' \subseteq [user : User, dev : Nat, no : Nat]
    BY <1>1, <1>5 DEF ServerTyped
  <2>. QED
    BY <1>4, <2>1 DEF ServerTyped
<1>. QED
  BY <1>2, <1>4, <1>6

LEMMA RegisterAnsweredTyped ==
    ASSUME Typed, NEW f \in Flow, RegisterAnswered(f)
    PROVE  Typed'
<1>1. /\ flow[f].step = "post" /\ Inside /\ form' \in Forms
      /\ UNCHANGED <<status, boots, vault, keysMade, broke>>
      /\ token' \in {token, NoToken} /\ fails' \in {fails, fails + 1}
      /\ \/ flow[f].user \in User /\ Registered(flow[f])
         \/ UNCHANGED <<devices, live>>
      /\ \/ /\ flow[f].user \in User /\ Registered(flow[f])
            /\ Moves(f, "keys", flow[f].keys, Len(devices'), flow[f].list)
         \/ Stops(f)
  BY RegisterAnsweredDoes DEF Draws
<1>2. flow[f].step # "idle" /\ flow[f] \in Flows /\ FlowTyped /\ ServerTyped
  BY <1>1, FlowFields DEF Typed
<1>3. UNCHANGED <<status, named, boots>>
  BY <1>1 DEF Inside
<1>4. ServerTyped'
  BY <1>1, <1>2, <1>3, RegisteredTyped, SameServer
<1>5. FlowTyped'
  <2>1. CASE Stops(f)
    BY <1>2, <2>1, StopsTyped
  <2>2. CASE /\ flow[f].user \in User /\ Registered(flow[f])
             /\ Moves(f, "keys", flow[f].keys, Len(devices'), flow[f].list)
    <3>1. Len(devices') \in Nat /\ "keys" \in Steps
      BY <1>2, <1>3, <2>2, RegisteredTyped DEF Steps
    <3>. QED
      BY <1>2, <2>2, <3>1, FlowFields, MovesTyped
  <2>. QED
    BY <1>1, <2>1, <2>2
<1>6. token' \in Tokens
  BY <1>1, NoTokenTyped DEF Typed, AppTyped
<1>. QED
  BY <1>1, <1>4, <1>5, <1>6, InsideTyped DEF Typed, DiskTyped, BoundTyped

LEMMA SaveAnchorsTyped ==
    ASSUME Typed, NEW f \in Flow, SaveAnchors(f)
    PROVE  Typed'
<1>1. /\ flow[f].step # "idle" /\ flow[f].user \in User /\ Inside /\ form' \in Forms
      /\ UNCHANGED <<status, devices, live, boots, keysMade, broke>>
      /\ vault' = [vault EXCEPT !.keys = flow[f].keys]
           \/ vault' = [vault EXCEPT !.device = flow[f].dev] \/ vault' = vault
      /\ token' \in {token, TokenOf(flow[f])} /\ fails' \in {fails, fails + 1}
      /\ \/ \E s \in {"device", "otpks", "enter"} :
               Moves(f, s, flow[f].keys, flow[f].dev, {flow[f].dev})
         \/ Stops(f)
  BY SaveAnchorsDoes DEF Draws
<1>2. ServerTyped'
  BY <1>1, SameServer DEF Typed, Inside
<1>3. FlowTyped'
  BY <1>1, FlowFields, MovesTyped, StopsTyped DEF Typed, Steps
<1>4. token' \in Tokens
  BY <1>1, TokenOfTyped DEF Typed, AppTyped
<1>5. vault' \in Vaults
  BY <1>1, FlowFields DEF Typed, DiskTyped, Vaults
<1>. QED
  BY <1>1, <1>2, <1>3, <1>4, <1>5, InsideTyped DEF Typed, BoundTyped

LEMMA BeginsTyped ==
    ASSUME Typed, NEW f \in Flow, NEW kind \in {"submit", "select", "check", "register"},
           NEW s \in {"access", "post"}, NEW u \in Users, NEW key \in Nat,
           Begins(f, kind, s, u, key), form' \in Forms, keysMade' \in Nat
    PROVE  Typed'
<1>. DEFINE p == New(kind, s, u, key)
<1>1. p \in Flows /\ p.step = s
  <2>1. s \in Steps
    BY DEF Steps
  <2>2. form \in Forms /\ begun \in Nat
    BY DEF Typed, BoundTyped
  <2>3. p \in Flows
    BY <2>1, <2>2, NewIs
  <2>4. p.step = s
    BY DEF New
  <2>. QED
    BY <2>3, <2>4
<1>2. FlowTyped'
  <2>1. flow' = [flow EXCEPT ![f] = p]
    BY DEF Begins
  <2>. HIDE DEF p
  <2>. QED
    BY <1>1, <2>1 DEF Typed, FlowTyped
<1>3. ServerTyped' /\ DiskTyped' /\ AppTyped' /\ SideTyped'
  BY DEF Typed, Begins, ServerTyped, serverVars, DiskTyped, diskVars, AppTyped, appVars,
         SideTyped, sideVars
<1>4. BoundTyped'
  BY DEF Typed, Begins, BoundTyped
<1>. QED
  BY <1>2, <1>3, <1>4 DEF Typed

LEMMA RequestsTyped ==
    ASSUME Typed, NEW f \in Flow,
           \/ RequestAccess(f) \/ CheckApproval(f) \/ RegisterDevice(f)
           \/ \E u \in User : AccountSelect(f, u)
    PROVE  Typed'
<1>0. keysMade \in Nat /\ 0 \in Nat /\ User \subseteq Users
  BY DEF Typed, BoundTyped, Users
<1>1. CASE RequestAccess(f)
  BY <1>0, <1>1, RequestAccessDoes, BeginsTyped
<1>2. CASE CheckApproval(f)
  BY <1>0, <1>2, CheckApprovalDoes, BeginsTyped
<1>3. CASE RegisterDevice(f)
  BY <1>0, <1>3, RegisterDeviceDoes, BeginsTyped
<1>4. CASE \E u \in User : AccountSelect(f, u)
  BY <1>0, <1>4, AccountSelectDoes, BeginsTyped
<1>. QED
  BY <1>1, <1>2, <1>3, <1>4

\* The fields of the form the user changes.
LEMMA EditsTyped ==
    ASSUME Typed, NEW n \in Forms, Edits(n)
    PROVE  Typed'
  BY DEF Edits, Typed, ServerTyped, serverVars, DiskTyped, diskVars, AppTyped, appVars,
         FlowTyped, SideTyped, sideVars, BoundTyped, boundVars

LEMMA EditingDoes ==
    ASSUME form \in Forms, NEW u \in User,
           TypeEmail(u) \/ SelectDifferentProfile \/ CancelRequest
    PROVE  /\ form' \in Forms /\ Edits(form')
           /\ \/ /\ form.view = "HOME" /\ form'.view = "HOME"
                 /\ ~ form.submitting \/ form'.email = NoUser
                 /\ form'.uid = form.uid /\ form'.code = form.code
                 /\ form'.submitting = form.submitting
              \/ /\ form.view \in {"WAITING", "REGISTER"} /\ form'.view = "HOME"
                 /\ form'.uid = NoUser /\ form'.code = NoUser /\ form'.email = NoUser
<1>1. CASE TypeEmail(u)
  <2>1. form' = [form EXCEPT !.email = u] /\ form.view = "HOME" /\ ~ form.submitting
    BY <1>1 DEF TypeEmail, Edits, Enabled, HomeForm, OnScreen
  <2>2. Edits(form')
    BY <1>1 DEF TypeEmail, Edits
  <2>. QED
    BY <2>1, <2>2 DEF Forms, Users
<1>2. CASE SelectDifferentProfile
  <2>1. form' = [form EXCEPT !.email = NoUser] /\ form.view = "HOME"
    BY <1>2 DEF SelectDifferentProfile, Edits, HomeForm, OnScreen
  <2>2. Edits(form')
    BY <1>2 DEF SelectDifferentProfile, Edits
  <2>. QED
    BY <2>1, <2>2 DEF Forms, Users
<1>3. CASE CancelRequest
  <2>1. /\ form' = [form EXCEPT !.view = "HOME", !.email = NoUser,
                                !.uid = NoUser, !.code = NoUser]
        /\ form.view \in {"WAITING", "REGISTER"}
    BY <1>3 DEF CancelRequest, Edits, Waiting, Anchoring, OnScreen
  <2>2. Edits(form')
    BY <1>3 DEF CancelRequest, Edits
  <2>. QED
    BY <2>1, <2>2 DEF Forms, Users, Views
<1>. QED
  BY <1>1, <1>2, <1>3

LEMMA OpensDoes ==
    ASSUME AppTyped, loads \subseteq Loads, NEW s \in Sessions, NEW k \in Nat, NEW d \in Nat,
           Opens(s, k, d)
    PROVE  /\ app' \in Apps /\ app'.session = s /\ app'.keys = k /\ app'.device = d
           /\ sock' \in Socks /\ loads' \subseteq Loads
           /\ loads' = loads \cup {[token |-> token, dev |-> 0, step |-> "asked"]}
           /\ root' \in {"CHAT", "ONBOARDING"} /\ (root' = "CHAT" => s.named)
<1>1. app' \in Apps /\ app'.session = s /\ app'.keys = k /\ app'.device = d
  BY DEF Opens, Apps
<1>2. Connected \in Socks
  BY DEF Connected, Socks, AppTyped
<1>3. [token |-> token, dev |-> 0, step |-> "asked"] \in Loads
  BY DEF Loads, AppTyped
<1>. QED
  BY <1>1, <1>2, <1>3 DEF Opens

\* The user a handler enters as.
EntersAs(q) == IF q.kind = "register" THEN q.uid ELSE q.user
EntersWith(q) == IF q.list = {} THEN 0 ELSE CHOOSE d \in q.list : TRUE

LEMMA EnterDoes ==
    ASSUME Typed, NEW f \in Flow, Enter(f)
    PROVE  /\ flow[f].step = "enter" /\ flow[f].user \in User
           /\ app' \in Apps /\ app'.session.user = EntersAs(flow[f])
           /\ app'.keys = flow[f].keys /\ app'.device = EntersWith(flow[f])
           /\ app'.session \in Sessions /\ (root' = "CHAT" => app'.session.named)
           /\ sock' \in Socks /\ loads' \subseteq Loads
           /\ loads' = loads \cup {[token |-> token, dev |-> 0, step |-> "asked"]}
           /\ root' \in {"CHAT", "ONBOARDING"}
           /\ saved' \subseteq saved \cup ({flow[f].user, EntersAs(flow[f])} \ {NoUser})
           /\ flow' = [g \in Flow |-> IF g = f THEN Idle
                                      ELSE IF Busy(g) THEN [flow[g] EXCEPT !.orphan = TRUE]
                                      ELSE Idle]
           /\ form' = NoForm
           /\ crossed' = (crossed \/ root # "AUTH" \/ saving # NoSave
                            \/ leaving.step # "no" \/ loads # {})
           /\ UNCHANGED <<serverVars, vault, token, saving, wizard, leaving, keysMade,
                          elsewhere, begun, fails, restarts, broke>>
<1>. DEFINE q == flow[f]
            u == EntersAs(q)
            s == [user |-> u, admin |-> u = Admin /\ q.kind # "register",
                  named |-> u \in named /\ q.kind # "register"]
            d == EntersWith(q)
<1>1. q.step = "enter" /\ Opens(s, q.keys, d)
  BY DEF Enter, EntersAs, EntersWith
<1>2. saved' = saved \cup ({IF q.kind = "submit" \/ q.kind = "register"
                            THEN q.user ELSE u} \ {NoUser})
  BY DEF Enter, EntersAs
<1>3. FlowTyped /\ AppTyped /\ loads \subseteq Loads
  BY DEF Typed, SideTyped
<1>4. q.user \in User /\ q.keys \in Nat /\ q.list \in SUBSET Nat /\ q.uid \in Users
      /\ q.user \in Users
  BY <1>1, <1>3, FlowFields DEF FlowTyped
<1>5. s \in Sessions /\ s.user = u
  <2>1. u \in Users
    BY <1>4 DEF EntersAs
  <2>. HIDE DEF u
  <2>. QED
    BY <2>1 DEF Sessions
<1>6. d \in Nat
  BY <1>4 DEF EntersWith
<1>. HIDE DEF s, d
<1>7. /\ app' \in Apps /\ app'.session = s /\ app'.keys = q.keys /\ app'.device = d
      /\ sock' \in Socks /\ loads' \subseteq Loads
      /\ loads' = loads \cup {[token |-> token, dev |-> 0, step |-> "asked"]}
      /\ root' \in {"CHAT", "ONBOARDING"} /\ (root' = "CHAT" => s.named)
  BY <1>1, <1>3, <1>4, <1>5, <1>6, OpensDoes
<1>8. saved' \subseteq saved \cup ({q.user, u} \ {NoUser})
  BY <1>2
<1>9. /\ flow' = [g \in Flow |-> IF g = f THEN Idle
                                 ELSE IF Busy(g) THEN [flow[g] EXCEPT !.orphan = TRUE]
                                 ELSE Idle]
      /\ form' = NoForm
      /\ crossed' = (crossed \/ root # "AUTH" \/ saving # NoSave
                       \/ leaving.step # "no" \/ loads # {})
      /\ UNCHANGED <<serverVars, vault, token, saving, wizard, leaving, keysMade,
                     elsewhere, begun, fails, restarts, broke>>
  BY DEF Enter
<1>. QED
  BY <1>1, <1>4, <1>5, <1>7, <1>8, <1>9 DEF d

LEMMA EnterTyped ==
    ASSUME Typed, NEW f \in Flow, Enter(f)
    PROVE  Typed'
<1>1. /\ app' \in Apps /\ sock' \in Socks /\ loads' \subseteq Loads
      /\ root' \in {"CHAT", "ONBOARDING"} /\ flow[f].user \in User
      /\ saved' \subseteq saved \cup ({flow[f].user, EntersAs(flow[f])} \ {NoUser})
      /\ flow' = [g \in Flow |-> IF g = f THEN Idle
                                 ELSE IF Busy(g) THEN [flow[g] EXCEPT !.orphan = TRUE]
                                 ELSE Idle]
      /\ form' = NoForm /\ flow[f].step = "enter"
      /\ crossed' = (crossed \/ root # "AUTH" \/ saving # NoSave
                       \/ leaving.step # "no" \/ loads # {})
      /\ UNCHANGED <<serverVars, vault, token, saving, wizard, leaving, keysMade,
                     elsewhere, begun, fails, restarts, broke>>
  BY EnterDoes
<1>2. ServerTyped'
  BY <1>1, SameServer DEF Typed, serverVars
<1>3. DiskTyped'
  <2>1. EntersAs(flow[f]) \in Users
    BY <1>1, FlowFields DEF Typed, EntersAs
  <2>. QED
    BY <1>1, <2>1 DEF Typed, DiskTyped, Users
<1>4. AppTyped' /\ SideTyped'
  BY <1>1 DEF Typed, AppTyped, SideTyped
<1>5. FlowTyped'
  <2>1. ASSUME NEW g \in Flow
        PROVE  /\ flow'[g] \in Flows \cup {Idle}
               /\ flow'[g].step \notin {"idle", "access", "post"} => flow'[g].user \in User
    <3>1. CASE g = f \/ ~ Busy(g)
      BY <1>1, <3>1 DEF Idle
    <3>2. CASE g # f /\ Busy(g)
      <4>1. flow[g] \in Flows
        BY <3>2 DEF Busy, Typed, FlowTyped, Idle
      <4>. DEFINE p == [flow[g] EXCEPT !.orphan = TRUE]
      <4>2. p \in Flows /\ p.step = flow[g].step /\ p.user = flow[g].user
        BY <4>1 DEF Flows
      <4>3. flow'[g] = p
        BY <1>1, <3>2
      <4>. HIDE DEF p
      <4>. QED
        BY <4>2, <4>3 DEF Typed, FlowTyped
    <3>. QED
      BY <3>1, <3>2
  <2>2. DOMAIN flow' = Flow /\ flow' = [g \in Flow |-> flow'[g]]
    BY <1>1
  <2>. QED
    BY <2>1, <2>2 DEF FlowTyped
<1>6. form' \in Forms
  BY <1>1, NoTokenTyped
<1>7. BoundTyped'
  <2>1. crossed' \in BOOLEAN
    BY <1>1
  <2>. QED
    BY <1>1, <2>1 DEF Typed, BoundTyped
<1>. QED
  BY <1>2, <1>3, <1>4, <1>5, <1>6, <1>7 DEF Typed

\* The newest of a user's devices is one of them.
LEMMA NewestIs ==
    ASSUME devices \in Seq(Devices), NEW u
    PROVE  /\ Newest(u) \in Nat /\ (Newest(u) # 0 => ActiveDevices(u) # {})
           /\ ActiveDevices(u) # {} =>
                  /\ Newest(u) \in ActiveDevices(u)
                  /\ \A e \in ActiveDevices(u) : e <= Newest(u)
<1>1. ActiveDevices(u) \subseteq 1 .. Len(devices) /\ Len(devices) \in Nat
  BY DEF ActiveDevices
<1>2. CASE ActiveDevices(u) = {}
  BY <1>2 DEF Newest
<1>3. CASE ActiveDevices(u) # {}
  <2>1. \E d \in ActiveDevices(u) : \A e \in ActiveDevices(u) : e <= d
    BY <1>1, <1>3, HasLargest
  <2>2. Newest(u) = CHOOSE d \in ActiveDevices(u) : \A e \in ActiveDevices(u) : e <= d
    BY <1>3 DEF Newest
  <2>3. Newest(u) \in ActiveDevices(u) /\ \A e \in ActiveDevices(u) : e <= Newest(u)
    BY <2>1, <2>2
  <2>. QED
    BY <1>1, <1>3, <2>3
<1>. QED
  BY <1>2, <1>3

LEMMA ListedDoes ==
    ASSUME Typed, NEW l, Listed(l)
    PROVE  /\ l \in loads /\ l \in Loads /\ l.step = "asked"
           /\ UNCHANGED <<serverVars, diskVars, appVars, form, token, flow, saving, wizard,
                          leaving, boundVars, fails, broke>>
           /\ \E m \in Loads :
                  /\ loads' = (loads \ {l}) \cup {m} /\ m.token = l.token
                  /\ \/ m.step = "listed" /\ m.dev = Newest(l.token.user) /\ l.token \in live
                     \/ m.step = "refused"
<1>. DEFINE ok == [l EXCEPT !.step = "listed", !.dev = Newest(l.token.user)]
            no == [l EXCEPT !.step = "refused"]
<1>1. /\ l \in loads /\ l.step = "asked"
      /\ loads' = (loads \ {l}) \cup {IF l.token \in live THEN ok ELSE no}
      /\ UNCHANGED <<serverVars, diskVars, appVars, form, token, flow, saving, wizard,
                     leaving, boundVars, fails, broke>>
  BY DEF Listed
<1>2. l \in Loads
  BY <1>1 DEF Typed, SideTyped
<1>3. Newest(l.token.user) \in Nat
  BY NewestIs DEF Typed, ServerTyped
<1>4. ok \in Loads /\ ok.token = l.token /\ ok.step = "listed" /\ ok.dev = Newest(l.token.user)
  BY <1>2, <1>3 DEF Loads
<1>5. no \in Loads /\ no.token = l.token /\ no.step = "refused"
  BY <1>2 DEF Loads
<1>. HIDE DEF ok, no
<1>6. CASE l.token \in live
  <2>1. loads' = (loads \ {l}) \cup {ok}
    BY <1>1, <1>6
  <2>. QED
    BY <1>1, <1>2, <1>4, <1>6, <2>1
<1>7. CASE l.token \notin live
  <2>1. loads' = (loads \ {l}) \cup {no}
    BY <1>1, <1>7
  <2>. QED
    BY <1>1, <1>2, <1>5, <2>1
<1>. QED
  BY <1>6, <1>7

LEMMA ListedTyped ==
    ASSUME Typed, NEW l, Listed(l)
    PROVE  Typed'
<1>1. /\ UNCHANGED <<serverVars, diskVars, appVars, form, token, flow, saving, wizard,
                     leaving, boundVars, fails, broke>>
      /\ \E m \in Loads : loads' = (loads \ {l}) \cup {m}
  BY ListedDoes
<1>2. ServerTyped' /\ DiskTyped' /\ AppTyped' /\ form' \in Forms /\ FlowTyped' /\ BoundTyped'
  BY <1>1 DEF Typed, ServerTyped, DiskTyped, AppTyped, FlowTyped, BoundTyped, serverVars,
              diskVars, appVars, boundVars
<1>3. SideTyped'
  BY <1>1 DEF Typed, SideTyped
<1>. QED
  BY <1>2, <1>3 DEF Typed

LEMMA LoadedDoes ==
    ASSUME Typed, NEW l, Loaded(l)
    PROVE  /\ l \in loads /\ l \in Loads /\ loads' = loads \ {l}
           /\ UNCHANGED <<serverVars, saved, root, sock, form, flow, saving, wizard, leaving,
                          boundVars, broke>>
           /\ \/ /\ l.step = "listed" /\ l.dev # 0 /\ UNCHANGED token
                 /\ app' \in Apps /\ app'.device = l.dev
                 /\ app'.session = app.session /\ app'.keys = app.keys
                 /\ \/ /\ vault' \in Vaults /\ vault'.device = l.dev /\ vault'.keys = vault.keys
                       /\ UNCHANGED fails
                    \/ UNCHANGED vault /\ fails' = fails + 1
              \/ /\ UNCHANGED <<app, vault>> /\ token' \in {token, NoToken}
                 /\ fails' \in {fails, fails + 1}
<1>1. /\ l \in loads /\ loads' = loads \ {l}
      /\ UNCHANGED <<serverVars, saved, root, sock, form, flow, saving, wizard, leaving,
                     boundVars, broke>>
  BY DEF Loaded
<1>2. l \in Loads /\ app \in Apps /\ vault \in Vaults
  BY <1>1 DEF Typed, SideTyped, AppTyped, DiskTyped
<1>3. l.dev \in Nat
  BY <1>2 DEF Loads
<1>4. CASE /\ l.step = "listed" /\ l.dev # 0 /\ app' = [app EXCEPT !.device = l.dev]
           /\ \/ vault' = [vault EXCEPT !.device = l.dev] /\ UNCHANGED fails
              \/ UNCHANGED vault /\ Fault
           /\ UNCHANGED token
  <2>1. /\ app' \in Apps /\ app'.device = l.dev
        /\ app'.session = app.session /\ app'.keys = app.keys
    BY <1>2, <1>3, <1>4 DEF Apps
  <2>2. \/ /\ vault' \in Vaults /\ vault'.device = l.dev /\ vault'.keys = vault.keys
           /\ UNCHANGED fails
        \/ UNCHANGED vault /\ fails' = fails + 1
    <3>1. CASE vault' = [vault EXCEPT !.device = l.dev] /\ UNCHANGED fails
      BY <1>2, <1>3, <3>1 DEF Vaults
    <3>2. CASE UNCHANGED vault /\ Fault
      BY <3>2 DEF Fault
    <3>. QED
      BY <1>4, <3>1, <3>2
  <2>. QED
    BY <1>1, <1>2, <1>4, <2>1, <2>2
<1>5. CASE \/ l.step = "listed" /\ l.dev = 0 /\ UNCHANGED <<app, vault, token, fails>>
           \/ l.step = "refused" /\ token' = NoToken /\ UNCHANGED <<app, vault, fails>>
           \/ l.step = "asked" /\ Fault /\ UNCHANGED <<app, vault, token>>
  BY <1>1, <1>2, <1>5 DEF Fault
<1>. QED
  BY <1>4, <1>5 DEF Loaded

LEMMA LoadedTyped ==
    ASSUME Typed, NEW l, Loaded(l)
    PROVE  Typed'
<1>1. /\ loads' = loads \ {l}
      /\ UNCHANGED <<serverVars, saved, root, sock, form, flow, saving, wizard, leaving,
                     boundVars, broke>>
      /\ app' \in Apps /\ vault' \in Vaults /\ token' \in {token, NoToken}
      /\ fails' \in {fails, fails + 1}
  <2>. app \in Apps /\ vault \in Vaults
    BY DEF Typed, AppTyped, DiskTyped
  <2>. QED
    BY LoadedDoes
<1>2. ServerTyped' /\ FlowTyped' /\ form' \in Forms /\ DiskTyped'
  BY <1>1 DEF Typed, ServerTyped, serverVars, FlowTyped, DiskTyped
<1>3. AppTyped' /\ SideTyped'
  BY <1>1, NoTokenTyped DEF Typed, AppTyped, SideTyped
<1>4. BoundTyped'
  BY <1>1 DEF Typed, BoundTyped, boundVars
<1>. QED
  BY <1>2, <1>3, <1>4 DEF Typed

\* A token of a session row names a user.
LEMMA LiveIsUser ==
    ASSUME ServerTyped, NEW t \in live
    PROVE  t.user \in User
  BY DEF ServerTyped

LEMMA WizardDoneDoes ==
    ASSUME Typed, WizardDone
    PROVE  /\ wizard # NoCall /\ wizard' = NoCall
           /\ UNCHANGED <<status, devices, live, boots, diskVars, form, flow, saving, leaving,
                          boundVars, broke>>
           /\ named \subseteq named' /\ named' \subseteq User
           /\ token' \in {token, NoToken} /\ fails' \in {fails, fails + 1}
           /\ app' \in Apps /\ app'.session.user = wizard.app.session.user
           /\ app'.session.named /\ app'.keys = wizard.app.keys
           /\ app'.device = wizard.app.device
           /\ sock' \in Socks /\ loads' \subseteq Loads
           /\ loads' = loads \cup {[token |-> token, dev |-> 0, step |-> "asked"]}
           /\ root' \in {"CHAT", "ONBOARDING"}
<1>. DEFINE s == [wizard.app.session EXCEPT !.named = TRUE]
<1>1. /\ wizard # NoCall /\ wizard' = NoCall
      /\ \/ /\ wizard.token \in live
            /\ named' = named \cup {wizard.token.user} /\ UNCHANGED <<token, fails>>
         \/ wizard.token \notin live /\ token' = NoToken /\ UNCHANGED <<named, fails>>
         \/ Fault /\ UNCHANGED <<named, token>>
      /\ Opens(s, wizard.app.keys, wizard.app.device)
      /\ UNCHANGED <<status, devices, live, boots, diskVars, form, flow, saving, leaving,
                     boundVars, broke>>
  BY DEF WizardDone
<1>2. wizard \in Wizards /\ AppTyped /\ loads \subseteq Loads
  BY DEF Typed, SideTyped
<1>3. /\ wizard.app.session \in Sessions /\ wizard.app.keys \in Nat
      /\ wizard.app.device \in Nat
  BY <1>2 DEF Wizards, Apps
<1>4. s \in Sessions /\ s.user = wizard.app.session.user /\ s.named
  BY <1>3 DEF Sessions
<1>. HIDE DEF s
<1>5. /\ app' \in Apps /\ app'.session = s /\ app'.keys = wizard.app.keys
      /\ app'.device = wizard.app.device
      /\ sock' \in Socks /\ loads' \subseteq Loads
      /\ loads' = loads \cup {[token |-> token, dev |-> 0, step |-> "asked"]}
      /\ root' \in {"CHAT", "ONBOARDING"}
  BY <1>1, <1>2, <1>3, <1>4, OpensDoes
<1>6. /\ named \subseteq named' /\ named' \subseteq User
      /\ token' \in {token, NoToken} /\ fails' \in {fails, fails + 1}
  <2>1. named \subseteq User
    BY DEF Typed, ServerTyped
  <2>2. wizard.token \in live => wizard.token.user \in User
    BY LiveIsUser DEF Typed
  <2>. QED
    BY <1>1, <2>1, <2>2 DEF Fault
<1>. QED
  BY <1>1, <1>4, <1>5, <1>6

LEMMA ProfileSavedDoes ==
    ASSUME Typed, ProfileSaved
    PROVE  /\ saving # NoSave /\ saving' = NoSave
           /\ UNCHANGED <<status, devices, live, boots, diskVars, root, sock, form, flow,
                          loads, wizard, leaving, boundVars, broke>>
           /\ named \subseteq named' /\ named' \subseteq User
           /\ token' \in {token, NoToken} /\ fails' \in {fails, fails + 1}
           /\ \/ UNCHANGED app
              \/ /\ app' \in Apps /\ app'.session.user = saving.session.user
                 /\ app'.session.named
                 /\ app'.keys = app.keys /\ app'.device = app.device
<1>. DEFINE s == [saving.session EXCEPT !.named = TRUE]
<1>1. /\ saving # NoSave /\ saving' = NoSave
      /\ \/ /\ saving.token \in live
            /\ app' = [app EXCEPT !.session = s]
            /\ named' = named \cup {saving.token.user} /\ UNCHANGED <<token, fails>>
         \/ saving.token \notin live /\ token' = NoToken /\ UNCHANGED <<app, named, fails>>
         \/ Fault /\ UNCHANGED <<app, named, token>>
      /\ UNCHANGED <<status, devices, live, boots, diskVars, root, sock, form, flow,
                     loads, wizard, leaving, boundVars, broke>>
  BY DEF ProfileSaved
<1>2. saving \in Savings /\ app \in Apps
  BY DEF Typed, SideTyped, AppTyped
<1>3. s \in Sessions /\ s.user = saving.session.user /\ s.named
  <2>1. saving.session \in Sessions
    BY <1>2 DEF Savings
  <2>. QED
    BY <2>1 DEF Sessions
<1>. HIDE DEF s
<1>4. /\ named \subseteq named' /\ named' \subseteq User
      /\ token' \in {token, NoToken} /\ fails' \in {fails, fails + 1}
  <2>1. named \subseteq User
    BY DEF Typed, ServerTyped
  <2>2. saving.token \in live => saving.token.user \in User
    BY LiveIsUser DEF Typed
  <2>. QED
    BY <1>1, <2>1, <2>2 DEF Fault
<1>5. ASSUME app' = [app EXCEPT !.session = s]
      PROVE  /\ app' \in Apps /\ app'.session = s
             /\ app'.keys = app.keys /\ app'.device = app.device
  BY <1>2, <1>3, <1>5 DEF Apps
<1>. QED
  BY <1>1, <1>3, <1>4, <1>5

LEMMA WizardDoneTyped ==
    ASSUME Typed, WizardDone
    PROVE  Typed'
<1>1. /\ wizard' = NoCall
      /\ UNCHANGED <<status, devices, live, boots, diskVars, form, flow, saving, leaving,
                     boundVars, broke>>
      /\ named' \subseteq User /\ token' \in {token, NoToken} /\ fails' \in {fails, fails + 1}
      /\ app' \in Apps /\ sock' \in Socks /\ loads' \subseteq Loads
      /\ root' \in {"CHAT", "ONBOARDING"}
  BY WizardDoneDoes
<1>2. ServerTyped' /\ FlowTyped' /\ form' \in Forms /\ DiskTyped'
  BY <1>1 DEF Typed, ServerTyped, FlowTyped, DiskTyped, diskVars
<1>3. AppTyped' /\ SideTyped'
  BY <1>1, NoTokenTyped DEF Typed, AppTyped, SideTyped
<1>4. BoundTyped'
  BY <1>1 DEF Typed, BoundTyped, boundVars
<1>. QED
  BY <1>2, <1>3, <1>4 DEF Typed

LEMMA ProfileSavedTyped ==
    ASSUME Typed, ProfileSaved
    PROVE  Typed'
<1>1. /\ saving' = NoSave
      /\ UNCHANGED <<status, devices, live, boots, diskVars, root, sock, form, flow,
                     loads, wizard, leaving, boundVars, broke>>
      /\ named' \subseteq User /\ token' \in {token, NoToken} /\ fails' \in {fails, fails + 1}
      /\ app' \in Apps
  <2>. app \in Apps
    BY DEF Typed, AppTyped
  <2>. QED
    BY ProfileSavedDoes
<1>2. ServerTyped' /\ FlowTyped' /\ form' \in Forms /\ DiskTyped'
  BY <1>1 DEF Typed, ServerTyped, FlowTyped, DiskTyped, diskVars
<1>3. AppTyped' /\ SideTyped'
  BY <1>1, NoTokenTyped DEF Typed, AppTyped, SideTyped
<1>4. BoundTyped'
  BY <1>1 DEF Typed, BoundTyped, boundVars
<1>. QED
  BY <1>2, <1>3, <1>4 DEF Typed

\* The rows of the devices but for the one that is revoked.
Revokes(d) == devices' = [devices EXCEPT ![d].active = FALSE]

LEMMA RevokesIs ==
    ASSUME devices \in Seq(Devices), NEW d \in DOMAIN devices, Revokes(d)
    PROVE  /\ devices' \in Seq(Devices) /\ Len(devices') = Len(devices)
           /\ DOMAIN devices' = DOMAIN devices
           /\ \A e \in DOMAIN devices :
                  devices'[e].owner = devices[e].owner /\ devices'[e].key = devices[e].key
           /\ \A e \in DOMAIN devices : e # d => devices'[e].active = devices[e].active
           /\ ~ devices'[d].active
<1>1. DOMAIN devices = 1 .. Len(devices) /\ Len(devices) \in Nat
  OBVIOUS
<1>2. \A e \in DOMAIN devices : devices[e] \in Devices
  OBVIOUS
<1>3. \A e \in DOMAIN devices :
          devices'[e] = IF e = d THEN [devices[d] EXCEPT !.active = FALSE] ELSE devices[e]
  BY DEF Revokes
<1>4. DOMAIN devices' = DOMAIN devices
  BY DEF Revokes
<1>5. [devices[d] EXCEPT !.active = FALSE] \in Devices
  BY <1>2 DEF Devices
<1>6. devices' \in [1 .. Len(devices) -> Devices]
  BY <1>1, <1>2, <1>5 DEF Revokes
<1>7. devices' \in Seq(Devices) /\ Len(devices') = Len(devices)
  BY <1>1, <1>6
<1>8. ASSUME NEW e \in DOMAIN devices
      PROVE  /\ devices'[e].owner = devices[e].owner /\ devices'[e].key = devices[e].key
             /\ e # d => devices'[e].active = devices[e].active
             /\ e = d => ~ devices'[e].active
  BY <1>2, <1>3 DEF Devices
<1>. QED
  BY <1>4, <1>7, <1>8

LEMMA RevokeOwnDeviceDoes ==
    ASSUME Typed, NEW d \in DOMAIN devices, RevokeOwnDevice(d)
    PROVE  /\ root = "CHAT" /\ d \in ActiveDevices(app.session.user) /\ d # app.device
           /\ UNCHANGED <<status, named, boots, diskVars, appVars, form, flow, sideVars,
                          boundVars, fails, broke>>
           /\ \/ /\ Revokes(d) /\ live' = {t \in live : t.dev # d} /\ UNCHANGED token
                 /\ token \in live /\ devices[d].owner = token.user
              \/ UNCHANGED <<devices, live>> /\ token' \in {token, NoToken}
<1>1. /\ root = "CHAT" /\ d \in ActiveDevices(app.session.user) /\ d # app.device
      /\ UNCHANGED <<status, named, boots, diskVars, appVars, form, flow, sideVars,
                     boundVars, fails, broke>>
  BY DEF RevokeOwnDevice, Workspace, OtherDevices
<1>2. CASE token \in live /\ devices[d].owner = token.user
  BY <1>1, <1>2 DEF RevokeOwnDevice, Revokes
<1>3. CASE token \in live /\ devices[d].owner # token.user
  BY <1>1, <1>3 DEF RevokeOwnDevice
<1>4. CASE token \notin live
  BY <1>1, <1>4 DEF RevokeOwnDevice
<1>. QED
  BY <1>2, <1>3, <1>4

LEMMA RevokeOwnDeviceTyped ==
    ASSUME Typed, NEW d \in DOMAIN devices, RevokeOwnDevice(d)
    PROVE  Typed'
<1>1. /\ UNCHANGED <<status, named, boots, diskVars, appVars, form, flow, sideVars,
                     boundVars, fails, broke>>
      /\ token' \in {token, NoToken}
      /\ \/ Revokes(d) /\ live' \subseteq live
         \/ UNCHANGED <<devices, live>>
  BY RevokeOwnDeviceDoes
<1>2. devices' \in Seq(Devices)
  BY <1>1, RevokesIs DEF Typed, ServerTyped
<1>3. ServerTyped'
  BY <1>1, <1>2 DEF Typed, ServerTyped
<1>4. /\ FlowTyped' /\ form' \in Forms /\ DiskTyped' /\ SideTyped' /\ BoundTyped'
  BY <1>1 DEF Typed, FlowTyped, DiskTyped, diskVars, SideTyped, sideVars, BoundTyped, boundVars
<1>5. AppTyped'
  BY <1>1, NoTokenTyped DEF Typed, AppTyped, appVars
<1>. QED
  BY <1>3, <1>4, <1>5 DEF Typed

LEMMA RevokeElsewhereTyped ==
    ASSUME Typed, NEW d \in DOMAIN devices, RevokeElsewhere(d)
    PROVE  Typed'
<1>1. /\ UNCHANGED <<status, named, boots, diskVars, appVars, form, token, flow, sideVars,
                     keysMade, begun, restarts, crossed, fails, broke>>
      /\ Revokes(d) /\ live' \subseteq live /\ elsewhere' = elsewhere + 1
  BY DEF RevokeElsewhere, Revokes
<1>2. devices' \in Seq(Devices)
  BY <1>1, RevokesIs DEF Typed, ServerTyped
<1>3. ServerTyped'
  BY <1>1, <1>2 DEF Typed, ServerTyped
<1>4. /\ FlowTyped' /\ form' \in Forms /\ DiskTyped' /\ SideTyped' /\ AppTyped'
  BY <1>1 DEF Typed, FlowTyped, DiskTyped, diskVars, SideTyped, sideVars, AppTyped, appVars
<1>5. BoundTyped'
  BY <1>1 DEF Typed, BoundTyped
<1>. QED
  BY <1>3, <1>4, <1>5 DEF Typed

\* A row is added behind the others.
LEMMA AppendIs ==
    ASSUME devices \in Seq(Devices), NEW x \in Devices, devices' = Append(devices, x)
    PROVE  /\ devices' \in Seq(Devices) /\ Len(devices') = Len(devices) + 1
           /\ Len(devices) \in Nat
           /\ DOMAIN devices' = DOMAIN devices \cup {Len(devices')}
           /\ Len(devices') \notin DOMAIN devices
           /\ \A d \in DOMAIN devices : devices'[d] = devices[d]
           /\ devices'[Len(devices')] = x
  OBVIOUS

LEMMA RegisterElsewhereTyped ==
    ASSUME Typed, NEW u \in User, RegisterElsewhere(u)
    PROVE  Typed'
<1>1. /\ UNCHANGED <<status, named, live, boots, diskVars, appVars, form, token, flow,
                     sideVars, keysMade, begun, restarts, crossed, fails, broke>>
      /\ elsewhere' = elsewhere + 1
      /\ devices' = Append(devices, [owner |-> u, key |-> 0, active |-> TRUE])
  BY DEF RegisterElsewhere
<1>2. [owner |-> u, key |-> 0, active |-> TRUE] \in Devices
  BY DEF Devices
<1>3. devices' \in Seq(Devices)
  BY <1>1, <1>2, AppendIs DEF Typed, ServerTyped
<1>4. ServerTyped'
  BY <1>1, <1>3 DEF Typed, ServerTyped
<1>5. /\ FlowTyped' /\ form' \in Forms /\ DiskTyped' /\ SideTyped' /\ AppTyped'
  BY <1>1 DEF Typed, FlowTyped, DiskTyped, diskVars, SideTyped, sideVars, AppTyped, appVars
<1>6. BoundTyped'
  BY <1>1 DEF Typed, BoundTyped
<1>. QED
  BY <1>4, <1>5, <1>6 DEF Typed

LEMMA ApproveTyped ==
    ASSUME Typed, NEW u \in User, Approve(u)
    PROVE  Typed'
<1>1. /\ status' = [status EXCEPT ![u] = "active"]
      /\ UNCHANGED <<named, devices, live, boots, diskVars, appVars, form, token, flow,
                     sideVars, boundVars, fails, broke>>
  BY DEF Approve
<1>2. ServerTyped'
  <2>1. status' \in [User -> {"unknown", "pending", "active"}]
    BY <1>1 DEF Typed, ServerTyped
  <2>2. status'[Admin] = "active"
    BY <1>1, SigninAssumption DEF Typed, ServerTyped
  <2>. QED
    BY <1>1, <2>1, <2>2 DEF Typed, ServerTyped
<1>3. /\ FlowTyped' /\ form' \in Forms /\ DiskTyped' /\ SideTyped' /\ AppTyped'
  BY <1>1 DEF Typed, FlowTyped, DiskTyped, diskVars, SideTyped, sideVars, AppTyped, appVars
<1>4. BoundTyped'
  BY <1>1 DEF Typed, BoundTyped, boundVars
<1>. QED
  BY <1>2, <1>3, <1>4 DEF Typed

LEMMA LeavingTyped ==
    ASSUME Typed, Logout \/ LogoutAnswered \/ LoggedOut
    PROVE  Typed'
<1>1. /\ UNCHANGED <<status, named, devices, boots, diskVars, form, flow, loads, saving,
                     wizard, boundVars, broke>>
      /\ live' \subseteq live /\ fails' \in {fails, fails + 1} /\ token' \in {token, NoToken}
  <2>1. CASE Logout
    BY <2>1 DEF Logout, serverVars
  <2>2. CASE LogoutAnswered
    BY <2>2 DEF LogoutAnswered, Fault
  <2>3. CASE LoggedOut
    BY <2>3 DEF LoggedOut, serverVars
  <2>. QED
    BY <2>1, <2>2, <2>3
<1>2. root' \in {root, "AUTH"} /\ app' \in {app, SignedOut}
  BY DEF Logout, LogoutAnswered, LoggedOut, appVars
<1>3. sock' \in Socks
  <2>1. sock \in Socks
    BY DEF Typed, AppTyped
  <2>2. [sock EXCEPT !.on = FALSE] \in Socks
    BY <2>1 DEF Socks
  <2>. QED
    BY <2>1, <2>2 DEF Logout, LogoutAnswered, LoggedOut, appVars
<1>4. leaving' \in Leavings
  <2>1. leaving \in Leavings /\ token \in Tokens
    BY DEF Typed, SideTyped, AppTyped
  <2>2. [leaving EXCEPT !.step = "clear"] \in Leavings
    BY <2>1 DEF Leavings
  <2>3. /\ [step |-> "api", token |-> token] \in Leavings
        /\ [step |-> "no", token |-> NoToken] \in Leavings
    BY <2>1, NoTokenTyped DEF Leavings
  <2>. QED
    BY <2>2, <2>3 DEF Logout, LogoutAnswered, LoggedOut
<1>5. ServerTyped' /\ FlowTyped' /\ form' \in Forms /\ DiskTyped'
  BY <1>1 DEF Typed, ServerTyped, FlowTyped, DiskTyped, diskVars
<1>6. AppTyped' /\ SideTyped'
  BY <1>1, <1>2, <1>3, <1>4, NoTokenTyped DEF Typed, AppTyped, SideTyped
<1>7. BoundTyped'
  BY <1>1 DEF Typed, BoundTyped, boundVars
<1>. QED
  BY <1>5, <1>6, <1>7 DEF Typed

LEMMA ScreensTyped ==
    ASSUME Typed, FinishWizard \/ SaveProfile \/ OpenAdmin \/ AdminBack
    PROVE  Typed'
<1>1. /\ UNCHANGED <<serverVars, diskVars, app, sock, form, token, flow, loads, leaving,
                     boundVars, fails, broke>>
      /\ root' \in {root, "AUTH", "ADMIN", "CHAT"}
  BY DEF FinishWizard, SaveProfile, OpenAdmin, AdminBack, sideVars, appVars
<1>2. wizard' \in {wizard, [app |-> app, token |-> token]}
  BY DEF FinishWizard, SaveProfile, OpenAdmin, AdminBack, sideVars, appVars
<1>3. saving' \in {saving, [session |-> app.session, token |-> token]}
  BY DEF FinishWizard, SaveProfile, OpenAdmin, AdminBack, sideVars, appVars
<1>4. app \in Apps /\ token \in Tokens /\ app.session \in Sessions
  BY DEF Typed, AppTyped, Apps
<1>5. [app |-> app, token |-> token] \in Wizards
  BY <1>4 DEF Wizards
<1>6. [session |-> app.session, token |-> token] \in Savings
  BY <1>4 DEF Savings
<1>7. SideTyped'
  BY <1>1, <1>2, <1>3, <1>5, <1>6 DEF Typed, SideTyped
<1>8. AppTyped'
  BY <1>1 DEF Typed, AppTyped
<1>9. ServerTyped' /\ FlowTyped' /\ form' \in Forms /\ DiskTyped' /\ BoundTyped'
  BY <1>1 DEF Typed, ServerTyped, serverVars, FlowTyped, DiskTyped, diskVars, BoundTyped, boundVars
<1>. QED
  BY <1>7, <1>8, <1>9 DEF Typed

LEMMA RestartDoes ==
    ASSUME Restart
    PROVE  /\ root' = "AUTH" /\ form' = NoForm /\ app' = SignedOut
           /\ token' = NoToken /\ sock' = [on |-> FALSE, token |-> NoToken]
           /\ flow' = [f \in Flow |-> Idle] /\ loads' = {} /\ saving' = NoSave
           /\ wizard' = NoCall /\ leaving' = [step |-> "no", token |-> NoToken]
           /\ crossed' = FALSE
           /\ UNCHANGED <<serverVars, diskVars, keysMade, elsewhere, begun, broke>>
           /\ \/ Settled /\ ~ crossed /\ restarts' = restarts + 1 /\ UNCHANGED fails
              \/ fails' = fails + 1 /\ UNCHANGED restarts
<1>1. CASE Settled /\ ~ crossed
  BY <1>1 DEF Restart
<1>2. CASE ~ (Settled /\ ~ crossed)
  BY <1>2 DEF Restart
<1>. QED
  BY <1>1, <1>2

LEMMA RestartTyped ==
    ASSUME Typed, Restart
    PROVE  Typed'
<1>1. /\ root' = "AUTH" /\ form' = NoForm /\ app' = SignedOut
      /\ token' = NoToken /\ sock' = [on |-> FALSE, token |-> NoToken]
      /\ flow' = [f \in Flow |-> Idle] /\ loads' = {} /\ saving' = NoSave
      /\ wizard' = NoCall /\ leaving' = [step |-> "no", token |-> NoToken]
      /\ crossed' = FALSE
      /\ UNCHANGED <<serverVars, diskVars, keysMade, elsewhere, begun, broke>>
      /\ restarts' \in {restarts, restarts + 1} /\ fails' \in {fails, fails + 1}
  BY RestartDoes
<1>2. ServerTyped' /\ DiskTyped'
  BY <1>1 DEF Typed, ServerTyped, serverVars, DiskTyped, diskVars
<1>3. sock' \in Socks /\ leaving' \in Leavings
  BY <1>1, NoTokenTyped DEF Socks, Leavings
<1>4. AppTyped' /\ SideTyped' /\ form' \in Forms
  BY <1>1, <1>3, NoTokenTyped DEF AppTyped, SideTyped
<1>5. FlowTyped'
  BY <1>1 DEF FlowTyped, Idle
<1>6. BoundTyped'
  <2>1. /\ keysMade' \in Nat /\ elsewhere' \in Nat /\ begun' \in Nat
        /\ fails' \in Nat /\ restarts' \in Nat
    BY <1>1 DEF Typed, BoundTyped
  <2>2. crossed' \in BOOLEAN /\ broke' \in BOOLEAN
    BY <1>1, Zenon DEF Typed, BoundTyped
  <2>. QED
    BY <2>1, <2>2 DEF BoundTyped
<1>. QED
  BY <1>2, <1>4, <1>5, <1>6 DEF Typed

LEMMA InitTyped ==
    ASSUME Init
    PROVE  Typed
<1>1. ServerTyped
  <2>1. devices \in Seq(Devices)
    BY DEF Init
  <2>2. status \in [User -> {"unknown", "pending", "active"}] /\ status[Admin] = "active"
    BY SigninAssumption DEF Init
  <2>. QED
    BY <2>1, <2>2, SigninAssumption DEF Init, ServerTyped
<1>2. DiskTyped
  BY DEF Init, DiskTyped, Vaults
<1>3. sock \in Socks /\ leaving \in Leavings
  BY NoTokenTyped DEF Init, Socks, Leavings
<1>4. AppTyped /\ SideTyped /\ form \in Forms
  BY <1>3, NoTokenTyped DEF Init, AppTyped, SideTyped
<1>5. FlowTyped
  BY DEF Init, FlowTyped, Idle
<1>6. BoundTyped
  BY DEF Init, BoundTyped
<1>. QED
  BY <1>1, <1>2, <1>4, <1>5, <1>6 DEF Typed
LEMMA SameTyped ==
    ASSUME Typed, UNCHANGED vars
    PROVE  Typed'
<1>1. /\ ServerTyped' /\ DiskTyped' /\ AppTyped' /\ FlowTyped' /\ SideTyped'
      /\ form' \in Forms
  BY DEF Typed, ServerTyped, serverVars, FlowTyped, DiskTyped, diskVars, AppTyped, appVars,
         SideTyped, sideVars, vars
<1>2. BoundTyped'
  BY DEF Typed, BoundTyped, boundVars, vars
<1>. QED
  BY <1>1, <1>2 DEF Typed

LEMMA ReturnsTyped ==
    ASSUME Typed, NEW f \in Flow, Returns(f)
    PROVE  Typed'
  BY AccessAnsweredTyped, AccessFailsTyped, BootstrapAnsweredTyped, ReturningAdminTyped,
     CompleteSetupTyped, ChallengeAnsweredTyped, MatchDeviceTyped, VerifyAnsweredTyped,
     LoginFailsTyped, RegisterAnsweredTyped, SaveAnchorsTyped, EnterTyped DEF Returns

\* The steps of the program, sorted by what they touch.
Edit == (\E u \in User : TypeEmail(u)) \/ SelectDifferentProfile \/ CancelRequest
Request == \E f \in Flow : \/ RequestAccess(f) \/ CheckApproval(f) \/ RegisterDevice(f)
                           \/ \E u \in User : AccountSelect(f, u)
Return == \E f \in Flow : Returns(f)
Load == \E l \in loads : Listed(l) \/ Loaded(l)
Work == \/ FinishWizard \/ WizardDone \/ SaveProfile \/ ProfileSaved
        \/ \E d \in DOMAIN devices : RevokeOwnDevice(d)
        \/ Logout \/ LogoutAnswered \/ LoggedOut \/ OpenAdmin \/ AdminBack
Others == \/ \E u \in User : Approve(u) \/ RegisterElsewhere(u)
          \/ \E d \in DOMAIN devices : RevokeElsewhere(d)

LEMMA NextIs ==
    ASSUME [Next]_vars
    PROVE  Edit \/ Request \/ Return \/ Load \/ Work \/ Others \/ Restart \/ UNCHANGED vars
  BY Zenon DEF Next, Edit, Request, Return, Load, Work, Others

LEMMA NextTyped ==
    ASSUME Typed, [Next]_vars
    PROVE  Typed'
<1>1. CASE Edit
  <2>1. PICK u \in User : TypeEmail(u) \/ SelectDifferentProfile \/ CancelRequest
    BY <1>1, SigninAssumption DEF Edit
  <2>2. form' \in Forms /\ Edits(form')
    BY <2>1, EditingDoes DEF Typed
  <2>. QED
    BY <2>2, EditsTyped
<1>2. CASE Request
  BY <1>2, RequestsTyped DEF Request
<1>3. CASE Return
  BY <1>3, ReturnsTyped DEF Return
<1>4. CASE Load
  BY <1>4, ListedTyped, LoadedTyped DEF Load
<1>5. CASE Work
  BY <1>5, ScreensTyped, WizardDoneTyped, ProfileSavedTyped, RevokeOwnDeviceTyped,
     LeavingTyped DEF Work
<1>6. CASE Others
  BY <1>6, ApproveTyped, RegisterElsewhereTyped, RevokeElsewhereTyped DEF Others
<1>. QED
  BY <1>1, <1>2, <1>3, <1>4, <1>5, <1>6, RestartTyped, SameTyped, NextIs
-----------------------------------------------------------------------------
(***************************************************************************)
(* What keeps a session in one piece, as long as handlers do not overlap.  *)
(***************************************************************************)

\* Device d, if any, is registered with the keys k.
Known(k, d) == d # 0 => d \in DOMAIN devices /\ devices[d].key = k

\* The workspace has a session.
Rooted == root \in {"CHAT", "ADMIN"} => app.session # NoSession

\* One handler at a time, on the login screen, where nobody is connected.
OneHandler == \A f, g \in Flow : Busy(f) /\ Busy(g) => f = g
Outside == \A f \in Flow : Busy(f) => root = "AUTH" /\ ~ flow[f].orphan /\ loads = {}
Quieted == root = "AUTH" => ~ sock.on

\* The calls of the workspace belong to the session that is there.
Leaves == leaving.step # "no" => ~ sock.on /\ root \in {"CHAT", "ADMIN"}
WizardKeeps ==
    wizard # NoCall =>
        /\ root = "ONBOARDING"
        /\ wizard.app.session.user = app.session.user /\ wizard.app.keys = app.keys
SavingKeeps ==
    saving # NoSave /\ root # "AUTH" =>
        root \in {"CHAT", "ADMIN"} /\ saving.session.user = app.session.user

\* So does the token, and the keys are those of its device.
Tokened ==
    root # "AUTH" =>
        \/ token = NoToken
        \/ token.user = app.session.user /\ Known(app.keys, token.dev)

\* The form and the handler it has started are about one user.
Formed == /\ form.code # NoUser => form.uid = form.code
          /\ form.view = "WAITING" => form.email \in {form.code, NoUser}

Registering == {"post", "keys", "device", "otpks"}
FlowOK(q) ==
    /\ q.kind # "register" => q.step \notin Registering
    /\ q.kind = "register" => /\ q.step \in Registering \cup {"enter"}
                              /\ q.code # NoUser => q.uid = q.code
    /\ q.step \in {"boot", "returning", "setup"} => q.kind = "submit"
    /\ q.step \in {"access", "boot", "returning", "setup"} => q.dev = 0
    /\ q.kind \in {"submit", "select"} /\ q.step \in {"access", "boot"} => form.view = "HOME"
    /\ q.kind \in {"submit", "select"} /\ q.step = "access" =>
           form.submitting /\ form.email \in {q.user, NoUser}
    /\ q.kind # "register" /\ q.user # NoUser /\ (q.step # "access" \/ q.kind = "check") =>
           form.code \in {q.user, NoUser}
    /\ q.kind = "register" /\ q.step # "post" =>
           q.user = q.code /\ q.dev # 0 /\ Known(q.keys, q.dev)
    /\ q.step = "match" => q.list \subseteq DOMAIN devices
    /\ q.step = "verify" => q.dev \in DOMAIN devices
    /\ q.step \in {"setup", "enter"} => token \in {TokenOf(q), NoToken}
    /\ q.step = "enter" => Known(q.keys, q.dev)
FlowsOK == \A f \in Flow : Busy(f) => FlowOK(flow[f])

Clean == /\ OneHandler /\ Outside /\ Quieted /\ Leaves /\ WizardKeeps /\ SavingKeeps
         /\ Tokened /\ Formed /\ FlowsOK
IInv == Typed /\ Rooted /\ (~ crossed => Clean)

\* Device rows stay, with their keys.
DevicesGrow == /\ DOMAIN devices \subseteq DOMAIN devices'
               /\ \A d \in DOMAIN devices : devices'[d].key = devices[d].key

LEMMA SameGrow ==
    ASSUME UNCHANGED devices
    PROVE  DevicesGrow
  BY DEF DevicesGrow

\* No handler is under way in the workspace, nor while devices are loaded.
LEMMA NoneBusy ==
    ASSUME Clean, root # "AUTH" \/ loads # {}
    PROVE  \A f \in Flow : ~ Busy(f)
  BY DEF Clean, Outside

\* What the login screen does keeps the session's part.
LEMMA InsideKeeps ==
    ASSUME Clean, Inside, root = "AUTH"
    PROVE  /\ Quieted' /\ Leaves' /\ WizardKeeps' /\ SavingKeeps' /\ Tokened'
<1>. UNCHANGED <<root, app, sock, loads, saving, wizard, leaving>> /\ root' = "AUTH"
  BY DEF Inside, appVars, sideVars
<1>. QED
  BY DEF Clean, Quieted, Leaves, WizardKeeps, SavingKeeps, Tokened

LEMMA StopsClean ==
    ASSUME FlowTyped, Clean, NEW f \in Flow, flow[f].step # "idle", Inside, Stops(f), Formed'
    PROVE  Clean'
<1>1. root = "AUTH" /\ Busy(f)
  BY DEF Clean, Outside, Busy
<1>2. \A g \in Flow : flow'[g] = Idle
  <2>1. \A g \in Flow : g # f => ~ Busy(g)
    BY <1>1 DEF Clean, OneHandler
  <2>2. \A g \in Flow : ~ Busy(g) => flow[g] = Idle
    BY DEF FlowTyped, Busy, Flows, Steps
  <2>. QED
    BY <2>1, <2>2 DEF Stops, FlowTyped
<1>3. OneHandler' /\ Outside' /\ FlowsOK'
  BY <1>2 DEF OneHandler, Outside, FlowsOK, Busy, Idle
<1>. QED
  BY <1>1, <1>3, InsideKeeps DEF Clean

LEMMA MovesClean ==
    ASSUME FlowTyped, Clean, NEW f \in Flow, flow[f].step # "idle", Inside,
           NEW s \in Steps, NEW k \in Nat, NEW d \in Nat, NEW L \in SUBSET Nat,
           Moves(f, s, k, d, L), Formed', FlowOK(flow[f])'
    PROVE  Clean'
<1>1. root = "AUTH" /\ Busy(f) /\ ~ flow[f].orphan /\ loads = {}
  BY DEF Clean, Outside, Busy
<1>2. flow'[f] = Put(flow[f], s, k, d, L) /\ \A g \in Flow : g # f => flow'[g] = flow[g]
  BY DEF Moves, FlowTyped
<1>3. \A g \in Flow : g # f => ~ Busy(g)
  BY <1>1 DEF Clean, OneHandler
<1>4. \A g \in Flow : g # f => ~ Busy(g)'
  BY <1>2, <1>3 DEF Busy
<1>5. flow'[f].orphan = flow[f].orphan
  BY <1>2, BusyIsFlow, PutIs
<1>6. OneHandler' /\ FlowsOK'
  BY <1>4 DEF OneHandler, FlowsOK
<1>7. Outside'
  BY <1>1, <1>4, <1>5 DEF Outside, Inside, appVars, sideVars
<1>. QED
  BY <1>1, <1>6, <1>7, InsideKeeps DEF Clean

\* The handler of a Clean state, and its form.
LEMMA CleanFlow ==
    ASSUME FlowTyped, Clean, NEW f \in Flow, flow[f].step # "idle"
    PROVE  /\ FlowOK(flow[f]) /\ ~ flow[f].orphan /\ root = "AUTH" /\ loads = {} /\ Formed
           /\ flow[f] \in Flows /\ flow[f].keys \in Nat /\ flow[f].dev \in Nat
           /\ flow[f].list \in SUBSET Nat /\ flow[f].user \in Users /\ flow[f].code \in Users
           /\ flow[f].kind \in {"submit", "select", "check", "register"}
           /\ NoUser \notin User
<1>1. flow[f] \in Flows
  BY BusyIsFlow
<1>. QED
  BY <1>1, SigninAssumption DEF Clean, Outside, FlowsOK, Busy, Flows

\* What FlowOK says of a handler that goes on from s0 to s.
LEMMA MovedIs ==
    ASSUME FlowTyped, NEW f \in Flow, flow[f].step # "idle",
           NEW s \in Steps, NEW k \in Nat, NEW d \in Nat, NEW L \in SUBSET Nat,
           Moves(f, s, k, d, L)
    PROVE  /\ flow'[f].step = s /\ flow'[f].keys = k /\ flow'[f].dev = d
           /\ flow'[f].list = L /\ flow'[f].kind = flow[f].kind
           /\ flow'[f].user = flow[f].user /\ flow'[f].uid = flow[f].uid
           /\ flow'[f].code = flow[f].code /\ flow'[f].no = flow[f].no
<1>1. flow'[f] = Put(flow[f], s, k, d, L)
  BY DEF Moves, FlowTyped
<1>2. flow[f] \in Flows
  BY BusyIsFlow
<1>. QED
  BY <1>1, <1>2, PutIs
LEMMA AccessAnsweredClean ==
    ASSUME Typed, Clean, NEW f \in Flow, AccessAnswered(f)
    PROVE  Clean'
<1>. DEFINE q == flow[f]
<1>1. /\ q.step = "access" /\ q.user \in User /\ Inside /\ FlowTyped /\ form \in Forms
      /\ UNCHANGED <<devices, token>>
  BY AccessAnsweredDoes DEF Typed
<1>2. /\ FlowOK(q) /\ ~ q.orphan /\ Formed /\ q.keys \in Nat /\ q.dev \in Nat
      /\ q.list \in SUBSET Nat /\ q.user # NoUser
  BY <1>1, CleanFlow
<1>3. q.dev = 0 /\ q.kind # "register"
  BY <1>1, <1>2 DEF FlowOK, Registering
<1>4. CASE Stops(f) /\ Draws(f, form.view, form.uid, form.code)
  <2>1. Formed'
    BY <1>2, <1>4 DEF Formed, Draws
  <2>. QED
    BY <1>1, <1>4, <2>1, StopsClean
<1>5. CASE /\ Stops(f) /\ Draws(f, "WAITING", q.user, q.user) /\ q.kind # "check"
  <2>1. form.email \in {q.user, NoUser}
    BY <1>1, <1>2, <1>3, <1>5, CleanFlow DEF FlowOK
  <2>2. Formed'
    BY <1>2, <1>5, <2>1 DEF Formed, Draws
  <2>. QED
    BY <1>1, <1>5, <2>2, StopsClean
<1>6. CASE /\ Moves(f, "boot", q.keys, q.dev, q.list)
           /\ Draws(f, form.view, q.user, q.user) /\ q.kind = "submit"
  <2>1. form.view = "HOME"
    BY <1>1, <1>2, <1>6 DEF FlowOK
  <2>2. Formed' /\ form'.code = q.user /\ form'.view = "HOME"
    BY <1>2, <1>6, <2>1 DEF Formed, Draws
  <2>3. FlowOK(flow[f])'
    BY <1>1, <1>2, <1>3, <1>6, <2>2, MovedIs DEF FlowOK, Steps, Registering
  <2>. QED
    BY <1>1, <1>2, <1>6, <2>2, <2>3, MovesClean DEF Steps
<1>7. CASE /\ Moves(f, "challenge", q.keys, q.dev, q.list)
           /\ Draws(f, form.view, form.uid, form.code) /\ q.kind = "check"
  <2>1. form.code \in {q.user, NoUser}
    BY <1>1, <1>2, <1>7 DEF FlowOK
  <2>2. Formed' /\ form'.code = form.code
    BY <1>2, <1>7 DEF Formed, Draws
  <2>3. FlowOK(flow[f])'
    BY <1>1, <1>2, <1>3, <1>7, <2>1, <2>2, MovedIs DEF FlowOK, Steps, Registering
  <2>. QED
    BY <1>1, <1>2, <1>7, <2>2, <2>3, MovesClean DEF Steps
<1>8. CASE /\ Moves(f, "challenge", q.keys, q.dev, q.list)
           /\ Draws(f, form.view, q.user, q.user) /\ q.kind \notin {"submit", "check"}
  <2>1. form.view = "HOME"
    BY <1>1, <1>2, <1>3, <1>8, CleanFlow DEF FlowOK
  <2>2. Formed' /\ form'.code = q.user
    BY <1>2, <1>8, <2>1 DEF Formed, Draws
  <2>3. FlowOK(flow[f])'
    BY <1>1, <1>2, <1>3, <1>8, <2>2, MovedIs DEF FlowOK, Steps, Registering
  <2>. QED
    BY <1>1, <1>2, <1>8, <2>2, <2>3, MovesClean DEF Steps
<1>. QED
  BY <1>4, <1>5, <1>6, <1>7, <1>8, AccessAnsweredDoes

\* A handler that stops and leaves the form as it was.
LEMMA StopsSameClean ==
    ASSUME Typed, Clean, NEW f \in Flow, flow[f].step # "idle", Inside, Stops(f),
           Draws(f, form.view, form.uid, form.code)
    PROVE  Clean'
<1>1. FlowTyped /\ Formed /\ ~ flow[f].orphan
  BY CleanFlow DEF Typed
<1>2. Formed'
  BY <1>1 DEF Formed, Draws
<1>. QED
  BY <1>1, <1>2, StopsClean

\* One that stops on the REGISTER screen.
LEMMA StopsRegisterClean ==
    ASSUME Typed, Clean, NEW f \in Flow, flow[f].step # "idle", Inside, Stops(f), NEW u,
           Draws(f, "REGISTER", u, form.code), form.code \in {u, NoUser}
    PROVE  Clean'
<1>1. FlowTyped /\ Formed /\ ~ flow[f].orphan
  BY CleanFlow DEF Typed
<1>2. Formed'
  BY <1>1 DEF Formed, Draws
<1>. QED
  BY <1>1, <1>2, StopsClean

LEMMA AsksClean ==
    ASSUME Typed, Clean, NEW f \in Flow, flow[f].step = "boot", Inside,
           UNCHANGED <<devices, token>>, AsksChallenge(f)
    PROVE  Clean'
<1>. DEFINE q == flow[f]
<1>1. FlowTyped /\ form \in Forms
  BY DEF Typed
<1>2. /\ FlowOK(q) /\ ~ q.orphan /\ Formed /\ q.keys \in Nat /\ q.dev \in Nat
      /\ q.list \in SUBSET Nat
  BY <1>1, CleanFlow
<1>3. q.dev = 0 /\ q.kind = "submit"
  BY <1>2 DEF FlowOK
<1>4. CASE Stops(f)
  BY <1>4, StopsSameClean DEF AsksChallenge
<1>5. CASE Moves(f, "challenge", q.keys, q.dev, q.list)
  <2>1. Formed' /\ form'.code = form.code
    BY <1>2 DEF Formed, Draws, AsksChallenge
  <2>2. FlowOK(flow[f])'
    BY <1>1, <1>2, <1>3, <1>5, <2>1, MovedIs DEF FlowOK, Steps, Registering
  <2>. QED
    BY <1>1, <1>2, <1>5, <2>1, <2>2, MovesClean DEF Steps
<1>. QED
  BY <1>4, <1>5 DEF AsksChallenge

LEMMA BootstrapAnsweredClean ==
    ASSUME Typed, Clean, NEW f \in Flow, BootstrapAnswered(f)
    PROVE  Clean'
<1>. DEFINE q == flow[f]
<1>1. /\ q.step = "boot" /\ q.user \in User /\ Inside /\ FlowTyped /\ form \in Forms
      /\ UNCHANGED <<devices, token>>
  BY BootstrapAnsweredDoes DEF Typed
<1>2. /\ FlowOK(q) /\ ~ q.orphan /\ Formed /\ q.keys \in Nat /\ q.dev \in Nat
      /\ q.list \in SUBSET Nat /\ q.user # NoUser
  BY <1>1, CleanFlow
<1>3. q.dev = 0 /\ q.kind = "submit" /\ form.code \in {q.user, NoUser}
  BY <1>1, <1>2 DEF FlowOK
<1>4. CASE AsksChallenge(f)
  BY <1>1, <1>4, AsksClean
<1>5. CASE /\ Moves(f, "returning", q.keys, q.dev, q.list)
           /\ Draws(f, "LOADING", form.uid, form.code)
  <2>1. Formed' /\ form'.code = form.code
    BY <1>2, <1>5 DEF Formed, Draws
  <2>2. FlowOK(flow[f])'
    BY <1>1, <1>2, <1>3, <1>5, <2>1, MovedIs DEF FlowOK, Steps, Registering
  <2>. QED
    BY <1>1, <1>2, <1>5, <2>1, <2>2, MovesClean DEF Steps
<1>. QED
  BY <1>4, <1>5, BootstrapAnsweredDoes

LEMMA ReturningAdminClean ==
    ASSUME Typed, Clean, NEW f \in Flow, ReturningAdmin(f)
    PROVE  Clean'
<1>. DEFINE q == flow[f]
<1>1. /\ q.step = "returning" /\ q.user \in User /\ Inside /\ FlowTyped /\ form \in Forms
      /\ UNCHANGED devices /\ token' = TokenOf(q)
      /\ vault.keys \in Nat /\ vault.device \in Nat
  BY ReturningAdminDoes DEF Typed, DiskTyped, Vaults
<1>2. /\ FlowOK(q) /\ ~ q.orphan /\ Formed /\ q.keys \in Nat /\ q.dev \in Nat
      /\ q.list \in SUBSET Nat /\ q.user # NoUser
  BY <1>1, CleanFlow
<1>3. q.dev = 0 /\ q.kind = "submit" /\ form.code \in {q.user, NoUser}
  BY <1>1, <1>2 DEF FlowOK
<1>4. CASE /\ Moves(f, "enter", vault.keys, q.dev, {vault.device})
           /\ Draws(f, form.view, form.uid, form.code)
  <2>1. Formed' /\ form'.code = form.code
    BY <1>2, <1>4 DEF Formed, Draws
  <2>2. FlowOK(flow[f])'
    <3>1. /\ flow'[f].step = "enter" /\ flow'[f].dev = 0 /\ flow'[f].kind = "submit"
          /\ flow'[f].user = q.user /\ flow'[f].no = q.no
      BY <1>1, <1>3, <1>4, MovedIs DEF Steps
    <3>2. token' = TokenOf(flow'[f])
      BY <1>1, <1>3, <3>1 DEF TokenOf
    <3>3. Known(flow[f].keys, flow[f].dev)'
      BY <3>1 DEF Known
    <3>. QED
      BY <1>3, <2>1, <3>1, <3>2, <3>3 DEF FlowOK, Registering
  <2>. QED
    BY <1>1, <1>2, <1>4, <2>1, <2>2, MovesClean DEF Steps
<1>5. CASE /\ Moves(f, "setup", q.keys, q.dev, q.list)
           /\ Draws(f, form.view, q.user, form.code)
  <2>1. Formed' /\ form'.code = form.code
    BY <1>2, <1>3, <1>5 DEF Formed, Draws
  <2>2. FlowOK(flow[f])'
    <3>1. /\ flow'[f].step = "setup" /\ flow'[f].dev = 0 /\ flow'[f].kind = "submit"
          /\ flow'[f].user = q.user /\ flow'[f].no = q.no
      BY <1>1, <1>2, <1>3, <1>5, MovedIs DEF Steps
    <3>2. token' = TokenOf(flow'[f])
      BY <1>1, <1>3, <3>1 DEF TokenOf
    <3>. QED
      BY <1>3, <2>1, <3>1, <3>2 DEF FlowOK, Registering
  <2>. QED
    BY <1>1, <1>2, <1>5, <2>1, <2>2, MovesClean DEF Steps
<1>. QED
  BY <1>4, <1>5, ReturningAdminDoes

LEMMA CompleteSetupClean ==
    ASSUME Typed, Clean, NEW f \in Flow, CompleteSetup(f)
    PROVE  Clean'
<1>. DEFINE q == flow[f]
<1>1. /\ q.step = "setup" /\ q.user \in User /\ Inside /\ FlowTyped /\ form \in Forms
      /\ UNCHANGED <<devices, token>>
      /\ Draws(f, form.view, form.uid, form.code)
  BY CompleteSetupDoes DEF Typed
<1>2. /\ FlowOK(q) /\ ~ q.orphan /\ Formed /\ q.keys \in Nat /\ q.dev \in Nat
      /\ q.list \in SUBSET Nat /\ q.user # NoUser
  BY <1>1, CleanFlow
<1>3. /\ q.dev = 0 /\ q.kind = "submit" /\ form.code \in {q.user, NoUser}
      /\ token \in {TokenOf(q), NoToken}
  BY <1>1, <1>2 DEF FlowOK
<1>4. CASE Stops(f)
  BY <1>1, <1>4, StopsSameClean
<1>5. CASE keysMade' = keysMade + 1 /\ Moves(f, "enter", keysMade', q.dev, q.list)
  <2>1. keysMade' \in Nat
    BY <1>5 DEF Typed, BoundTyped
  <2>2. Formed' /\ form'.code = form.code
    BY <1>1, <1>2 DEF Formed, Draws
  <2>3. FlowOK(flow[f])'
    <3>1. /\ flow'[f].step = "enter" /\ flow'[f].dev = 0 /\ flow'[f].kind = "submit"
          /\ flow'[f].user = q.user /\ flow'[f].no = q.no
      BY <1>1, <1>2, <1>3, <1>5, <2>1, MovedIs DEF Steps
    <3>2. TokenOf(flow'[f]) = TokenOf(q)
      BY <1>3, <3>1 DEF TokenOf
    <3>3. Known(flow[f].keys, flow[f].dev)'
      BY <3>1 DEF Known
    <3>. QED
      BY <1>1, <1>3, <2>2, <3>1, <3>2, <3>3 DEF FlowOK, Registering
  <2>. QED
    BY <1>1, <1>2, <1>5, <2>1, <2>2, <2>3, MovesClean DEF Steps
<1>. QED
  BY <1>4, <1>5, CompleteSetupDoes

LEMMA ChallengeAnsweredClean ==
    ASSUME Typed, Clean, NEW f \in Flow, ChallengeAnswered(f)
    PROVE  Clean'
<1>. DEFINE q == flow[f]
            L == ActiveDevices(q.user)
<1>1. /\ q.step = "challenge" /\ q.user \in User /\ Inside /\ FlowTyped /\ form \in Forms
      /\ UNCHANGED <<devices, token>>
      /\ Draws(f, form.view, form.uid, form.code)
      /\ Moves(f, "match", q.keys, q.dev, L)
  BY ChallengeAnsweredDoes DEF Typed
<1>2. /\ FlowOK(q) /\ ~ q.orphan /\ Formed /\ q.keys \in Nat /\ q.dev \in Nat
      /\ q.user # NoUser
  BY <1>1, CleanFlow
<1>3. q.kind # "register" /\ form.code \in {q.user, NoUser}
  BY <1>1, <1>2 DEF FlowOK, Registering
<1>4. L \in SUBSET Nat /\ L \subseteq DOMAIN devices
  BY ActiveAreNumbers DEF Typed, ServerTyped, ActiveDevices
<1>5. Formed' /\ form'.code = form.code
  BY <1>1, <1>2 DEF Formed, Draws
<1>. HIDE DEF L
<1>6. FlowOK(flow[f])'
  BY <1>1, <1>2, <1>3, <1>4, <1>5, MovedIs DEF FlowOK, Steps, Registering
<1>. QED
  BY <1>1, <1>2, <1>4, <1>5, <1>6, MovesClean DEF Steps

LEMMA MatchDeviceClean ==
    ASSUME Typed, Clean, NEW f \in Flow, MatchDevice(f)
    PROVE  Clean'
<1>. DEFINE q == flow[f]
<1>1. /\ q.step = "match" /\ q.user \in User /\ Inside /\ FlowTyped /\ form \in Forms
      /\ UNCHANGED <<devices, token>> /\ vault.keys \in Nat /\ vault.device \in Nat
  BY MatchDeviceDoes DEF Typed, DiskTyped, Vaults
<1>2. /\ FlowOK(q) /\ ~ q.orphan /\ Formed /\ q.list \in SUBSET Nat /\ q.user # NoUser
  BY <1>1, CleanFlow
<1>3. /\ q.kind # "register" /\ form.code \in {q.user, NoUser}
      /\ q.list \subseteq DOMAIN devices
  BY <1>1, <1>2 DEF FlowOK, Registering
<1>4. CASE Stops(f) /\ Draws(f, "REGISTER", q.user, form.code)
  BY <1>1, <1>3, <1>4, StopsRegisterClean
<1>5. CASE /\ vault.device \in q.list /\ Draws(f, form.view, form.uid, form.code)
           /\ Moves(f, "verify", vault.keys, vault.device, q.list)
  <2>1. Formed' /\ form'.code = form.code
    BY <1>2, <1>5 DEF Formed, Draws
  <2>2. FlowOK(flow[f])'
    BY <1>1, <1>2, <1>3, <1>5, <2>1, MovedIs DEF FlowOK, Steps, Registering
  <2>. QED
    BY <1>1, <1>2, <1>5, <2>1, <2>2, MovesClean DEF Steps
<1>. QED
  BY <1>4, <1>5, MatchDeviceDoes

LEMMA VerifyAnsweredClean ==
    ASSUME Typed, Clean, NEW f \in Flow, VerifyAnswered(f)
    PROVE  Clean'
<1>. DEFINE q == flow[f]
<1>1. /\ q.step = "verify" /\ q.user \in User /\ Inside /\ FlowTyped /\ form \in Forms
      /\ UNCHANGED devices
  BY VerifyAnsweredDoes DEF Typed
<1>2. /\ FlowOK(q) /\ ~ q.orphan /\ Formed /\ q.keys \in Nat /\ q.dev \in Nat
      /\ {q.dev} \in SUBSET Nat /\ q.user # NoUser
  BY <1>1, CleanFlow
<1>3. /\ q.kind # "register" /\ form.code \in {q.user, NoUser} /\ q.dev \in DOMAIN devices
  BY <1>1, <1>2 DEF FlowOK, Registering
<1>4. CASE Stops(f)
  BY <1>1, <1>3, <1>4, StopsSameClean, StopsRegisterClean, VerifyAnsweredDoes DEF Stops, Moves
<1>5. CASE /\ devices[q.dev].key = q.keys /\ token' = TokenOf(q)
           /\ Draws(f, form.view, form.uid, form.code)
           /\ Moves(f, "enter", q.keys, q.dev, {q.dev})
  <2>1. Formed' /\ form'.code = form.code
    BY <1>2, <1>5 DEF Formed, Draws
  <2>2. FlowOK(flow[f])'
    <3>1. /\ flow'[f].step = "enter" /\ flow'[f].dev = q.dev /\ flow'[f].kind = q.kind
          /\ flow'[f].user = q.user /\ flow'[f].no = q.no /\ flow'[f].keys = q.keys
      BY <1>1, <1>2, <1>5, MovedIs DEF Steps
    <3>2. TokenOf(flow'[f]) = TokenOf(q)
      BY <3>1 DEF TokenOf
    <3>3. Known(flow[f].keys, flow[f].dev)'
      BY <1>1, <1>3, <1>5, <3>1 DEF Known
    <3>. QED
      BY <1>1, <1>3, <1>5, <2>1, <3>1, <3>2, <3>3 DEF FlowOK, Registering
  <2>. QED
    BY <1>1, <1>2, <1>5, <2>1, <2>2, MovesClean DEF Steps
<1>. QED
  <2>1. \/ Stops(f)
        \/ /\ devices[q.dev].key = q.keys /\ token' = TokenOf(q)
           /\ Draws(f, form.view, form.uid, form.code)
           /\ Moves(f, "enter", q.keys, q.dev, {q.dev})
    BY VerifyAnsweredDoes
  <2>. QED
    BY <1>4, <1>5, <2>1
LEMMA RegisterAnsweredClean ==
    ASSUME Typed, Clean, NEW f \in Flow, RegisterAnswered(f)
    PROVE  Clean'
<1>. DEFINE q == flow[f]
<1>1. q.step = "post" /\ Inside /\ FlowTyped /\ UNCHANGED <<status, boots>>
  BY RegisterAnsweredDoes DEF Typed
<1>2. /\ FlowOK(q) /\ ~ q.orphan /\ Formed /\ q.keys \in Nat /\ q.dev \in Nat
      /\ q.list \in SUBSET Nat /\ q \in Flows
  BY <1>1, CleanFlow
<1>3. q.kind = "register" /\ (q.code # NoUser => q.uid = q.code)
  BY <1>1, <1>2 DEF FlowOK, Registering
<1>4. CASE Stops(f) /\ Draws(f, "REGISTER", form.uid, form.code)
  <2>1. Formed'
    BY <1>2, <1>4 DEF Formed, Draws
  <2>. QED
    BY <1>1, <1>4, <2>1, StopsClean
<1>5. CASE /\ q.user \in User /\ q.code = q.user /\ Registered(q) /\ UNCHANGED token
           /\ Draws(f, form.view, form.uid, form.code)
           /\ Moves(f, "keys", q.keys, Len(devices'), q.list)
  <2>1. UNCHANGED named
    BY <1>1 DEF Inside
  <2>2. /\ Len(devices') \in Nat /\ devices'[Len(devices')].key = q.keys
        /\ Len(devices') \in DOMAIN devices'
    BY <1>1, <1>2, <1>5, <2>1, RegisteredTyped DEF Typed
  <2>3. Formed' /\ form'.code = form.code
    BY <1>2, <1>5 DEF Formed, Draws
  <2>4. FlowOK(flow[f])'
    <3>1. /\ flow'[f].step = "keys" /\ flow'[f].dev = Len(devices') /\ flow'[f].kind = q.kind
          /\ flow'[f].user = q.user /\ flow'[f].uid = q.uid /\ flow'[f].keys = q.keys
          /\ flow'[f].code = q.code
      BY <1>1, <1>2, <1>5, <2>2, MovedIs DEF Steps
    <3>2. Known(flow[f].keys, flow[f].dev)'
      BY <2>2, <3>1 DEF Known
    <3>3. Len(devices') # 0
      <4>1. Len(devices') = Len(devices) + 1 /\ Len(devices) \in Nat
        BY <1>1, <1>2, <1>5, <2>1, RegisteredTyped DEF Typed, ServerTyped
      <4>. QED
        BY <4>1
    <3>. QED
      BY <1>3, <1>5, <3>1, <3>2, <3>3 DEF FlowOK, Registering
  <2>. QED
    BY <1>1, <1>2, <1>5, <2>2, <2>3, <2>4, MovesClean DEF Steps
<1>. QED
  <2>1. \/ Stops(f) /\ Draws(f, "REGISTER", form.uid, form.code)
        \/ /\ q.user \in User /\ q.code = q.user /\ Registered(q) /\ UNCHANGED token
           /\ Draws(f, form.view, form.uid, form.code)
           /\ Moves(f, "keys", q.keys, Len(devices'), q.list)
    BY RegisterAnsweredDoes
  <2>. QED
    BY <1>4, <1>5, <2>1

LEMMA SaveAnchorsClean ==
    ASSUME Typed, Clean, NEW f \in Flow, SaveAnchors(f)
    PROVE  Clean'
<1>. DEFINE q == flow[f]
<1>1. /\ q.step \in {"keys", "device", "otpks"} /\ q.user \in User /\ Inside /\ FlowTyped
      /\ UNCHANGED devices /\ q.step # "idle"
  BY SaveAnchorsDoes DEF Typed
<1>2. /\ FlowOK(q) /\ ~ q.orphan /\ Formed /\ q.keys \in Nat /\ q.dev \in Nat
      /\ {q.dev} \in SUBSET Nat /\ q \in Flows
  BY <1>1, CleanFlow
<1>3. /\ q.kind = "register" /\ (q.code # NoUser => q.uid = q.code)
      /\ q.user = q.code /\ q.dev # 0 /\ Known(q.keys, q.dev)
  BY <1>1, <1>2 DEF FlowOK, Registering
<1>4. CASE Stops(f) /\ Draws(f, "REGISTER", form.uid, form.code)
  <2>1. Formed'
    BY <1>2, <1>4 DEF Formed, Draws
  <2>. QED
    BY <1>1, <1>4, <2>1, StopsClean
<1>5. ASSUME NEW s \in {"device", "otpks", "enter"},
             Draws(f, form.view, form.uid, form.code),
             Moves(f, s, q.keys, q.dev, {q.dev}),
             s = "enter" => token' = TokenOf(q)
      PROVE  Clean'
  <2>1. Formed'
    BY <1>2, <1>5 DEF Formed, Draws
  <2>2. s \in Steps
    BY DEF Steps
  <2>3. FlowOK(flow[f])'
    <3>1. /\ flow'[f].step = s /\ flow'[f].dev = q.dev /\ flow'[f].kind = q.kind
          /\ flow'[f].user = q.user /\ flow'[f].uid = q.uid /\ flow'[f].keys = q.keys
          /\ flow'[f].code = q.code /\ flow'[f].no = q.no
      BY <1>1, <1>2, <1>5, <2>2, MovedIs
    <3>2. Known(flow[f].keys, flow[f].dev)'
      BY <1>1, <1>3, <3>1 DEF Known
    <3>3. TokenOf(flow'[f]) = TokenOf(q)
      BY <3>1 DEF TokenOf
    <3>. QED
      BY <1>3, <1>5, <3>1, <3>2, <3>3 DEF FlowOK, Registering
  <2>. QED
    BY <1>1, <1>2, <1>5, <2>1, <2>2, <2>3, MovesClean
<1>. QED
  <2>1. \/ Stops(f) /\ Draws(f, "REGISTER", form.uid, form.code)
        \/ Draws(f, form.view, form.uid, form.code) /\ Moves(f, "device", q.keys, q.dev, {q.dev})
        \/ Draws(f, form.view, form.uid, form.code) /\ Moves(f, "otpks", q.keys, q.dev, {q.dev})
        \/ /\ Draws(f, form.view, form.uid, form.code) /\ token' = TokenOf(q)
           /\ Moves(f, "enter", q.keys, q.dev, {q.dev})
    BY SaveAnchorsDoes
  <2>. QED
    BY <1>4, <1>5, <2>1

LEMMA ReturnsClean ==
    ASSUME Typed, Clean, NEW f \in Flow, Returns(f), ~ Enter(f)
    PROVE  Clean'
<1>1. CASE AccessFails(f)
  BY <1>1, AccessFailsDoes, StopsSameClean
<1>2. CASE LoginFails(f)
  BY <1>2, LoginFailsDoes, StopsSameClean
<1>. QED
  BY <1>1, <1>2, AccessAnsweredClean, BootstrapAnsweredClean, ReturningAdminClean,
     CompleteSetupClean, ChallengeAnsweredClean, MatchDeviceClean, VerifyAnsweredClean,
     RegisterAnsweredClean, SaveAnchorsClean DEF Returns

\* A handler that begins alone.
LEMMA BeginsClean ==
    ASSUME Typed, Clean, NEW f \in Flow, NEW kind \in {"submit", "select", "check", "register"},
           NEW s \in {"access", "post"}, NEW u \in Users, NEW key \in Nat,
           Begins(f, kind, s, u, key), ~ crossed', Formed',
           kind = "register" <=> s = "post",
           kind \in {"submit", "select"} =>
               form'.view = "HOME" /\ form'.submitting /\ form'.email \in {u, NoUser},
           kind = "check" /\ u # NoUser => form'.code \in {u, NoUser}
    PROVE  Clean'
<1>. DEFINE n == New(kind, s, u, key)
<1>1. /\ root = "AUTH" /\ loads = {} /\ \A g \in Flow : ~ Busy(g)
      /\ flow' = [flow EXCEPT ![f] = n]
      /\ UNCHANGED <<serverVars, diskVars, appVars, token, sideVars>>
  BY DEF Begins
<1>2. flow'[f] = n /\ \A g \in Flow : g # f => flow'[g] = flow[g]
  BY <1>1 DEF Typed, FlowTyped
<1>3. /\ n.step = s /\ n.kind = kind /\ ~ n.orphan /\ n.user = u /\ n.uid = form.uid
      /\ n.code = form.code /\ n.dev = 0
  BY DEF New
<1>. HIDE DEF n
<1>4. \A g \in Flow : g # f => ~ Busy(g)'
  BY <1>1, <1>2 DEF Busy
<1>5. UNCHANGED <<root, app, sock, loads, saving, wizard, leaving>>
  BY <1>1 DEF appVars, sideVars
<1>6. OneHandler' /\ Outside'
  BY <1>1, <1>2, <1>3, <1>4, <1>5 DEF OneHandler, Outside
<1>7. Quieted' /\ Leaves' /\ WizardKeeps' /\ SavingKeeps' /\ Tokened'
  BY <1>1, <1>5 DEF Clean, Quieted, Leaves, WizardKeeps, SavingKeeps, Tokened
<1>8. FlowOK(flow[f])'
  <2>1. form.code # NoUser => form.uid = form.code
    BY DEF Clean, Formed
  <2>. QED
    BY <1>2, <1>3, <2>1 DEF FlowOK, Registering
<1>9. FlowsOK'
  BY <1>4, <1>8 DEF FlowsOK
<1>. QED
  BY <1>6, <1>7, <1>9 DEF Clean

LEMMA RequestsClean ==
    ASSUME Typed, Clean, NEW f \in Flow, ~ crossed',
           \/ RequestAccess(f) \/ CheckApproval(f) \/ RegisterDevice(f)
           \/ \E u \in User : AccountSelect(f, u)
    PROVE  Clean'
<1>1. CASE RequestAccess(f)
  <2>1. form.email \in Users /\ Formed
    BY DEF Typed, Forms, Clean
  <2>2. Formed'
    BY <1>1, <2>1, RequestAccessDoes DEF Formed
  <2>. QED
    BY <1>1, <2>1, <2>2, RequestAccessDoes, BeginsClean
<1>2. CASE CheckApproval(f)
  <2>1. form.email \in Users /\ Formed
    BY DEF Typed, Forms, Clean
  <2>2. Formed' /\ (form.email # NoUser => form'.code \in {form.email, NoUser})
    BY <1>2, <2>1, CheckApprovalDoes DEF Formed
  <2>. QED
    BY <1>2, <2>1, <2>2, CheckApprovalDoes, BeginsClean
<1>3. CASE RegisterDevice(f)
  <2>1. form.email \in Users /\ Formed /\ keysMade' \in Nat
    BY <1>3, RegisterDeviceDoes DEF Typed, Forms, Clean, BoundTyped
  <2>2. Formed'
    BY <1>3, <2>1, RegisterDeviceDoes DEF Formed
  <2>. QED
    BY <1>3, <2>1, <2>2, RegisterDeviceDoes, BeginsClean
<1>4. CASE \E u \in User : AccountSelect(f, u)
  <2>1. PICK u \in User : AccountSelect(f, u)
    BY <1>4
  <2>2. u \in Users /\ Formed
    BY DEF Users, Clean
  <2>3. Formed'
    BY <2>1, <2>2, AccountSelectDoes DEF Formed
  <2>. QED
    BY <2>1, <2>2, <2>3, AccountSelectDoes, BeginsClean
<1>. QED
  BY <1>1, <1>2, <1>3, <1>4
\* What the user types does not touch the handler that is under way.
LEMMA EditsClean ==
    ASSUME Typed, Clean, Edit
    PROVE  Clean'
<1>1. PICK u \in User : TypeEmail(u) \/ SelectDifferentProfile \/ CancelRequest
  BY SigninAssumption DEF Edit
<1>2. /\ form' \in Forms /\ Edits(form')
      /\ \/ /\ form.view = "HOME" /\ form'.view = "HOME"
            /\ ~ form.submitting \/ form'.email = NoUser
            /\ form'.uid = form.uid /\ form'.code = form.code
            /\ form'.submitting = form.submitting
         \/ /\ form.view \in {"WAITING", "REGISTER"} /\ form'.view = "HOME"
            /\ form'.uid = NoUser /\ form'.code = NoUser /\ form'.email = NoUser
  BY <1>1, EditingDoes DEF Typed
<1>3. UNCHANGED <<root, app, sock, token, devices, flow, loads, saving, wizard, leaving>>
  BY <1>2 DEF Edits, serverVars, appVars, sideVars
<1>4. Formed'
  BY <1>2 DEF Clean, Formed
<1>5. /\ OneHandler' /\ Outside' /\ Quieted' /\ Leaves' /\ WizardKeeps' /\ SavingKeeps' /\ Tokened'
  BY <1>3 DEF Clean, OneHandler, Outside, Busy, Quieted, Leaves, WizardKeeps, SavingKeeps,
              Tokened, Known
<1>6. ASSUME NEW f \in Flow, Busy(f)'
      PROVE  FlowOK(flow[f])'
  <2>1. flow'[f] = flow[f] /\ FlowOK(flow[f])
    BY <1>3, <1>6 DEF Clean, FlowsOK, Busy
  <2>. QED
    BY <1>2, <1>3, <2>1 DEF FlowOK, Known, TokenOf
<1>7. FlowsOK'
  BY <1>6 DEF FlowsOK
<1>. QED
  BY <1>4, <1>5, <1>7 DEF Clean

\* A handler that opens a session opens it on its own: nothing of another one is
\* left, and the token is its own.
LEMMA EnterClean ==
    ASSUME Typed, Clean, NEW f \in Flow, Enter(f), ~ crossed'
    PROVE  Clean'
<1>. DEFINE q == flow[f]
<1>1. /\ q.step = "enter" /\ q.user \in User
      /\ app'.session.user = EntersAs(q) /\ app'.keys = q.keys
      /\ root' \in {"CHAT", "ONBOARDING"} /\ form' = NoForm
      /\ flow' = [g \in Flow |-> IF g = f THEN Idle
                                 ELSE IF Busy(g) THEN [flow[g] EXCEPT !.orphan = TRUE]
                                 ELSE Idle]
      /\ saving = NoSave /\ leaving.step = "no" /\ loads = {}
      /\ UNCHANGED <<serverVars, token, saving, wizard, leaving>>
  BY EnterDoes
<1>2. FlowOK(q) /\ root = "AUTH" /\ NoUser \notin User /\ Busy(f)
  BY <1>1, CleanFlow DEF Typed, Busy
<1>3. \A g \in Flow : flow'[g] = Idle
  BY <1>1, <1>2 DEF Clean, OneHandler
<1>4. OneHandler' /\ Outside' /\ FlowsOK'
  BY <1>3 DEF OneHandler, Outside, FlowsOK, Busy, Idle
<1>5. Formed'
  BY <1>1 DEF Formed, NoForm
<1>6. wizard = NoCall
  BY <1>2 DEF Clean, WizardKeeps
<1>7. Quieted' /\ Leaves' /\ WizardKeeps' /\ SavingKeeps'
  BY <1>1, <1>6 DEF Quieted, Leaves, WizardKeeps, SavingKeeps
<1>8. EntersAs(q) = q.user
  <2>1. CASE q.kind = "register"
    BY <1>1, <1>2, <2>1 DEF FlowOK, EntersAs
  <2>2. CASE q.kind # "register"
    BY <2>2 DEF EntersAs
  <2>. QED
    BY <2>1, <2>2
<1>9. Tokened'
  <2>1. token \in {TokenOf(q), NoToken} /\ Known(q.keys, q.dev)
    BY <1>1, <1>2 DEF FlowOK
  <2>2. token' = token /\ devices' = devices
    BY <1>1 DEF serverVars
  <2>3. TokenOf(q).user = q.user /\ TokenOf(q).dev = q.dev
    BY DEF TokenOf
  <2>. QED
    BY <1>1, <1>8, <2>1, <2>2, <2>3 DEF Tokened, Known
<1>. QED
  BY <1>4, <1>5, <1>7, <1>9 DEF Clean

\* Handlers do not mind rows that are added and tokens that are forgotten.
LEMMA GrowsFlows ==
    ASSUME Clean, DevicesGrow, UNCHANGED <<form, flow>>, token' \in {token, NoToken}
    PROVE  OneHandler' /\ Formed' /\ FlowsOK'
<1>1. OneHandler' /\ Formed'
  BY DEF Clean, OneHandler, Busy, Formed
<1>2. ASSUME NEW f \in Flow, Busy(f)'
      PROVE  FlowOK(flow[f])'
  <2>1. flow'[f] = flow[f] /\ FlowOK(flow[f])
    BY <1>2 DEF Clean, FlowsOK, Busy
  <2>2. Known(flow[f].keys, flow[f].dev) => Known(flow[f].keys, flow[f].dev)'
    BY <2>1 DEF Known, DevicesGrow
  <2>3. DOMAIN devices \subseteq DOMAIN devices'
    BY DEF DevicesGrow
  <2>. QED
    BY <2>1, <2>2, <2>3 DEF FlowOK, TokenOf
<1>. QED
  BY <1>1, <1>2 DEF FlowsOK

LEMMA GrowsTokened ==
    ASSUME Tokened, DevicesGrow, token' \in {token, NoToken},
           root' # "AUTH" => root # "AUTH" /\ app'.session.user = app.session.user
                             /\ app'.keys = app.keys
    PROVE  Tokened'
  BY DEF Tokened, Known, DevicesGrow

\* So with a step of others, or of a session on itself.
LEMMA GrowsClean ==
    ASSUME Clean, DevicesGrow, token' \in {token, NoToken},
           UNCHANGED <<root, app, sock, form, flow, loads, saving, wizard, leaving>>
    PROVE  Clean'
<1>1. OneHandler' /\ Formed' /\ FlowsOK' /\ Tokened'
  BY GrowsFlows, GrowsTokened DEF Clean
<1>2. Outside' /\ Quieted' /\ Leaves' /\ WizardKeeps' /\ SavingKeeps'
  BY DEF Clean, Outside, Busy, Quieted, Leaves, WizardKeeps, SavingKeeps
<1>. QED
  BY <1>1, <1>2 DEF Clean

\* And of the workspace, where no handler is.
LEMMA WorksClean ==
    ASSUME Clean, DevicesGrow, token' \in {token, NoToken}, UNCHANGED <<form, flow>>,
           root # "AUTH" \/ loads # {},
           Quieted', Leaves', WizardKeeps', SavingKeeps', Tokened'
    PROVE  Clean'
<1>1. OneHandler' /\ Formed' /\ FlowsOK'
  BY GrowsFlows
<1>2. Outside'
  BY NoneBusy DEF Outside, Busy
<1>. QED
  BY <1>1, <1>2 DEF Clean

LEMMA LoadClean ==
    ASSUME Typed, Clean, Load
    PROVE  Clean'
<1>1. PICK l \in loads : Listed(l) \/ Loaded(l)
  BY DEF Load
<1>2. /\ UNCHANGED <<devices, root, sock, form, flow, saving, wizard, leaving>>
      /\ app'.session = app.session /\ app'.keys = app.keys /\ token' \in {token, NoToken}
  <2>1. CASE Listed(l)
    BY <2>1 DEF Listed, serverVars, appVars
  <2>2. CASE Loaded(l)
    <3>1. /\ UNCHANGED <<serverVars, root, sock, form, flow, saving, wizard, leaving>>
          /\ app'.session = app.session /\ app'.keys = app.keys /\ token' \in {token, NoToken}
      BY <2>2, LoadedDoes
    <3>. QED
      BY <3>1 DEF serverVars
  <2>. QED
    BY <1>1, <2>1, <2>2
<1>3. DevicesGrow
  BY <1>2, SameGrow
<1>4. Tokened'
  BY <1>2, <1>3, GrowsTokened DEF Clean
<1>5. Quieted' /\ Leaves' /\ WizardKeeps' /\ SavingKeeps'
  BY <1>2 DEF Clean, Quieted, Leaves, WizardKeeps, SavingKeeps
<1>. QED
  BY <1>1, <1>2, <1>3, <1>4, <1>5, WorksClean

LEMMA FinishWizardClean ==
    ASSUME Typed, Clean, FinishWizard
    PROVE  Clean'
<1>1. /\ root = "ONBOARDING" /\ wizard' = [app |-> app, token |-> token]
      /\ UNCHANGED <<devices, root, app, sock, form, token, flow, loads, saving, leaving>>
  BY DEF FinishWizard, Wizard, serverVars, appVars
<1>2. DevicesGrow
  BY <1>1, SameGrow
<1>3. Tokened'
  BY <1>1, <1>2, GrowsTokened DEF Clean
<1>4. Quieted' /\ Leaves' /\ SavingKeeps'
  BY <1>1 DEF Clean, Quieted, Leaves, SavingKeeps
<1>5. WizardKeeps'
  BY <1>1 DEF WizardKeeps
<1>. QED
  BY <1>1, <1>2, <1>3, <1>4, <1>5, WorksClean

LEMMA WizardDoneClean ==
    ASSUME Typed, Clean, WizardDone
    PROVE  Clean'
<1>1. /\ wizard # NoCall /\ wizard' = NoCall
      /\ UNCHANGED <<devices, form, flow, saving, leaving>>
      /\ token' \in {token, NoToken} /\ root' \in {"CHAT", "ONBOARDING"}
      /\ app'.session.user = wizard.app.session.user /\ app'.keys = wizard.app.keys
  BY WizardDoneDoes
<1>2. /\ root = "ONBOARDING" /\ wizard.app.session.user = app.session.user
      /\ wizard.app.keys = app.keys
  BY <1>1 DEF Clean, WizardKeeps
<1>3. leaving.step = "no" /\ saving = NoSave
  BY <1>2 DEF Clean, Leaves, SavingKeeps
<1>4. DevicesGrow
  BY <1>1, SameGrow
<1>5. Tokened'
  BY <1>1, <1>2, <1>4, GrowsTokened DEF Clean
<1>6. Quieted' /\ Leaves' /\ WizardKeeps' /\ SavingKeeps'
  BY <1>1, <1>3 DEF Quieted, Leaves, WizardKeeps, SavingKeeps
<1>. QED
  BY <1>1, <1>2, <1>4, <1>5, <1>6, WorksClean

LEMMA SaveProfileClean ==
    ASSUME Typed, Clean, SaveProfile
    PROVE  Clean'
<1>1. /\ root = "CHAT" /\ saving' = [session |-> app.session, token |-> token]
      /\ UNCHANGED <<devices, root, app, sock, form, token, flow, loads, wizard, leaving>>
  BY DEF SaveProfile, Workspace, serverVars, appVars
<1>2. DevicesGrow
  BY <1>1, SameGrow
<1>3. Tokened'
  BY <1>1, <1>2, GrowsTokened DEF Clean
<1>4. Quieted' /\ Leaves' /\ WizardKeeps'
  BY <1>1 DEF Clean, Quieted, Leaves, WizardKeeps
<1>5. SavingKeeps'
  BY <1>1 DEF SavingKeeps
<1>. QED
  BY <1>1, <1>2, <1>3, <1>4, <1>5, WorksClean

\* A profile is saved for the session it was begun in, or after its end, when
\* the next handler may be on its way.
LEMMA ProfileSavedClean ==
    ASSUME Typed, Clean, ProfileSaved
    PROVE  Clean'
<1>1. /\ saving # NoSave /\ saving' = NoSave
      /\ UNCHANGED <<devices, root, sock, form, flow, loads, wizard, leaving>>
      /\ token' \in {token, NoToken}
      /\ \/ UNCHANGED app
         \/ app'.session.user = saving.session.user /\ app'.keys = app.keys
  BY ProfileSavedDoes
<1>2. root # "AUTH" => /\ root \in {"CHAT", "ADMIN"}
                       /\ app'.session.user = app.session.user /\ app'.keys = app.keys
  BY <1>1 DEF Clean, SavingKeeps
<1>3. DevicesGrow
  BY <1>1, SameGrow
<1>4. Tokened'
  BY <1>1, <1>2, <1>3, GrowsTokened DEF Clean
<1>5. OneHandler' /\ Formed' /\ FlowsOK'
  BY <1>1, <1>3, GrowsFlows
<1>6. wizard' = NoCall
  BY <1>1, <1>2 DEF Clean, WizardKeeps
<1>7. Outside' /\ Quieted' /\ Leaves' /\ WizardKeeps' /\ SavingKeeps'
  BY <1>1, <1>6 DEF Clean, Outside, Busy, Quieted, Leaves, WizardKeeps, SavingKeeps
<1>. QED
  BY <1>4, <1>5, <1>7 DEF Clean

LEMMA LeavingClean ==
    ASSUME Typed, Clean, Logout \/ LogoutAnswered \/ LoggedOut
    PROVE  Clean'
<1>1. /\ UNCHANGED <<devices, form, flow, loads, saving, wizard>>
      /\ token' \in {token, NoToken}
  BY DEF Logout, LogoutAnswered, LoggedOut, serverVars
<1>2. DevicesGrow
  BY <1>1, SameGrow
<1>3. CASE Logout
  <2>1. root = "CHAT" /\ UNCHANGED <<root, app, token>> /\ sock' = [sock EXCEPT !.on = FALSE]
    BY <1>3 DEF Logout, Workspace
  <2>2. ~ sock'.on
    BY <2>1 DEF Typed, AppTyped, Socks
  <2>3. Quieted' /\ Leaves' /\ WizardKeeps' /\ SavingKeeps'
    BY <1>1, <2>1, <2>2 DEF Clean, Quieted, Leaves, WizardKeeps, SavingKeeps
  <2>4. Tokened'
    BY <1>1, <1>2, <2>1, GrowsTokened DEF Clean
  <2>. QED
    BY <1>1, <1>2, <2>1, <2>3, <2>4, WorksClean
<1>4. CASE LogoutAnswered
  <2>1. leaving.step = "api" /\ UNCHANGED <<root, app, sock>>
    BY <1>4 DEF LogoutAnswered, appVars
  <2>2. root \in {"CHAT", "ADMIN"} /\ ~ sock.on
    BY <2>1 DEF Clean, Leaves
  <2>3. Quieted' /\ Leaves' /\ WizardKeeps' /\ SavingKeeps'
    BY <1>1, <2>1, <2>2 DEF Clean, Quieted, Leaves, WizardKeeps, SavingKeeps
  <2>4. Tokened'
    BY <1>1, <1>2, <2>1, GrowsTokened DEF Clean
  <2>. QED
    BY <1>1, <1>2, <2>2, <2>3, <2>4, WorksClean
<1>5. CASE LoggedOut
  <2>1. /\ leaving.step = "clear" /\ leaving' = [step |-> "no", token |-> NoToken]
        /\ root' = "AUTH" /\ UNCHANGED sock
    BY <1>5 DEF LoggedOut
  <2>2. root \in {"CHAT", "ADMIN"} /\ ~ sock.on
    BY <2>1 DEF Clean, Leaves
  <2>3. wizard = NoCall
    BY <2>2 DEF Clean, WizardKeeps
  <2>4. Quieted' /\ Leaves' /\ WizardKeeps' /\ SavingKeeps' /\ Tokened'
    BY <1>1, <2>1, <2>2, <2>3 DEF Quieted, Leaves, WizardKeeps, SavingKeeps, Tokened
  <2>. QED
    BY <1>1, <1>2, <2>2, <2>4, WorksClean
<1>. QED
  BY <1>3, <1>4, <1>5

LEMMA ConsoleClean ==
    ASSUME Typed, Rooted, Clean, OpenAdmin \/ AdminBack
    PROVE  Clean'
<1>1. /\ UNCHANGED <<devices, app, sock, form, token, flow, loads, saving, wizard, leaving>>
      /\ root \in {"CHAT", "ADMIN"} /\ root' \in {"CHAT", "ADMIN"}
  BY DEF OpenAdmin, AdminBack, Workspace, Rooted, serverVars, sideVars
<1>2. DevicesGrow
  BY <1>1, SameGrow
<1>3. Tokened'
  BY <1>1, <1>2, GrowsTokened DEF Clean
<1>4. Quieted' /\ Leaves' /\ WizardKeeps' /\ SavingKeeps'
  BY <1>1 DEF Clean, Quieted, Leaves, WizardKeeps, SavingKeeps
<1>. QED
  BY <1>1, <1>2, <1>3, <1>4, WorksClean

LEMMA RevokesClean ==
    ASSUME Typed, Clean, NEW d \in DOMAIN devices, RevokeOwnDevice(d) \/ RevokeElsewhere(d)
    PROVE  Clean'
<1>1. /\ UNCHANGED <<appVars, form, flow, sideVars>> /\ token' \in {token, NoToken}
      /\ Revokes(d) \/ UNCHANGED devices
  BY RevokeOwnDeviceDoes DEF RevokeElsewhere, Revokes
<1>2. DevicesGrow
  BY <1>1, RevokesIs, SameGrow DEF Typed, ServerTyped, DevicesGrow
<1>. QED
  BY <1>1, <1>2, GrowsClean DEF appVars, sideVars

LEMMA OthersClean ==
    ASSUME Typed, Clean, Others
    PROVE  Clean'
<1>1. CASE \E u \in User : Approve(u)
  <2>1. UNCHANGED <<devices, appVars, form, token, flow, sideVars>>
    BY <1>1 DEF Approve
  <2>. QED
    BY <2>1, SameGrow, GrowsClean DEF appVars, sideVars
<1>2. CASE \E u \in User : RegisterElsewhere(u)
  <2>1. PICK u \in User : RegisterElsewhere(u)
    BY <1>2
  <2>. DEFINE x == [owner |-> u, key |-> 0, active |-> TRUE]
  <2>2. /\ UNCHANGED <<appVars, form, token, flow, sideVars>>
        /\ devices' = Append(devices, x)
    BY <2>1 DEF RegisterElsewhere
  <2>3. x \in Devices /\ devices \in Seq(Devices)
    BY DEF Devices, Typed, ServerTyped
  <2>. HIDE DEF x
  <2>4. DevicesGrow
    BY <2>2, <2>3, AppendIs DEF DevicesGrow
  <2>. QED
    BY <2>2, <2>4, GrowsClean DEF appVars, sideVars
<1>3. CASE \E d \in DOMAIN devices : RevokeElsewhere(d)
  BY <1>3, RevokesClean
<1>. QED
  BY <1>1, <1>2, <1>3 DEF Others

LEMMA WorkClean ==
    ASSUME Typed, Rooted, Clean, Work
    PROVE  Clean'
  BY FinishWizardClean, WizardDoneClean, SaveProfileClean, ProfileSavedClean, LeavingClean,
     ConsoleClean, RevokesClean DEF Work

\* The first screen, after a start.
LEMMA StartClean ==
    ASSUME root = "AUTH", form = NoForm, ~ sock.on, \A f \in Flow : flow[f] = Idle,
           loads = {}, saving = NoSave, wizard = NoCall, leaving.step = "no"
    PROVE  Clean /\ Rooted
<1>1. OneHandler /\ Outside /\ FlowsOK
  BY DEF OneHandler, Outside, FlowsOK, Busy, Idle
<1>2. Formed
  BY DEF Formed, NoForm
<1>3. Quieted /\ Leaves /\ WizardKeeps /\ SavingKeeps /\ Tokened /\ Rooted
  BY DEF Quieted, Leaves, WizardKeeps, SavingKeeps, Tokened, Rooted
<1>. QED
  BY <1>1, <1>2, <1>3 DEF Clean
\* What each step leaves alone but for a handler that opens a session.
LEMMA ReturnsInside ==
    ASSUME Typed, NEW f \in Flow, Returns(f), ~ Enter(f)
    PROVE  Inside
  BY AccessAnsweredDoes, AccessFailsDoes, BootstrapAnsweredDoes, ReturningAdminDoes,
     CompleteSetupDoes, ChallengeAnsweredDoes, MatchDeviceDoes, VerifyAnsweredDoes,
     LoginFailsDoes, RegisterAnsweredDoes, SaveAnchorsDoes DEF Returns

\* Handlers that have overlapped are so until the program is started again.
LEMMA CrossedStays ==
    ASSUME Typed, [Next]_vars, ~ Restart, ~ crossed'
    PROVE  ~ crossed
<1>1. CASE Edit
  <2>1. PICK n \in {form'} : Edits(n)
    <3>1. PICK u \in User : TypeEmail(u) \/ SelectDifferentProfile \/ CancelRequest
      BY <1>1, SigninAssumption DEF Edit
    <3>. QED
      BY <3>1, EditingDoes DEF Typed
  <2>. QED
    BY <2>1 DEF Edits, boundVars
<1>2. CASE Request
  BY <1>2 DEF Request, RequestAccess, CheckApproval, RegisterDevice, AccountSelect, Begin
<1>3. CASE Return
  <2>1. PICK f \in Flow : Returns(f)
    BY <1>3 DEF Return
  <2>2. CASE Enter(f)
    BY <2>2, EnterDoes
  <2>3. CASE ~ Enter(f)
    BY <2>1, <2>3, ReturnsInside DEF Inside
  <2>. QED
    BY <2>2, <2>3
<1>4. CASE Load
  BY <1>4 DEF Load, Listed, Loaded, boundVars
<1>5. CASE Work
  BY <1>5 DEF Work, FinishWizard, WizardDone, SaveProfile, ProfileSaved, RevokeOwnDevice,
              Logout, LogoutAnswered, LoggedOut, OpenAdmin, AdminBack, boundVars
<1>6. CASE Others
  BY <1>6 DEF Others, Approve, RegisterElsewhere, RevokeElsewhere, boundVars
<1>7. CASE UNCHANGED vars
  BY <1>7 DEF vars, boundVars
<1>. QED
  BY <1>1, <1>2, <1>3, <1>4, <1>5, <1>6, <1>7, NextIs

LEMMA NextClean ==
    ASSUME Typed, Rooted, Clean, [Next]_vars, ~ Restart, ~ crossed'
    PROVE  Clean'
<1>1. CASE Request
  BY <1>1, RequestsClean DEF Request
<1>2. CASE Return
  <2>1. PICK f \in Flow : Returns(f)
    BY <1>2 DEF Return
  <2>. QED
    BY <2>1, EnterClean, ReturnsClean
<1>3. CASE UNCHANGED vars
  <2>1. UNCHANGED <<devices, root, app, sock, token, form, flow, loads, saving, wizard, leaving>>
    BY <1>3 DEF vars, serverVars, appVars, sideVars
  <2>. QED
    BY <2>1, SameGrow, GrowsClean
<1>. QED
  BY <1>1, <1>2, <1>3, NextIs, EditsClean, LoadClean, WorkClean, OthersClean

LEMMA NextRooted ==
    ASSUME Typed, Rooted, [Next]_vars, ~ Restart
    PROVE  Rooted'
<1>1. CASE UNCHANGED <<root, app>>
  BY <1>1 DEF Rooted
<1>2. CASE Edit
  <2>1. PICK u \in User : TypeEmail(u) \/ SelectDifferentProfile \/ CancelRequest
    BY <1>2, SigninAssumption DEF Edit
  <2>2. Edits(form')
    BY <2>1, EditingDoes DEF Typed
  <2>. QED
    BY <1>1, <2>2 DEF Edits, appVars
<1>3. CASE Request
  BY <1>1, <1>3 DEF Request, RequestAccess, CheckApproval, RegisterDevice, AccountSelect,
                    Begin, appVars
<1>4. CASE Return
  <2>1. PICK f \in Flow : Returns(f)
    BY <1>4 DEF Return
  <2>2. CASE Enter(f)
    <3>1. root' \in {"CHAT", "ONBOARDING"} /\ (root' = "CHAT" => app'.session.named)
      BY <2>2, EnterDoes
    <3>. QED
      BY <3>1 DEF Rooted, NoSession
  <2>3. CASE ~ Enter(f)
    BY <1>1, <2>1, <2>3, ReturnsInside DEF Inside, appVars
  <2>. QED
    BY <2>2, <2>3
<1>5. CASE Load
  <2>1. root' = root /\ app'.session = app.session
    BY <1>5, LoadedDoes DEF Load, Listed, appVars
  <2>. QED
    BY <2>1 DEF Rooted
<1>6. CASE Work
  <2>1. CASE WizardDone
    BY <2>1, WizardDoneDoes DEF Rooted, NoSession
  <2>2. CASE ProfileSaved
    BY <2>2, ProfileSavedDoes DEF Rooted, NoSession
  <2>3. CASE LoggedOut
    BY <2>3 DEF LoggedOut, Rooted
  <2>4. CASE OpenAdmin \/ AdminBack
    BY <2>4 DEF OpenAdmin, AdminBack, Workspace, Rooted
  <2>5. CASE \/ FinishWizard \/ SaveProfile \/ Logout \/ LogoutAnswered
             \/ \E d \in DOMAIN devices : RevokeOwnDevice(d)
    BY <1>1, <2>5 DEF FinishWizard, SaveProfile, Logout, LogoutAnswered, RevokeOwnDevice, appVars
  <2>. QED
    BY <1>6, <2>1, <2>2, <2>3, <2>4, <2>5 DEF Work
<1>7. CASE Others
  BY <1>1, <1>7 DEF Others, Approve, RegisterElsewhere, RevokeElsewhere, appVars
<1>8. CASE UNCHANGED vars
  BY <1>1, <1>8 DEF vars, appVars
<1>. QED
  BY <1>2, <1>3, <1>4, <1>5, <1>6, <1>7, <1>8, NextIs

LEMMA InitInv ==
    ASSUME Init
    PROVE  IInv
<1>1. Clean /\ Rooted
  BY StartClean DEF Init
<1>. QED
  BY <1>1, InitTyped DEF IInv

LEMMA NextInv ==
    ASSUME IInv, [Next]_vars
    PROVE  IInv'
<1>1. Typed'
  BY NextTyped DEF IInv
<1>2. CASE Restart
  <2>1. Clean' /\ Rooted'
    <3>1. /\ root' = "AUTH" /\ form' = NoForm /\ app' = SignedOut
          /\ sock' = [on |-> FALSE, token |-> NoToken]
          /\ flow' = [f \in Flow |-> Idle] /\ loads' = {} /\ saving' = NoSave
          /\ wizard' = NoCall /\ leaving' = [step |-> "no", token |-> NoToken]
      BY <1>2, RestartDoes
    <3>2. OneHandler' /\ Outside' /\ FlowsOK'
      BY <3>1 DEF OneHandler, Outside, FlowsOK, Busy, Idle
    <3>3. Formed'
      BY <3>1 DEF Formed, NoForm
    <3>4. Quieted' /\ Leaves' /\ WizardKeeps' /\ SavingKeeps' /\ Tokened' /\ Rooted'
      BY <3>1 DEF Quieted, Leaves, WizardKeeps, SavingKeeps, Tokened, Rooted
    <3>. QED
      BY <3>2, <3>3, <3>4 DEF Clean
  <2>. QED
    BY <1>1, <2>1 DEF IInv
<1>3. CASE ~ Restart
  BY <1>1, <1>3, NextRooted, NextClean, CrossedStays DEF IInv
<1>. QED
  BY <1>2, <1>3

LEMMA InvImplies ==
    ASSUME IInv
    PROVE  OneIdentity /\ QuietWhenOut
<1>1. OneIdentity
  <2>1. SUFFICES ASSUME SignedIn, ~ crossed, token # NoToken
                 PROVE  /\ token.user = app.session.user
                        /\ token.dev # 0 => devices[token.dev].key = app.keys
    BY DEF OneIdentity
  <2>. QED
    BY <2>1 DEF IInv, Clean, Tokened, SignedIn, Known
<1>2. QuietWhenOut
  BY DEF IInv, Clean, Quieted, QuietWhenOut
<1>. QED
  BY <1>1, <1>2

\* Whoever is signed in while no two handlers have overlapped, the token is his
\* and is for a device registered with the keys in memory: session, token and
\* keys come from one login.
THEOREM SessionIsOne == Spec => []OneIdentity
<1>1. Init => IInv
  BY InitInv
<1>2. IInv /\ [Next]_vars => IInv'
  BY NextInv
<1>3. IInv => OneIdentity
  BY InvImplies
<1>. QED
  BY <1>1, <1>2, <1>3, PTL DEF Spec

\* Nobody stays connected behind the login screen: handleLogout has taken the
\* socket down before it shows it, and nothing but a login puts it up again.
THEOREM OutIsQuiet == Spec => []QuietWhenOut
<1>1. Init => IInv
  BY InitInv
<1>2. IInv /\ [Next]_vars => IInv'
  BY NextInv
<1>3. IInv => QuietWhenOut
  BY InvImplies
<1>. QED
  BY <1>1, <1>2, <1>3, PTL DEF Spec
-----------------------------------------------------------------------------
(***************************************************************************)
(* Why the vault's device id fits its keys where all registrations are     *)
(* made on one machine: it is always the latest of them that is there.     *)
(***************************************************************************)

Latest == Len(devices)

\* What has happened so far: no other machine, no failure, no overlap, and one
\* bootstrap at most.
OneMachine == elsewhere = 0 /\ fails = 0 /\ ~ crossed /\ MaxBoots <= boots + 1

\* A login of u finds the latest device or none; d is the latest or nothing a
\* session of u can revoke will be.
Fresh(u) == ActiveDevices(u) = {} \/ Latest \in ActiveDevices(u)
Spares(d, u) == d = Latest \/ Latest \notin ActiveDevices(u)

VaultOK == vault.device = Latest /\ (Latest # 0 => vault.keys = devices[Latest].key)

Fits(q) ==
    /\ q.kind = "register" => q.keys # 0
    /\ q.step \in {"keys", "device", "otpks"} => q.dev = Latest /\ Latest \in ActiveDevices(q.user)
    /\ q.step = "device" => vault.keys = q.keys
    /\ q.step = "match" => q.list = ActiveDevices(q.user)
    /\ q.step = "verify" => q.dev = Latest /\ Latest \in ActiveDevices(q.user)
    /\ q.step \in {"returning", "setup"} => ActiveDevices(q.user) = {}
    /\ q.step = "enter" => /\ Fresh(q.user)
                           /\ q.list = {Latest} \/ Latest \notin ActiveDevices(q.user)
FlowsFit == \A f \in Flow : Busy(f) => Fits(flow[f])

VaultFits == (\A f \in Flow : flow[f].step \notin {"keys", "device"}) => VaultOK
KeyedRows == \A d \in DOMAIN devices : devices[d].key # 0
LoadsFit == \A l \in loads : /\ l.step = "listed" => l.dev \in {0, Latest}
                             /\ l.step = "asked" => Fresh(l.token.user)
SessionFits ==
    root # "AUTH" => Fresh(token.user) /\ Spares(app.device, app.session.user)
WizardFits == wizard # NoCall => Spares(wizard.app.device, wizard.app.session.user)

\* Until the bootstrap, the administrator has no device and no way in but it.
First == boots = MaxBoots /\ MaxBoots # 0
AdminFlow(q) ==
    /\ q.user = Admin => \/ q.step \in {"access", "boot"} /\ q.kind = "submit"
                         \/ q.step = "post"
    /\ q.kind = "register" => q.code # Admin
AdminRows == (\A d \in DOMAIN devices : devices[d].owner # Admin) /\ Admin \notin saved
AdminForm == form.code = Admin => \E f \in Flow : flow[f].step = "boot"
AdminFlows == \A f \in Flow : Busy(f) => AdminFlow(flow[f])
AdminFirst == First => AdminRows /\ AdminForm /\ AdminFlows

Fitting == /\ FlowsFit /\ VaultFits /\ KeyedRows /\ LoadsFit /\ SessionFits /\ WizardFits
           /\ AdminFirst
BoundInv == IInv /\ (OneMachine => Fitting)

LEMMA LatestIs ==
    ASSUME Typed
    PROVE  /\ Latest \in Nat /\ (Latest # 0 => Latest \in DOMAIN devices)
           /\ \A u : ActiveDevices(u) \subseteq 1 .. Latest
           /\ \A u : u \notin User => ActiveDevices(u) = {}
           /\ \A u : u \notin User => Fresh(u)
<1>1. devices \in Seq(Devices)
  BY DEF Typed, ServerTyped
<1>2. Latest \in Nat /\ (Latest # 0 => Latest \in DOMAIN devices) /\ DOMAIN devices = 1 .. Latest
  BY <1>1 DEF Latest
<1>3. ASSUME NEW u
      PROVE  ActiveDevices(u) \subseteq 1 .. Latest
  <2>1. ActiveDevices(u) \subseteq DOMAIN devices
    BY DEF ActiveDevices
  <2>. QED
    BY <1>2, <2>1
<1>4. \A d \in DOMAIN devices : devices[d].owner \in User
  <2>1. \A d \in DOMAIN devices : devices[d] \in Devices
    BY <1>1
  <2>. QED
    BY <2>1 DEF Devices
<1>5. \A u : u \notin User => ActiveDevices(u) = {}
  BY <1>4 DEF ActiveDevices
<1>. QED
  BY <1>2, <1>3, <1>5 DEF Fresh

\* The same rows, the same answers.
LEMMA SameRows ==
    ASSUME UNCHANGED devices
    PROVE  /\ Latest' = Latest /\ (KeyedRows' <=> KeyedRows)
           /\ \A u : ActiveDevices(u)' = ActiveDevices(u) /\ (Fresh(u)' <=> Fresh(u))
           /\ \A d, u : Spares(d, u)' <=> Spares(d, u)
  BY DEF Latest, KeyedRows, ActiveDevices, Fresh, Spares

\* Nothing of a session is there while a handler is under way, nor afterwards
\* unless it enters.
LEMMA InsideFits ==
    ASSUME Clean, root = "AUTH", loads = {}, Inside
    PROVE  LoadsFit' /\ SessionFits' /\ WizardFits'
<1>1. UNCHANGED <<root, loads, wizard>>
  BY DEF Inside, appVars, sideVars
<1>2. wizard = NoCall
  BY DEF Clean, WizardKeeps
<1>. QED
  BY <1>1, <1>2 DEF LoadsFit, SessionFits, WizardFits

\* Before the bootstrap, the form has the administrator's code only if the
\* handler under way has got to it.
LEMMA CodeIsNot ==
    ASSUME Clean, AdminFirst, First, NEW f \in Flow, flow[f].step # "idle", flow[f].step # "boot"
    PROVE  form.code # Admin
<1>1. \A g \in Flow : flow[g].step = "boot" => Busy(g)
  BY DEF Busy
<1>2. \A g \in Flow : Busy(g) => g = f
  BY DEF Clean, OneHandler, Busy
<1>. QED
  BY <1>1, <1>2 DEF AdminFirst, AdminForm

\* A handler that stops without having touched rows or vault.
LEMMA StopsFit ==
    ASSUME Typed, Clean, Fitting, NEW f \in Flow, flow[f].step \notin {"idle", "keys", "device"},
           Inside, UNCHANGED <<devices, vault, boots>>, Stops(f), First => form'.code # Admin
    PROVE  Fitting'
<1>1. root = "AUTH" /\ loads = {} /\ Busy(f)
  BY CleanFlow DEF Typed, Busy
<1>2. \A g \in Flow : flow'[g] = Idle
  <2>1. \A g \in Flow : g # f => ~ Busy(g)
    BY <1>1 DEF Clean, OneHandler
  <2>2. \A g \in Flow : ~ Busy(g) => flow[g] = Idle
    BY DEF Typed, FlowTyped, Busy, Flows, Steps
  <2>. QED
    BY <2>1, <2>2 DEF Stops, Typed, FlowTyped
<1>3. \A g \in Flow : flow[g].step \notin {"keys", "device"}
  BY <1>1 DEF Clean, OneHandler, Busy
<1>4. VaultFits'
  <2>1. VaultOK
    BY <1>3 DEF Fitting, VaultFits
  <2>. QED
    BY <2>1 DEF VaultFits, VaultOK, Latest
<1>5. FlowsFit'
  BY <1>2 DEF FlowsFit, Busy, Idle
<1>6. KeyedRows'
  BY SameRows DEF Fitting
<1>7. AdminFirst'
  <2>1. SUFFICES ASSUME First'
                 PROVE  AdminRows' /\ AdminForm' /\ AdminFlows'
    BY DEF AdminFirst
  <2>2. First /\ UNCHANGED saved
    BY <2>1 DEF First, Inside
  <2>3. AdminRows' /\ AdminForm'
    BY <2>2 DEF Fitting, AdminFirst, AdminRows, AdminForm
  <2>4. AdminFlows'
    BY <1>2 DEF AdminFlows, Busy, Idle
  <2>. QED
    BY <2>3, <2>4
<1>. QED
  BY <1>1, <1>4, <1>5, <1>6, <1>7, InsideFits DEF Fitting

\* One that goes on: what is left to show of it.
LEMMA MovesFit ==
    ASSUME Typed, Clean, Fitting, NEW f \in Flow, flow[f].step # "idle", Inside,
           NEW s \in Steps, NEW k \in Nat, NEW d \in Nat, NEW L \in SUBSET Nat,
           Moves(f, s, k, d, L), KeyedRows', Fits(flow[f])',
           s \notin {"keys", "device"} => VaultOK',
           First' => First /\ AdminRows' /\ (form'.code = Admin => s = "boot")
                     /\ AdminFlow(flow[f])'
    PROVE  Fitting'
<1>1. root = "AUTH" /\ loads = {} /\ Busy(f) /\ FlowTyped
  BY CleanFlow DEF Typed, Busy
<1>2. flow'[f].step = s /\ \A g \in Flow : g # f => flow'[g] = flow[g]
  BY <1>1, MovedIs DEF Moves, FlowTyped
<1>3. \A g \in Flow : g # f => ~ Busy(g)'
  BY <1>1, <1>2 DEF Clean, OneHandler, Busy
<1>4. FlowsFit'
  BY <1>3 DEF FlowsFit
<1>5. VaultFits'
  BY <1>2 DEF VaultFits
<1>6. AdminFirst'
  <2>1. First' => AdminForm' /\ AdminFlows'
    BY <1>2, <1>3 DEF AdminForm, AdminFlows
  <2>. QED
    BY <2>1 DEF AdminFirst
<1>. QED
  BY <1>1, <1>4, <1>5, <1>6, InsideFits DEF Fitting

\* The vault of a handler that is not writing to it.
LEMMA VaultIsOK ==
    ASSUME Clean, Fitting, NEW f \in Flow, flow[f].step \notin {"idle", "keys", "device"}
    PROVE  VaultOK
<1>1. \A g \in Flow : flow[g].step \notin {"keys", "device"}
  BY DEF Clean, OneHandler, Busy
<1>. QED
  BY <1>1 DEF Fitting, VaultFits
LEMMA AccessAnsweredFits ==
    ASSUME Typed, Clean, Fitting, NEW f \in Flow, AccessAnswered(f)
    PROVE  Fitting'
<1>. DEFINE q == flow[f]
<1>1. /\ q.step = "access" /\ q.user \in User /\ Inside /\ FlowTyped /\ form \in Forms
      /\ UNCHANGED <<devices, live, boots, vault, token, keysMade, fails, broke>>
  BY AccessAnsweredDoes DEF Typed
<1>2. /\ FlowOK(q) /\ ~ q.orphan /\ q.keys \in Nat /\ q.dev \in Nat /\ q.list \in SUBSET Nat
      /\ Busy(f) /\ NoUser \notin User
  BY <1>1, CleanFlow DEF Busy
<1>3. q.kind # "register"
  BY <1>1, <1>2 DEF FlowOK, Registering
<1>4. First => form.code # Admin /\ AdminFlow(q) /\ AdminRows /\ (q.user = Admin => q.kind = "submit")
  BY <1>1, <1>2, CodeIsNot DEF Fitting, AdminFirst, AdminFlows, AdminFlow
<1>5. First' => First /\ AdminRows'
  BY <1>1, <1>4 DEF First, AdminRows, Inside
<1>6. VaultOK' /\ KeyedRows'
  <2>1. VaultOK
    BY <1>1, VaultIsOK
  <2>. QED
    BY <1>1, <2>1, SameRows DEF VaultOK, Latest, Fitting
<1>7. CASE Stops(f) /\ Draws(f, form.view, form.uid, form.code)
  <2>1. First => form'.code # Admin
    BY <1>2, <1>4, <1>7 DEF Draws
  <2>. QED
    BY <1>1, <1>7, <2>1, StopsFit
<1>8. CASE Stops(f) /\ Draws(f, "WAITING", q.user, q.user) /\ status[q.user] # "active"
  <2>1. form'.code # Admin
    BY <1>2, <1>8 DEF Draws, Typed, ServerTyped
  <2>. QED
    BY <1>1, <1>8, <2>1, StopsFit
<1>9. ASSUME NEW s \in {"boot", "challenge"}, Moves(f, s, q.keys, q.dev, q.list),
             s = "boot" => q.kind = "submit",
             First => form'.code # Admin \/ s = "boot",
             s = "challenge" /\ First => q.user # Admin
      PROVE  Fitting'
  <2>1. s \in Steps
    BY DEF Steps
  <2>2. /\ flow'[f].step = s /\ flow'[f].kind = q.kind /\ flow'[f].user = q.user
        /\ flow'[f].code = q.code
    BY <1>1, <1>2, <1>9, <2>1, MovedIs
  <2>3. Fits(flow[f])'
    BY <1>3, <2>2 DEF Fits
  <2>4. First => AdminFlow(flow[f])'
    BY <1>3, <1>9, <2>2 DEF AdminFlow
  <2>. QED
    BY <1>1, <1>2, <1>5, <1>6, <1>9, <2>1, <2>3, <2>4, MovesFit
<1>10. CASE /\ Moves(f, "boot", q.keys, q.dev, q.list) /\ q.kind = "submit"
  BY <1>9, <1>10
<1>11. CASE /\ Moves(f, "challenge", q.keys, q.dev, q.list) /\ q.kind # "submit"
            /\ Draws(f, form.view, form.uid, form.code)
  <2>1. First => form'.code # Admin
    BY <1>2, <1>4, <1>11 DEF Draws
  <2>. QED
    BY <1>4, <1>9, <1>11, <2>1
<1>12. CASE /\ Moves(f, "challenge", q.keys, q.dev, q.list) /\ q.kind # "submit"
            /\ Draws(f, form.view, q.user, q.user)
  <2>1. First => form'.code # Admin
    BY <1>2, <1>4, <1>12 DEF Draws
  <2>. QED
    BY <1>4, <1>9, <1>12, <2>1
<1>. QED
  BY <1>7, <1>8, <1>10, <1>11, <1>12, AccessAnsweredDoes

\* A handler that stops and leaves the form's code as it was.
LEMMA StopsSameFit ==
    ASSUME Typed, Clean, Fitting, NEW f \in Flow,
           flow[f].step \notin {"idle", "keys", "device", "boot"},
           Inside, UNCHANGED <<devices, vault, boots>>, Stops(f), NEW v, NEW u,
           Draws(f, v, u, form.code)
    PROVE  Fitting'
<1>1. ~ flow[f].orphan
  BY CleanFlow DEF Typed
<1>2. First => form'.code # Admin
  BY <1>1, CodeIsNot DEF Fitting, Draws
<1>. QED
  BY <1>2, StopsFit

LEMMA AsksFits ==
    ASSUME Typed, Clean, Fitting, NEW f \in Flow, flow[f].step = "boot", flow[f].user \in User,
           Inside, UNCHANGED <<devices, vault, boots>>, AsksChallenge(f),
           flow[f].user # Admin \/ boots = 0
    PROVE  Fitting'
<1>. DEFINE q == flow[f]
<1>1. FlowTyped /\ form \in Forms
  BY DEF Typed
<1>2. /\ FlowOK(q) /\ ~ q.orphan /\ q.keys \in Nat /\ q.dev \in Nat /\ q.list \in SUBSET Nat
      /\ NoUser \notin User /\ Busy(f)
  BY <1>1, CleanFlow DEF Busy
<1>3. q.kind = "submit" /\ form.code \in {q.user, NoUser}
  BY <1>2 DEF FlowOK
<1>4. First => q.user # Admin /\ AdminRows
  BY DEF First, Fitting, AdminFirst
<1>5. First => form.code # Admin /\ form'.code # Admin
  BY <1>2, <1>3, <1>4, SigninAssumption DEF AsksChallenge, Draws
<1>6. First' => First /\ AdminRows'
  BY <1>4 DEF First, AdminRows, Inside
<1>7. VaultOK' /\ KeyedRows'
  <2>1. VaultOK
    BY VaultIsOK
  <2>. QED
    BY <2>1, SameRows DEF VaultOK, Latest, Fitting
<1>8. CASE Stops(f)
  BY <1>5, <1>8, StopsFit
<1>9. CASE Moves(f, "challenge", q.keys, q.dev, q.list)
  <2>1. /\ flow'[f].step = "challenge" /\ flow'[f].kind = q.kind /\ flow'[f].user = q.user
    BY <1>1, <1>2, <1>9, MovedIs DEF Steps
  <2>2. Fits(flow[f])' /\ (First => AdminFlow(flow[f])')
    BY <1>3, <1>4, <2>1 DEF Fits, AdminFlow
  <2>. QED
    BY <1>2, <1>5, <1>6, <1>7, <1>9, <2>2, MovesFit DEF Steps
<1>. QED
  BY <1>8, <1>9 DEF AsksChallenge

LEMMA BootstrapAnsweredFits ==
    ASSUME Typed, Clean, Fitting, OneMachine, OneMachine', NEW f \in Flow, BootstrapAnswered(f)
    PROVE  Fitting'
<1>. DEFINE q == flow[f]
<1>1. /\ q.step = "boot" /\ q.user \in User /\ Inside /\ FlowTyped /\ form \in Forms
      /\ UNCHANGED <<devices, vault, token>>
  BY BootstrapAnsweredDoes DEF Typed
<1>2. /\ FlowOK(q) /\ ~ q.orphan /\ q.keys \in Nat /\ q.dev \in Nat /\ q.list \in SUBSET Nat
  BY <1>1, CleanFlow
<1>3. fails' # fails + 1
  BY DEF OneMachine
<1>4. CASE (q.user # Admin \/ boots = 0) /\ UNCHANGED boots /\ AsksChallenge(f)
  BY <1>1, <1>4, AsksFits
<1>5. CASE /\ q.user = Admin /\ boots > 0 /\ boots' = boots - 1
           /\ Moves(f, "returning", q.keys, q.dev, q.list)
  <2>1. boots \in Nat /\ boots <= MaxBoots /\ MaxBoots \in Nat
    BY SigninAssumption DEF Typed, ServerTyped
  <2>2. First /\ ~ First'
    BY <1>5, <2>1 DEF First, OneMachine
  <2>3. ActiveDevices(Admin) = {}
    BY <2>2 DEF Fitting, AdminFirst, AdminRows, ActiveDevices
  <2>4. VaultOK' /\ KeyedRows'
    <3>1. VaultOK
      BY <1>1, VaultIsOK
    <3>. QED
      BY <1>1, <3>1, SameRows DEF VaultOK, Latest, Fitting
  <2>5. /\ flow'[f].step = "returning" /\ flow'[f].kind = q.kind /\ flow'[f].user = q.user
    BY <1>1, <1>2, <1>5, MovedIs DEF Steps
  <2>6. Fits(flow[f])'
    <3>1. q.kind = "submit"
      BY <1>1, <1>2 DEF FlowOK
    <3>2. ActiveDevices(Admin)' = {}
      BY <1>1, <2>3, SameRows
    <3>. QED
      BY <1>5, <2>5, <3>1, <3>2 DEF Fits
  <2>. QED
    BY <1>1, <1>2, <1>5, <2>2, <2>4, <2>6, MovesFit DEF Steps
<1>. QED
  BY <1>3, <1>4, <1>5, BootstrapAnsweredDoes

LEMMA ReturningAdminFits ==
    ASSUME Typed, Clean, Fitting, NEW f \in Flow, ReturningAdmin(f)
    PROVE  Fitting'
<1>. DEFINE q == flow[f]
<1>1. /\ q.step = "returning" /\ q.user \in User /\ Inside /\ FlowTyped
      /\ UNCHANGED <<devices, vault, boots>>
      /\ vault.keys \in Nat /\ {vault.device} \in SUBSET Nat
  BY ReturningAdminDoes DEF Typed, DiskTyped, Vaults
<1>2. /\ FlowOK(q) /\ ~ q.orphan /\ q.keys \in Nat /\ q.dev \in Nat /\ q.list \in SUBSET Nat
      /\ Busy(f)
  BY <1>1, CleanFlow DEF Busy
<1>. PICK u \in User : u = q.user
  BY <1>1
<1>3. q.kind = "submit" /\ ActiveDevices(u) = {} /\ ActiveDevices(u)' = {}
  <2>1. Fits(q)
    BY <1>2 DEF Fitting, FlowsFit
  <2>2. q.kind = "submit" /\ ActiveDevices(u) = {}
    BY <1>1, <1>2, <2>1 DEF FlowOK, Fits
  <2>. QED
    BY <1>1, <2>2, SameRows
<1>4. VaultOK' /\ KeyedRows'
  <2>1. VaultOK
    BY <1>1, VaultIsOK
  <2>. QED
    BY <1>1, <2>1, SameRows DEF VaultOK, Latest, Fitting
<1>5. First => form.code # Admin /\ q.user # Admin /\ AdminRows
  BY <1>1, <1>2, CodeIsNot DEF Fitting, AdminFirst, AdminFlows, AdminFlow
<1>6. First' => First /\ AdminRows' /\ form'.code # Admin
  <2>1. form'.code = form.code
    BY <1>2, ReturningAdminDoes DEF Draws
  <2>. QED
    BY <1>1, <1>5, <2>1 DEF First, AdminRows, Inside
<1>7. ASSUME NEW s \in {"enter", "setup"}, NEW k \in Nat, NEW L \in SUBSET Nat,
             Moves(f, s, k, q.dev, L)
      PROVE  Fitting'
  <2>1. s \in Steps
    BY DEF Steps
  <2>2. /\ flow'[f].step = s /\ flow'[f].kind = q.kind /\ flow'[f].user = q.user
        /\ flow'[f].code = q.code
    BY <1>1, <1>2, <1>7, <2>1, MovedIs
  <2>3. Fits(flow[f])'
    BY <1>3, <2>2 DEF Fits, Fresh
  <2>4. First => AdminFlow(flow[f])'
    BY <1>3, <1>5, <2>2 DEF AdminFlow
  <2>. QED
    BY <1>1, <1>2, <1>4, <1>6, <1>7, <2>1, <2>3, <2>4, MovesFit
<1>. QED
  <2>1. \/ Moves(f, "enter", vault.keys, q.dev, {vault.device})
        \/ Moves(f, "setup", q.keys, q.dev, q.list)
    BY ReturningAdminDoes
  <2>. QED
    BY <1>1, <1>2, <1>7, <2>1
LEMMA CompleteSetupFits ==
    ASSUME Typed, Clean, Fitting, OneMachine, OneMachine', NEW f \in Flow, CompleteSetup(f)
    PROVE  Fitting'
<1>. DEFINE q == flow[f]
<1>1. /\ q.step = "setup" /\ q.user \in User /\ Inside /\ FlowTyped
      /\ UNCHANGED <<devices, boots>> /\ Draws(f, form.view, form.uid, form.code)
  BY CompleteSetupDoes DEF Typed
<1>2. /\ FlowOK(q) /\ ~ q.orphan /\ q.keys \in Nat /\ q.dev \in Nat /\ q.list \in SUBSET Nat
      /\ Busy(f)
  BY <1>1, CleanFlow DEF Busy
<1>. PICK u \in User : u = q.user
  BY <1>1
<1>3. q.kind = "submit" /\ ActiveDevices(u) = {} /\ ActiveDevices(u)' = {}
  <2>1. Fits(q)
    BY <1>2 DEF Fitting, FlowsFit
  <2>2. q.kind = "submit" /\ ActiveDevices(u) = {}
    BY <1>1, <1>2, <2>1 DEF FlowOK, Fits
  <2>. QED
    BY <1>1, <2>2, SameRows
<1>4. VaultOK /\ KeyedRows'
  BY <1>1, VaultIsOK, SameRows DEF Fitting
<1>5. First => form.code # Admin /\ u # Admin /\ AdminRows
  BY <1>1, <1>2, CodeIsNot DEF Fitting, AdminFirst, AdminFlows, AdminFlow
<1>6. First' => First /\ AdminRows' /\ form'.code # Admin
  BY <1>1, <1>2, <1>5 DEF First, AdminRows, Inside, Draws
<1>7. CASE Stops(f) /\ UNCHANGED vault
  BY <1>1, <1>7, StopsSameFit
<1>8. CASE /\ keysMade' = keysMade + 1 /\ vault' = [vault EXCEPT !.keys = keysMade']
           /\ Moves(f, "enter", keysMade', q.dev, q.list) /\ vault.keys = 0
  <2>1. keysMade' \in Nat /\ vault \in Vaults
    BY <1>8 DEF Typed, BoundTyped, DiskTyped
  <2>2. vault'.device = vault.device
    BY <1>8, <2>1 DEF Vaults
  <2>3. Latest = 0
    <3>1. SUFFICES ASSUME Latest # 0
                   PROVE  FALSE
      OBVIOUS
    <3>2. Latest \in DOMAIN devices /\ devices[Latest].key = 0
      BY <1>4, <1>8, <3>1, LatestIs DEF VaultOK
    <3>. QED
      BY <3>2 DEF Fitting, KeyedRows
  <2>4. VaultOK'
    BY <1>1, <1>4, <2>2, <2>3, SameRows DEF VaultOK
  <2>5. /\ flow'[f].step = "enter" /\ flow'[f].kind = q.kind /\ flow'[f].user = q.user
    BY <1>1, <1>2, <1>8, <2>1, MovedIs DEF Steps
  <2>6. Fits(flow[f])'
    BY <1>3, <2>5 DEF Fits, Fresh
  <2>7. First => AdminFlow(flow[f])'
    BY <1>3, <1>5, <2>5 DEF AdminFlow
  <2>. QED
    BY <1>1, <1>2, <1>4, <1>6, <1>8, <2>1, <2>4, <2>6, <2>7, MovesFit DEF Steps
<1>. QED
  <2>1. fails' # fails + 1
    BY DEF OneMachine
  <2>. QED
    BY <1>7, <1>8, <2>1, CompleteSetupDoes

LEMMA ChallengeAnsweredFits ==
    ASSUME Typed, Clean, Fitting, NEW f \in Flow, ChallengeAnswered(f)
    PROVE  Fitting'
<1>. DEFINE q == flow[f]
<1>1. /\ q.step = "challenge" /\ q.user \in User /\ Inside /\ FlowTyped
      /\ UNCHANGED <<devices, vault, boots>> /\ Draws(f, form.view, form.uid, form.code)
      /\ Moves(f, "match", q.keys, q.dev, ActiveDevices(q.user))
  BY ChallengeAnsweredDoes DEF Typed
<1>2. /\ FlowOK(q) /\ ~ q.orphan /\ q.keys \in Nat /\ q.dev \in Nat /\ Busy(f)
  BY <1>1, CleanFlow DEF Busy
<1>. PICK u \in User : u = q.user
  BY <1>1
<1>3. q.kind # "register"
  BY <1>1, <1>2 DEF FlowOK, Registering
<1>4. VaultOK' /\ KeyedRows' /\ ActiveDevices(u)' = ActiveDevices(u)
  <2>1. VaultOK
    BY <1>1, VaultIsOK
  <2>. QED
    BY <1>1, <2>1, SameRows DEF VaultOK, Latest, Fitting
<1>5. First => form.code # Admin /\ u # Admin /\ AdminRows
  BY <1>1, <1>2, CodeIsNot DEF Fitting, AdminFirst, AdminFlows, AdminFlow
<1>6. First' => First /\ AdminRows' /\ form'.code # Admin
  BY <1>1, <1>2, <1>5 DEF First, AdminRows, Inside, Draws
<1>7. ActiveDevices(u) \in SUBSET Nat
  BY ActiveAreNumbers DEF Typed, ServerTyped
<1>8. /\ flow'[f].step = "match" /\ flow'[f].kind = q.kind /\ flow'[f].user = u
      /\ flow'[f].list = ActiveDevices(u)
  BY <1>1, <1>2, <1>7, MovedIs DEF Steps
<1>9. Fits(flow[f])'
  BY <1>3, <1>4, <1>8 DEF Fits
<1>10. First => AdminFlow(flow[f])'
  BY <1>3, <1>5, <1>8 DEF AdminFlow
<1>. QED
  BY <1>1, <1>2, <1>4, <1>6, <1>7, <1>9, <1>10, MovesFit DEF Steps

LEMMA MatchDeviceFits ==
    ASSUME Typed, Clean, Fitting, NEW f \in Flow, MatchDevice(f)
    PROVE  Fitting'
<1>. DEFINE q == flow[f]
<1>1. /\ q.step = "match" /\ q.user \in User /\ Inside /\ FlowTyped
      /\ UNCHANGED <<devices, vault, boots>> /\ vault.keys \in Nat /\ vault.device \in Nat
  BY MatchDeviceDoes DEF Typed, DiskTyped, Vaults
<1>2. /\ FlowOK(q) /\ ~ q.orphan /\ q.list \in SUBSET Nat /\ Busy(f)
  BY <1>1, CleanFlow DEF Busy
<1>. PICK u \in User : u = q.user
  BY <1>1
<1>3. q.kind # "register" /\ q.list = ActiveDevices(u)
  <2>1. Fits(q)
    BY <1>2 DEF Fitting, FlowsFit
  <2>. QED
    BY <1>1, <1>2, <2>1 DEF FlowOK, Registering, Fits
<1>4. VaultOK /\ VaultOK' /\ KeyedRows' /\ ActiveDevices(u)' = ActiveDevices(u) /\ Latest' = Latest
  <2>1. VaultOK
    BY <1>1, VaultIsOK
  <2>. QED
    BY <1>1, <2>1, SameRows DEF VaultOK, Latest, Fitting
<1>5. First => form.code # Admin /\ u # Admin /\ AdminRows
  BY <1>1, <1>2, CodeIsNot DEF Fitting, AdminFirst, AdminFlows, AdminFlow
<1>6. CASE Stops(f) /\ Draws(f, "REGISTER", q.user, form.code)
  BY <1>1, <1>6, StopsSameFit
<1>7. CASE /\ vault.device \in q.list /\ Draws(f, form.view, form.uid, form.code)
           /\ Moves(f, "verify", vault.keys, vault.device, q.list)
  <2>1. First' => First /\ AdminRows' /\ form'.code # Admin
    BY <1>1, <1>2, <1>5, <1>7 DEF First, AdminRows, Inside, Draws
  <2>2. /\ flow'[f].step = "verify" /\ flow'[f].kind = q.kind /\ flow'[f].user = u
        /\ flow'[f].dev = vault.device
    BY <1>1, <1>2, <1>7, MovedIs DEF Steps
  <2>3. Fits(flow[f])'
    BY <1>3, <1>4, <1>7, <2>2 DEF Fits, VaultOK
  <2>4. First => AdminFlow(flow[f])'
    BY <1>3, <1>5, <2>2 DEF AdminFlow
  <2>. QED
    BY <1>1, <1>2, <1>4, <1>7, <2>1, <2>3, <2>4, MovesFit DEF Steps
<1>. QED
  BY <1>6, <1>7, MatchDeviceDoes

LEMMA VerifyAnsweredFits ==
    ASSUME Typed, Clean, Fitting, NEW f \in Flow, VerifyAnswered(f)
    PROVE  Fitting'
<1>. DEFINE q == flow[f]
<1>1. /\ q.step = "verify" /\ q.user \in User /\ Inside /\ FlowTyped
      /\ UNCHANGED <<devices, vault, boots>>
  BY VerifyAnsweredDoes DEF Typed
<1>2. /\ FlowOK(q) /\ ~ q.orphan /\ q.keys \in Nat /\ q.dev \in Nat /\ {q.dev} \in SUBSET Nat
      /\ Busy(f)
  BY <1>1, CleanFlow, FlowFields DEF Busy
<1>. PICK u \in User : u = q.user
  BY <1>1
<1>3. q.kind # "register" /\ q.dev = Latest /\ Latest \in ActiveDevices(u)
  <2>1. Fits(q)
    BY <1>2 DEF Fitting, FlowsFit
  <2>. QED
    BY <1>1, <1>2, <2>1 DEF FlowOK, Registering, Fits
<1>4. VaultOK' /\ KeyedRows' /\ ActiveDevices(u)' = ActiveDevices(u) /\ Latest' = Latest
  <2>1. VaultOK
    BY <1>1, VaultIsOK
  <2>. QED
    BY <1>1, <2>1, SameRows DEF VaultOK, Latest, Fitting
<1>5. First => form.code # Admin /\ u # Admin /\ AdminRows
  BY <1>1, <1>2, CodeIsNot DEF Fitting, AdminFirst, AdminFlows, AdminFlow
<1>6. CASE /\ Stops(f)
           /\ \/ Draws(f, "REGISTER", q.user, form.code)
              \/ Draws(f, form.view, form.uid, form.code)
  BY <1>1, <1>6, StopsSameFit
<1>7. CASE /\ Draws(f, form.view, form.uid, form.code)
           /\ Moves(f, "enter", q.keys, q.dev, {q.dev})
  <2>1. First' => First /\ AdminRows' /\ form'.code # Admin
    BY <1>1, <1>2, <1>5, <1>7 DEF First, AdminRows, Inside, Draws
  <2>2. /\ flow'[f].step = "enter" /\ flow'[f].kind = q.kind /\ flow'[f].user = u
        /\ flow'[f].list = {Latest}
    BY <1>1, <1>2, <1>3, <1>7, MovedIs DEF Steps
  <2>3. Fits(flow[f])'
    BY <1>3, <1>4, <2>2 DEF Fits, Fresh
  <2>4. First => AdminFlow(flow[f])'
    BY <1>3, <1>5, <2>2 DEF AdminFlow
  <2>. QED
    BY <1>1, <1>2, <1>4, <1>7, <2>1, <2>3, <2>4, MovesFit DEF Steps
<1>. QED
  BY <1>6, <1>7, VerifyAnsweredDoes

\* A registration's row is the latest from then on.
LEMMA RegisterAnsweredFits ==
    ASSUME Typed, Clean, Fitting, OneMachine, OneMachine', NEW f \in Flow, RegisterAnswered(f)
    PROVE  Fitting'
<1>. DEFINE q == flow[f]
<1>1. q.step = "post" /\ Inside /\ FlowTyped /\ UNCHANGED <<status, boots, vault, named>>
  BY RegisterAnsweredDoes DEF Typed, Inside
<1>2. /\ FlowOK(q) /\ ~ q.orphan /\ q.keys \in Nat /\ q.dev \in Nat
      /\ q.list \in SUBSET Nat /\ q \in Flows /\ Busy(f)
  BY <1>1, CleanFlow DEF Busy
<1>3. q.kind = "register" /\ q.keys # 0
  <2>1. Fits(q)
    BY <1>2 DEF Fitting, FlowsFit
  <2>. QED
    BY <1>1, <1>2, <2>1 DEF FlowOK, Registering, Fits
<1>4. First => form.code # Admin /\ q.code # Admin /\ AdminRows
  BY <1>1, <1>2, <1>3, CodeIsNot DEF Fitting, AdminFirst, AdminFlows, AdminFlow
<1>5. CASE Stops(f) /\ Draws(f, "REGISTER", form.uid, form.code) /\ UNCHANGED devices
  BY <1>1, <1>5, StopsSameFit
<1>6. CASE /\ q.user \in User /\ q.code = q.user /\ Registered(q)
           /\ Draws(f, form.view, form.uid, form.code)
           /\ Moves(f, "keys", q.keys, Len(devices'), q.list)
  <2>1. /\ Len(devices') \in Nat /\ Len(devices') \in DOMAIN devices'
        /\ devices'[Len(devices')].owner = q.user /\ devices'[Len(devices')].key = q.keys
        /\ devices'[Len(devices')].active
        /\ \A d \in DOMAIN devices : devices'[d] = devices[d]
    BY <1>1, <1>2, <1>6, RegisteredTyped DEF Typed
  <2>2. DOMAIN devices' = DOMAIN devices \cup {Len(devices')}
    <3>1. [owner |-> q.user, key |-> q.keys, active |-> TRUE] \in Devices
      BY <1>2, <1>6 DEF Devices
    <3>2. devices' = Append(devices, [owner |-> q.user, key |-> q.keys, active |-> TRUE])
      BY <1>6 DEF Registered
    <3>. HIDE DEF q
    <3>. QED
      BY <3>1, <3>2, AppendIs DEF Typed, ServerTyped
  <2>3. KeyedRows'
    BY <1>3, <2>1, <2>2 DEF Fitting, KeyedRows
  <2>4. /\ flow'[f].step = "keys" /\ flow'[f].kind = q.kind /\ flow'[f].user = q.user
        /\ flow'[f].dev = Len(devices') /\ flow'[f].code = q.code /\ flow'[f].keys = q.keys
    BY <1>1, <1>2, <1>6, <2>1, MovedIs DEF Steps
  <2>5. Fits(flow[f])'
    BY <1>3, <2>1, <2>4 DEF Fits, Latest, ActiveDevices
  <2>6. First' => First /\ AdminRows' /\ form'.code # Admin
    <3>1. First' => First
      BY <1>1 DEF First
    <3>2. First => AdminRows'
      BY <1>1, <1>4, <1>6, <2>1, <2>2 DEF AdminRows, Inside
    <3>3. First => form'.code # Admin
      BY <1>2, <1>4, <1>6 DEF Draws
    <3>. QED
      BY <3>1, <3>2, <3>3
  <2>7. First => AdminFlow(flow[f])'
    BY <1>4, <1>6, <2>4 DEF AdminFlow
  <2>. QED
    BY <1>1, <1>2, <1>6, <2>1, <2>3, <2>5, <2>6, <2>7, MovesFit DEF Steps
<1>. QED
  <2>1. fails' # fails + 1
    BY DEF OneMachine
  <2>. QED
    BY <1>5, <1>6, <2>1, RegisterAnsweredDoes
\* The three writes, one after the other.
LEMMA SaveAnchorsFits ==
    ASSUME Typed, Clean, Fitting, OneMachine, OneMachine', NEW f \in Flow, SaveAnchors(f)
    PROVE  Fitting'
<1>. DEFINE q == flow[f]
<1>1. /\ q.step \in {"keys", "device", "otpks"} /\ q.user \in User /\ Inside /\ FlowTyped
      /\ UNCHANGED <<devices, boots>> /\ q.step # "idle"
  BY SaveAnchorsDoes DEF Typed
<1>2. /\ FlowOK(q) /\ ~ q.orphan /\ q.keys \in Nat /\ q.dev \in Nat /\ {q.dev} \in SUBSET Nat
      /\ Busy(f) /\ vault \in Vaults
  BY <1>1, CleanFlow, FlowFields DEF Busy, Typed, DiskTyped
<1>. PICK u \in User : u = q.user
  BY <1>1
<1>3. /\ q.kind = "register" /\ q.keys # 0 /\ q.dev = Latest /\ Latest \in ActiveDevices(u)
      /\ q.code = u /\ (q.step = "device" => vault.keys = q.keys)
      /\ (Latest # 0 => devices[Latest].key = q.keys)
  <2>1. Fits(q)
    BY <1>2 DEF Fitting, FlowsFit
  <2>2. q.kind = "register" /\ q.user = q.code /\ Known(q.keys, q.dev)
    BY <1>1, <1>2 DEF FlowOK, Registering
  <2>3. q.dev = Latest /\ Latest \in ActiveDevices(u)
    BY <1>1, <2>1 DEF Fits
  <2>4. Latest # 0 => devices[Latest].key = q.keys
    BY <2>2, <2>3 DEF Known
  <2>. QED
    BY <2>1, <2>2, <2>3, <2>4 DEF Fits
<1>4. KeyedRows' /\ ActiveDevices(u)' = ActiveDevices(u) /\ Latest' = Latest
  BY <1>1, SameRows DEF Fitting
<1>5. First => form.code # Admin /\ u # Admin /\ AdminRows
  BY <1>1, <1>2, <1>3, CodeIsNot DEF Fitting, AdminFirst, AdminFlows, AdminFlow
<1>6. ASSUME NEW s \in {"device", "otpks", "enter"},
             Draws(f, form.view, form.uid, form.code),
             Moves(f, s, q.keys, q.dev, {q.dev}),
             s = "device" => vault'.keys = q.keys, s # "device" => VaultOK'
      PROVE  Fitting'
  <2>1. First' => First /\ AdminRows' /\ form'.code # Admin
    BY <1>1, <1>2, <1>5, <1>6 DEF First, AdminRows, Inside, Draws
  <2>2. s \in Steps
    BY DEF Steps
  <2>3. /\ flow'[f].step = s /\ flow'[f].kind = q.kind /\ flow'[f].user = u
        /\ flow'[f].list = {Latest} /\ flow'[f].keys = q.keys /\ flow'[f].dev = Latest
        /\ flow'[f].code = u
    BY <1>1, <1>2, <1>3, <1>6, <2>2, MovedIs
  <2>4. Fits(flow[f])'
    BY <1>3, <1>4, <1>6, <2>3 DEF Fits, Fresh
  <2>5. First => AdminFlow(flow[f])'
    BY <1>3, <1>5, <2>3 DEF AdminFlow
  <2>6. s \notin {"keys", "device"} => VaultOK'
    BY <1>6
  <2>. QED
    BY <1>1, <1>2, <1>4, <1>6, <2>1, <2>2, <2>4, <2>5, <2>6, MovesFit
<1>7. CASE /\ q.step = "keys" /\ vault' = [vault EXCEPT !.keys = q.keys]
           /\ Draws(f, form.view, form.uid, form.code)
           /\ Moves(f, "device", q.keys, q.dev, {q.dev})
  <2>1. vault'.keys = q.keys
    BY <1>2, <1>7 DEF Vaults
  <2>. QED
    BY <1>6, <1>7, <2>1
<1>8. CASE /\ q.step = "device" /\ vault' = [vault EXCEPT !.device = q.dev]
           /\ Draws(f, form.view, form.uid, form.code)
           /\ Moves(f, "otpks", q.keys, q.dev, {q.dev})
  <2>1. vault'.device = q.dev /\ vault'.keys = vault.keys
    BY <1>2, <1>8 DEF Vaults
  <2>2. VaultOK'
    BY <1>1, <1>3, <1>4, <1>8, <2>1 DEF VaultOK
  <2>. QED
    BY <1>6, <1>8, <2>2
<1>9. CASE /\ q.step = "otpks" /\ UNCHANGED vault
           /\ Draws(f, form.view, form.uid, form.code)
           /\ Moves(f, "enter", q.keys, q.dev, {q.dev})
  <2>1. VaultOK
    BY <1>9, VaultIsOK
  <2>2. VaultOK'
    BY <1>1, <1>4, <1>9, <2>1 DEF VaultOK
  <2>. QED
    BY <1>6, <1>9, <2>2
<1>. QED
  <2>1. fails' # fails + 1
    BY DEF OneMachine
  <2>. QED
    BY <1>7, <1>8, <1>9, <2>1, SaveAnchorsDoes

LEMMA ReturnsFit ==
    ASSUME Typed, Clean, Fitting, OneMachine, OneMachine', NEW f \in Flow, Returns(f), ~ Enter(f)
    PROVE  Fitting'
<1>1. fails' # fails + 1
  BY DEF OneMachine
<1>2. CASE AccessFails(f)
  BY <1>1, <1>2, AccessFailsDoes, StopsSameFit
<1>3. ~ LoginFails(f)
  BY <1>1, LoginFailsDoes
<1>. QED
  BY <1>2, <1>3, AccessAnsweredFits, BootstrapAnsweredFits, ReturningAdminFits,
     CompleteSetupFits, ChallengeAnsweredFits, MatchDeviceFits, VerifyAnsweredFits,
     RegisterAnsweredFits, SaveAnchorsFits DEF Returns

\* Without a handler under way, the vault is as the last one left it and the form
\* has not got to the administrator before his bootstrap.
LEMMA IdleIs ==
    ASSUME Fitting, \A g \in Flow : ~ Busy(g)
    PROVE  VaultOK /\ (First => form.code # Admin)
  BY DEF Fitting, VaultFits, AdminFirst, AdminForm, Busy

\* A handler that begins.
LEMMA BeginsFit ==
    ASSUME Typed, Clean, Fitting, NEW f \in Flow,
           NEW kind \in {"submit", "select", "check", "register"},
           NEW s \in {"access", "post"}, NEW u \in Users, NEW key \in Nat,
           Begins(f, kind, s, u, key), ~ crossed',
           kind = "register" <=> s = "post",
           kind = "register" => key # 0,
           First /\ u = Admin => kind \in {"submit", "register"},
           form'.code = form.code
    PROVE  Fitting'
<1>. DEFINE n == New(kind, s, u, key)
<1>1. /\ root = "AUTH" /\ loads = {} /\ \A g \in Flow : ~ Busy(g)
      /\ flow' = [flow EXCEPT ![f] = n]
      /\ UNCHANGED <<devices, boots, vault, saved, root, loads, wizard>>
  BY DEF Begins, serverVars, diskVars, appVars, sideVars
<1>2. flow'[f] = n /\ \A g \in Flow : g # f => flow'[g] = flow[g]
  BY <1>1 DEF Typed, FlowTyped
<1>3. /\ n.step = s /\ n.kind = kind /\ n.user = u /\ n.code = form.code /\ n.keys = key
  BY DEF New
<1>. HIDE DEF n
<1>4. \A g \in Flow : g # f => ~ Busy(g)'
  BY <1>1, <1>2 DEF Busy
<1>5. FlowsFit'
  BY <1>2, <1>3, <1>4 DEF FlowsFit, Fits
<1>6. VaultFits' /\ KeyedRows'
  <2>1. VaultOK
    BY <1>1, IdleIs
  <2>. QED
    BY <1>1, <2>1, SameRows DEF VaultFits, VaultOK, Latest, Fitting
<1>7. wizard = NoCall
  BY <1>1 DEF Clean, WizardKeeps
<1>8. LoadsFit' /\ SessionFits' /\ WizardFits'
  BY <1>1, <1>7 DEF LoadsFit, SessionFits, WizardFits
<1>9. AdminFirst'
  <2>1. SUFFICES ASSUME First'
                 PROVE  AdminRows' /\ AdminForm' /\ AdminFlows'
    BY DEF AdminFirst
  <2>2. First /\ form.code # Admin
    BY <1>1, <2>1, IdleIs DEF First
  <2>3. AdminRows'
    BY <1>1, <2>2 DEF Fitting, AdminFirst, AdminRows
  <2>4. AdminForm'
    BY <2>2 DEF AdminForm
  <2>5. AdminFlows'
    BY <1>2, <1>3, <1>4, <2>2 DEF AdminFlows, AdminFlow
  <2>. QED
    BY <2>3, <2>4, <2>5
<1>. QED
  BY <1>5, <1>6, <1>8, <1>9 DEF Fitting

LEMMA RequestsFit ==
    ASSUME Typed, Clean, Fitting, NEW f \in Flow, ~ crossed',
           \/ RequestAccess(f) \/ CheckApproval(f) \/ RegisterDevice(f)
           \/ \E u \in User : AccountSelect(f, u)
    PROVE  Fitting'
<1>1. form.email \in Users /\ form \in Forms /\ Formed
  BY DEF Typed, Forms, Clean
<1>2. CASE RequestAccess(f)
  BY <1>1, <1>2, RequestAccessDoes, BeginsFit
<1>3. CASE CheckApproval(f)
  <2>1. First => form.email # Admin
    <3>1. First => form.code # Admin
      BY <1>3, CheckApprovalDoes, IdleIs DEF Begins
    <3>2. form.email \in {form.code, NoUser}
      BY <1>1, <1>3, CheckApprovalDoes DEF Formed
    <3>. QED
      BY <3>1, <3>2, SigninAssumption
  <2>. QED
    BY <1>1, <1>3, <2>1, CheckApprovalDoes, BeginsFit
<1>4. CASE RegisterDevice(f)
  <2>1. keysMade' \in Nat /\ keysMade' # 0
    BY <1>4, RegisterDeviceDoes DEF Typed, BoundTyped
  <2>. QED
    BY <1>1, <1>4, <2>1, RegisterDeviceDoes, BeginsFit
<1>5. CASE \E u \in User : AccountSelect(f, u)
  <2>1. PICK u \in User : AccountSelect(f, u)
    BY <1>5
  <2>2. u \in Users /\ u \in saved
    BY <2>1, AccountSelectDoes DEF Users
  <2>3. First => u # Admin
    BY <2>2 DEF Fitting, AdminFirst, AdminRows
  <2>. QED
    BY <2>1, <2>2, <2>3, AccountSelectDoes, BeginsFit
<1>. QED
  BY <1>2, <1>3, <1>4, <1>5
\* Steps that leave rows, vault, accounts, handlers and the form alone.
LEMMA HandlersFit ==
    ASSUME Fitting, UNCHANGED <<devices, boots, vault, saved, flow>>,
           form'.code \in {form.code, NoUser}
    PROVE  FlowsFit' /\ VaultFits' /\ KeyedRows' /\ AdminFirst'
<1>1. FlowsFit'
  <2>1. ASSUME NEW f \in Flow, Busy(f)'
        PROVE  Fits(flow[f])'
    <3>1. Fits(flow[f])
      BY <2>1 DEF Fitting, FlowsFit, Busy
    <3>. QED
      BY <3>1 DEF Fits, Fresh, Latest, ActiveDevices
  <2>. QED
    BY <2>1 DEF FlowsFit
<1>2. VaultFits' /\ KeyedRows'
  BY SameRows DEF Fitting, VaultFits, VaultOK, Latest
<1>3. AdminFirst'
  <2>1. Admin # NoUser
    BY SigninAssumption
  <2>. QED
    BY <2>1 DEF Fitting, AdminFirst, First, AdminRows, AdminForm, AdminFlows, AdminFlow, Busy
<1>. QED
  BY <1>1, <1>2, <1>3

LEMMA EditsFit ==
    ASSUME Typed, Fitting, Edit
    PROVE  Fitting'
<1>1. PICK u \in User : TypeEmail(u) \/ SelectDifferentProfile \/ CancelRequest
  BY SigninAssumption DEF Edit
<1>2. Edits(form') /\ form'.code \in {form.code, NoUser}
  BY <1>1, EditingDoes DEF Typed
<1>3. UNCHANGED <<devices, boots, vault, saved, flow, root, app, token, loads, wizard>>
  BY <1>2 DEF Edits, serverVars, diskVars, appVars, sideVars
<1>4. FlowsFit' /\ VaultFits' /\ KeyedRows' /\ AdminFirst'
  BY <1>2, <1>3, HandlersFit
<1>5. LoadsFit' /\ SessionFits' /\ WizardFits'
  BY <1>3 DEF Fitting, LoadsFit, SessionFits, WizardFits, Fresh, Spares, Latest, ActiveDevices
<1>. QED
  BY <1>4, <1>5 DEF Fitting

\* The device a session is opened with is the latest, or the user has none that is.
LEMMA EnterFits ==
    ASSUME Typed, Clean, Fitting, NEW f \in Flow, Enter(f), ~ crossed'
    PROVE  Fitting'
<1>. DEFINE q == flow[f]
<1>1. /\ q.step = "enter" /\ q.user \in User
      /\ app'.session.user = EntersAs(q) /\ app'.device = EntersWith(q)
      /\ saved' \subseteq saved \cup ({q.user, EntersAs(q)} \ {NoUser})
      /\ form' = NoForm
      /\ flow' = [g \in Flow |-> IF g = f THEN Idle
                                 ELSE IF Busy(g) THEN [flow[g] EXCEPT !.orphan = TRUE]
                                 ELSE Idle]
      /\ loads' = loads \cup {[token |-> token, dev |-> 0, step |-> "asked"]}
      /\ UNCHANGED <<serverVars, vault, token, wizard>>
  BY EnterDoes
<1>2. UNCHANGED <<devices, boots, vault, token, wizard>>
  BY <1>1 DEF serverVars
<1>3. /\ FlowOK(q) /\ root = "AUTH" /\ NoUser \notin User /\ Busy(f) /\ loads = {} /\ FlowTyped
  BY <1>1, CleanFlow DEF Typed, Busy
<1>4. \A g \in Flow : flow'[g] = Idle
  BY <1>1, <1>3 DEF Clean, OneHandler
<1>. PICK u \in User : u = q.user
  BY <1>1
<1>5. EntersAs(q) = u /\ token \in {TokenOf(q), NoToken}
  <2>1. CASE q.kind = "register"
    BY <1>1, <1>3, <2>1 DEF FlowOK, EntersAs
  <2>2. CASE q.kind # "register"
    BY <1>1, <1>3, <2>2 DEF FlowOK, EntersAs
  <2>. QED
    BY <2>1, <2>2
<1>6. Fresh(u) /\ Spares(EntersWith(q), u)
  <2>1. Fits(q)
    BY <1>3 DEF Fitting, FlowsFit
  <2>2. Fresh(u) /\ (q.list = {Latest} \/ Latest \notin ActiveDevices(u))
    BY <1>1, <2>1 DEF Fits
  <2>3. q.list = {Latest} => EntersWith(q) = Latest
    BY DEF EntersWith
  <2>. QED
    BY <2>2, <2>3 DEF Spares
<1>7. Fresh(token.user)
  <2>1. Fresh(NoUser)
    BY <1>3, LatestIs
  <2>2. TokenOf(q).user = u /\ NoToken.user = NoUser
    BY DEF TokenOf, NoToken
  <2>. QED
    BY <1>5, <1>6, <2>1, <2>2
<1>8. FlowsFit' /\ AdminFlows'
  BY <1>4 DEF FlowsFit, AdminFlows, Busy, Idle
<1>9. VaultFits' /\ KeyedRows'
  <2>1. VaultOK
    BY <1>1, VaultIsOK
  <2>. QED
    BY <1>2, <2>1, SameRows DEF VaultFits, VaultOK, Latest, Fitting
<1>10. LoadsFit'
  <2>1. \A l \in loads' : l.step = "asked" /\ l.token = token
    BY <1>1, <1>3
  <2>2. Fresh(token.user)'
    BY <1>2, <1>7 DEF Fresh, Latest, ActiveDevices
  <2>. QED
    BY <1>2, <2>1, <2>2 DEF LoadsFit
<1>11. SessionFits'
  <2>1. Fresh(token.user)'
    BY <1>2, <1>7 DEF Fresh, Latest, ActiveDevices
  <2>2. app'.device = Latest \/ Latest \notin ActiveDevices(app'.session.user)
    BY <1>1, <1>5, <1>6 DEF Spares
  <2>3. Spares(app.device, app.session.user)'
    BY <1>2, <2>2 DEF Spares, Latest, ActiveDevices
  <2>. QED
    BY <2>1, <2>3 DEF SessionFits
<1>12. WizardFits'
  <2>1. wizard = NoCall
    BY <1>3 DEF Clean, WizardKeeps
  <2>. QED
    BY <1>2, <2>1 DEF WizardFits
<1>13. AdminFirst'
  <2>1. SUFFICES ASSUME First'
                 PROVE  AdminRows' /\ AdminForm' /\ AdminFlows'
    BY DEF AdminFirst
  <2>2. First
    BY <1>2, <2>1 DEF First
  <2>3. AdminRows /\ u # Admin
    BY <1>1, <1>3, <2>2 DEF Fitting, AdminFirst, AdminFlows, AdminFlow
  <2>4. AdminRows'
    BY <1>1, <1>2, <1>5, <2>3 DEF AdminRows
  <2>5. AdminForm'
    BY <1>1, SigninAssumption DEF AdminForm, NoForm
  <2>. QED
    BY <1>8, <2>4, <2>5
<1>. QED
  BY <1>8, <1>9, <1>10, <1>11, <1>12, <1>13 DEF Fitting

\* Whom the token names has a latest device, or none; so has nobody.
LEMMA ForgottenFits ==
    ASSUME Typed, Fresh(token.user), UNCHANGED devices, token' \in {token, NoToken}
    PROVE  Fresh(token.user)'
<1>1. Fresh(NoUser)
  BY LatestIs, SigninAssumption
<1>2. Fresh(token'.user)
  BY <1>1 DEF NoToken
<1>. QED
  BY <1>2 DEF Fresh, Latest, ActiveDevices

LEMMA LoadFits ==
    ASSUME Typed, Clean, Fitting, OneMachine, OneMachine', Load
    PROVE  Fitting'
<1>1. PICK l \in loads : Listed(l) \/ Loaded(l)
  BY DEF Load
<1>2. \A f \in Flow : ~ Busy(f)
  BY NoneBusy
<1>3. CASE Listed(l)
  <2>1. /\ l.step = "asked"
        /\ UNCHANGED <<serverVars, diskVars, appVars, form, token, flow, wizard>>
    BY <1>3, ListedDoes
  <2>2. UNCHANGED <<devices, boots, vault, saved, root, app, token, wizard, flow, form>>
    BY <2>1 DEF serverVars, diskVars, appVars
  <2>3. FlowsFit' /\ VaultFits' /\ KeyedRows' /\ AdminFirst'
    BY <2>2, HandlersFit
  <2>4. SessionFits' /\ WizardFits'
    BY <2>2 DEF Fitting, SessionFits, WizardFits, Fresh, Spares, Latest, ActiveDevices
  <2>5. PICK m \in Loads :
            /\ loads' = (loads \ {l}) \cup {m} /\ m.token = l.token
            /\ \/ m.step = "listed" /\ m.dev = Newest(l.token.user)
               \/ m.step = "refused"
    BY <1>3, ListedDoes
  <2>6. Newest(l.token.user) \in {0, Latest}
    <3>1. Fresh(l.token.user)
      BY <2>1 DEF Fitting, LoadsFit
    <3>2. CASE ActiveDevices(l.token.user) = {}
      BY <3>2, NewestIs DEF Typed, ServerTyped
    <3>3. CASE Latest \in ActiveDevices(l.token.user)
      <4>1. /\ Newest(l.token.user) \in ActiveDevices(l.token.user)
            /\ Latest <= Newest(l.token.user)
        BY <3>3, NewestIs DEF Typed, ServerTyped
      <4>2. Newest(l.token.user) \in 1 .. Latest /\ Latest \in Nat
        BY <4>1, LatestIs
      <4>. QED
        BY <4>1, <4>2
    <3>. QED
      BY <3>1, <3>2, <3>3 DEF Fresh
  <2>7. LoadsFit'
    <3>1. ASSUME NEW k \in loads'
          PROVE  /\ k.step = "listed" => k.dev \in {0, Latest}
                 /\ k.step = "asked" => Fresh(k.token.user)
      BY <2>5, <2>6 DEF Fitting, LoadsFit
    <3>. QED
      BY <2>2, <3>1 DEF LoadsFit, Fresh, Latest, ActiveDevices
  <2>. QED
    BY <2>3, <2>4, <2>7 DEF Fitting
<1>4. CASE Loaded(l)
  <2>1. /\ loads' = loads \ {l} /\ UNCHANGED <<serverVars, saved, root, form, flow, wizard>>
        /\ token' \in {token, NoToken} /\ app'.session = app.session
        /\ \/ /\ l.step = "listed" /\ l.dev # 0 /\ app'.device = l.dev
              /\ vault'.device = l.dev /\ vault'.keys = vault.keys
           \/ UNCHANGED <<app, vault>>
    <3>1. fails' # fails + 1
      BY DEF OneMachine
    <3>. QED
      BY <1>4, <3>1, LoadedDoes
  <2>2. UNCHANGED <<devices, boots, saved, root, form, flow, wizard>>
    BY <2>1 DEF serverVars
  <2>3. app'.device \in {app.device, Latest} /\ vault'.device \in {vault.device, Latest}
        /\ vault'.keys = vault.keys
    BY <2>1 DEF Fitting, LoadsFit
  <2>4. FlowsFit'
    BY <1>2, <2>2 DEF FlowsFit, Busy
  <2>5. VaultFits' /\ KeyedRows'
    <3>1. VaultOK
      BY <1>2, IdleIs
    <3>. QED
      BY <2>2, <2>3, <3>1, SameRows DEF VaultFits, VaultOK, Latest, Fitting
  <2>6. LoadsFit'
    BY <2>1, <2>2 DEF Fitting, LoadsFit, Fresh, Latest, ActiveDevices
  <2>7. SessionFits'
    <3>1. SUFFICES ASSUME root' # "AUTH"
                   PROVE  Fresh(token.user)' /\ Spares(app.device, app.session.user)'
      BY DEF SessionFits
    <3>2. Fresh(token.user) /\ Spares(app.device, app.session.user)
      BY <2>2, <3>1 DEF Fitting, SessionFits
    <3>3. Fresh(token.user)'
      BY <2>1, <2>2, <3>2, ForgottenFits
    <3>4. Spares(app.device, app.session.user)'
      BY <2>1, <2>2, <2>3, <3>2 DEF Spares, Latest, ActiveDevices
    <3>. QED
      BY <3>3, <3>4
  <2>8. WizardFits'
    BY <2>2 DEF Fitting, WizardFits, Spares, Latest, ActiveDevices
  <2>9. AdminFirst'
    BY <2>2 DEF Fitting, AdminFirst, First, AdminRows, AdminForm, AdminFlows, AdminFlow, Busy
  <2>. QED
    BY <2>4, <2>5, <2>6, <2>7, <2>8, <2>9 DEF Fitting
<1>. QED
  BY <1>1, <1>3, <1>4
\* A step in the workspace that leaves rows and vault alone and opens nothing.
LEMMA WorksFit ==
    ASSUME Typed, Fitting, UNCHANGED <<devices, boots, vault, saved, form, flow>>,
           token' \in {token, NoToken}, loads' = loads,
           root' # "AUTH" => /\ root # "AUTH" /\ app'.device = app.device
                             /\ app'.session.user = app.session.user,
           WizardFits'
    PROVE  Fitting'
<1>1. FlowsFit' /\ VaultFits' /\ KeyedRows' /\ AdminFirst'
  BY HandlersFit
<1>2. LoadsFit'
  BY DEF Fitting, LoadsFit, Fresh, Latest, ActiveDevices
<1>3. SessionFits'
  <2>1. SUFFICES ASSUME root' # "AUTH"
                 PROVE  Fresh(token.user)' /\ Spares(app.device, app.session.user)'
    BY DEF SessionFits
  <2>2. Fresh(token.user) /\ Spares(app.device, app.session.user)
    BY <2>1 DEF Fitting, SessionFits
  <2>3. Fresh(token.user)'
    BY <2>2, ForgottenFits
  <2>4. Spares(app.device, app.session.user)'
    BY <2>1, <2>2 DEF Spares, Latest, ActiveDevices
  <2>. QED
    BY <2>3, <2>4
<1>. QED
  BY <1>1, <1>2, <1>3 DEF Fitting

LEMMA SameWizard ==
    ASSUME Fitting, UNCHANGED <<devices, wizard>>
    PROVE  WizardFits'
  BY DEF Fitting, WizardFits, Spares, Latest, ActiveDevices

LEMMA WizardDoneFits ==
    ASSUME Typed, Clean, Fitting, WizardDone
    PROVE  Fitting'
<1>1. /\ wizard # NoCall /\ wizard' = NoCall
      /\ UNCHANGED <<devices, boots, diskVars, form, flow>>
      /\ token' \in {token, NoToken}
      /\ app'.session.user = wizard.app.session.user /\ app'.device = wizard.app.device
      /\ loads' = loads \cup {[token |-> token, dev |-> 0, step |-> "asked"]}
  BY WizardDoneDoes
<1>2. UNCHANGED <<devices, boots, vault, saved, form, flow>>
  BY <1>1 DEF diskVars
<1>3. root = "ONBOARDING"
  BY <1>1 DEF Clean, WizardKeeps
<1>4. Fresh(token.user)
  BY <1>3 DEF Fitting, SessionFits
<1>5. Spares(wizard.app.device, wizard.app.session.user)
  BY <1>1 DEF Fitting, WizardFits
<1>6. FlowsFit' /\ VaultFits' /\ KeyedRows' /\ AdminFirst'
  BY <1>2, HandlersFit
<1>7. LoadsFit'
  <2>. DEFINE new == [token |-> token, dev |-> 0, step |-> "asked"]
  <2>1. new.step = "asked" /\ new.token = token
    OBVIOUS
  <2>2. loads' = loads \cup {new}
    BY <1>1
  <2>. HIDE DEF new
  <2>3. ASSUME NEW k \in loads'
        PROVE  /\ k.step = "listed" => k.dev \in {0, Latest}
               /\ k.step = "asked" => Fresh(k.token.user)
    BY <1>4, <2>1, <2>2 DEF Fitting, LoadsFit
  <2>. QED
    BY <1>2, <2>3 DEF LoadsFit, Fresh, Latest, ActiveDevices
<1>8. SessionFits'
  <2>1. Fresh(token.user)'
    BY <1>1, <1>4, ForgottenFits
  <2>2. Spares(app.device, app.session.user)'
    BY <1>1, <1>5 DEF Spares, Latest, ActiveDevices
  <2>. QED
    BY <2>1, <2>2 DEF SessionFits
<1>9. WizardFits'
  BY <1>1 DEF WizardFits
<1>. QED
  BY <1>6, <1>7, <1>8, <1>9 DEF Fitting

\* The latest device is never one a session revokes: it is the session's own, or
\* another user's.
LEMMA RevokeOwnDeviceFits ==
    ASSUME Typed, Clean, Fitting, NEW d \in DOMAIN devices, RevokeOwnDevice(d)
    PROVE  Fitting'
<1>1. /\ root = "CHAT" /\ d \in ActiveDevices(app.session.user) /\ d # app.device
      /\ UNCHANGED <<boots, vault, saved, root, app, form, flow, loads, wizard>>
      /\ \/ Revokes(d) /\ UNCHANGED token
         \/ UNCHANGED devices /\ token' \in {token, NoToken}
  BY RevokeOwnDeviceDoes DEF diskVars, appVars, sideVars
<1>2. CASE UNCHANGED devices
  BY <1>1, <1>2, SameWizard, WorksFit, NoTokenTyped
<1>3. CASE Revokes(d) /\ UNCHANGED token
  <2>1. d # Latest
    BY <1>1 DEF Fitting, SessionFits, Spares
  <2>2. /\ Len(devices') = Len(devices) /\ DOMAIN devices' = DOMAIN devices
        /\ \A e \in DOMAIN devices :
               devices'[e].owner = devices[e].owner /\ devices'[e].key = devices[e].key
        /\ \A e \in DOMAIN devices : e # d => devices'[e].active = devices[e].active
        /\ ~ devices'[d].active
    BY <1>3, RevokesIs DEF Typed, ServerTyped
  <2>3. Latest' = Latest
    BY <2>2 DEF Latest
  <2>4. ASSUME NEW u
        PROVE  /\ ActiveDevices(u)' \subseteq ActiveDevices(u)
               /\ Latest \in ActiveDevices(u) => Latest \in ActiveDevices(u)'
    BY <2>1, <2>2 DEF ActiveDevices
  <2>5. ASSUME NEW u, Fresh(u)
        PROVE  Fresh(u)'
    BY <2>3, <2>4, <2>5 DEF Fresh
  <2>6. ASSUME NEW u, NEW e, Spares(e, u)
        PROVE  Spares(e, u)'
    BY <2>3, <2>4, <2>6 DEF Spares
  <2>7. \A f \in Flow : ~ Busy(f)
    BY <1>1, NoneBusy
  <2>8. FlowsFit'
    BY <1>1, <2>7 DEF FlowsFit, Busy
  <2>9. VaultFits' /\ KeyedRows'
    <3>1. VaultOK
      BY <2>7, IdleIs
    <3>2. VaultOK'
      BY <1>1, <2>2, <2>3, <3>1, LatestIs DEF VaultOK
    <3>3. KeyedRows'
      BY <2>2 DEF Fitting, KeyedRows
    <3>. QED
      BY <3>2, <3>3 DEF VaultFits
  <2>10. LoadsFit'
    <3>1. ASSUME NEW l \in loads
          PROVE  /\ l.step = "listed" => l.dev \in {0, Latest}
                 /\ l.step = "asked" => Fresh(l.token.user)'
      BY <2>5 DEF Fitting, LoadsFit
    <3>. QED
      BY <1>1, <2>3, <3>1 DEF LoadsFit, Fresh, ActiveDevices
  <2>11. SessionFits'
    <3>1. Fresh(token.user) /\ Spares(app.device, app.session.user)
      BY <1>1 DEF Fitting, SessionFits
    <3>2. PICK u, e, w : u = token.user /\ e = app.device /\ w = app.session.user
      OBVIOUS
    <3>3. Fresh(u)' /\ Spares(e, w)'
      BY <2>5, <2>6, <3>1, <3>2
    <3>4. token'.user = u /\ app'.device = e /\ app'.session.user = w
      BY <1>1, <1>3, <3>2
    <3>. QED
      BY <3>3, <3>4 DEF SessionFits
  <2>12. WizardFits'
    <3>1. wizard = NoCall
      BY <1>1 DEF Clean, WizardKeeps
    <3>. QED
      BY <1>1, <3>1 DEF WizardFits
  <2>13. AdminFirst'
    <3>1. First' <=> First
      BY <1>1 DEF First
    <3>2. AdminRows => AdminRows'
      BY <1>1, <2>2 DEF AdminRows
    <3>3. (AdminForm => AdminForm') /\ (AdminFlows => AdminFlows')
      BY <1>1 DEF AdminForm, AdminFlows, AdminFlow, Busy
    <3>. QED
      BY <3>1, <3>2, <3>3 DEF Fitting, AdminFirst
  <2>. QED
    BY <2>8, <2>9, <2>10, <2>11, <2>12, <2>13 DEF Fitting
<1>. QED
  BY <1>1, <1>2, <1>3

LEMMA WorkFits ==
    ASSUME Typed, Rooted, Clean, Fitting, Work
    PROVE  Fitting'
<1>1. CASE FinishWizard
  <2>1. /\ root = "ONBOARDING" /\ wizard'.app = app
        /\ UNCHANGED <<devices, boots, vault, saved, form, flow, token, root, app, loads>>
    BY <1>1 DEF FinishWizard, Wizard, serverVars, diskVars, appVars
  <2>2. Spares(app.device, app.session.user)
    BY <2>1 DEF Fitting, SessionFits
  <2>3. WizardFits'
    BY <2>1, <2>2 DEF WizardFits, Spares, Latest, ActiveDevices
  <2>. QED
    BY <2>1, <2>3, WorksFit
<1>2. CASE SaveProfile \/ OpenAdmin \/ AdminBack
  <2>1. /\ UNCHANGED <<devices, boots, vault, saved, form, flow, token, app, loads, wizard>>
        /\ root # "AUTH"
    BY <1>2 DEF SaveProfile, OpenAdmin, AdminBack, Workspace, serverVars, diskVars, appVars,
                sideVars
  <2>. QED
    BY <2>1, SameWizard, WorksFit
<1>3. CASE ProfileSaved
  <2>1. /\ saving # NoSave
        /\ UNCHANGED <<status, devices, live, boots, diskVars, root, form, flow, loads, wizard>>
        /\ token' \in {token, NoToken}
        /\ \/ UNCHANGED app
           \/ app'.session.user = saving.session.user /\ app'.device = app.device
    BY <1>3, ProfileSavedDoes
  <2>2. UNCHANGED <<devices, boots, vault, saved, form, flow, loads, wizard, root>>
    BY <2>1 DEF diskVars
  <2>3. root # "AUTH" => app'.session.user = app.session.user
    BY <2>1 DEF Clean, SavingKeeps
  <2>. QED
    BY <2>1, <2>2, <2>3, SameWizard, WorksFit
<1>4. CASE Logout \/ LogoutAnswered \/ LoggedOut
  <2>1. /\ UNCHANGED <<devices, boots, vault, saved, form, flow, loads, wizard>>
        /\ token' \in {token, NoToken}
    BY <1>4 DEF Logout, LogoutAnswered, LoggedOut, serverVars, diskVars
  <2>2. root' = "AUTH" \/ UNCHANGED <<root, app>>
    BY <1>4 DEF Logout, LogoutAnswered, LoggedOut, appVars
  <2>. QED
    BY <2>1, <2>2, SameWizard, WorksFit
<1>. QED
  BY <1>1, <1>2, <1>3, <1>4, WizardDoneFits, RevokeOwnDeviceFits DEF Work

\* A start finds the vault as the last registration has left it.
LEMMA RestartFits ==
    ASSUME Typed, Clean, Fitting, Restart, Settled
    PROVE  Fitting'
<1>1. /\ root' = "AUTH" /\ form' = NoForm /\ flow' = [f \in Flow |-> Idle] /\ loads' = {}
      /\ wizard' = NoCall /\ UNCHANGED <<devices, boots, vault, saved>>
  BY RestartDoes DEF serverVars, diskVars
<1>2. VaultOK
  <2>1. ASSUME NEW f \in Flow
        PROVE  flow[f].step \notin {"keys", "device"}
    <3>1. Busy(f) => flow[f].kind # "register" /\ FlowOK(flow[f])
      BY DEF Settled, Clean, FlowsOK
    <3>. QED
      BY <3>1 DEF Busy, FlowOK, Registering
  <2>. QED
    BY <2>1 DEF Fitting, VaultFits
<1>3. VaultFits' /\ KeyedRows'
  BY <1>1, <1>2, SameRows DEF VaultFits, VaultOK, Latest, Fitting
<1>4. FlowsFit' /\ AdminFlows'
  BY <1>1 DEF FlowsFit, AdminFlows, Busy, Idle
<1>5. LoadsFit' /\ SessionFits' /\ WizardFits'
  BY <1>1 DEF LoadsFit, SessionFits, WizardFits
<1>6. AdminForm'
  BY <1>1, SigninAssumption DEF AdminForm, NoForm
<1>7. AdminFirst'
  BY <1>1, <1>4, <1>6 DEF Fitting, AdminFirst, First, AdminRows
<1>. QED
  BY <1>3, <1>4, <1>5, <1>7 DEF Fitting

LEMMA OthersFit ==
    ASSUME Typed, Fitting, OneMachine, OneMachine', Others
    PROVE  Fitting'
<1>1. elsewhere' # elsewhere + 1
  BY DEF OneMachine
<1>2. PICK u \in User : Approve(u)
  BY <1>1 DEF Others, RegisterElsewhere, RevokeElsewhere
<1>3. UNCHANGED <<devices, boots, vault, saved, form, flow, token, root, app, loads, wizard>>
  BY <1>2 DEF Approve, diskVars, appVars, sideVars
<1>. QED
  BY <1>3, SameWizard, WorksFit
\* Failures, other machines' registrations and bootstraps that are granted only
\* become more.
CountsOn == /\ elsewhere' = elsewhere \/ elsewhere' = elsewhere + 1
            /\ fails' = fails \/ fails' = fails + 1
            /\ boots' = boots \/ boots' = boots - 1

LEMMA ReturnsCount ==
    ASSUME Typed, NEW f \in Flow, Returns(f)
    PROVE  CountsOn
<1>1. CASE Enter(f)
  <2>1. UNCHANGED <<serverVars, elsewhere, fails>>
    BY <1>1, EnterDoes
  <2>. QED
    BY <2>1 DEF serverVars, CountsOn
<1>2. CASE ~ Enter(f)
  <2>1. UNCHANGED elsewhere
    BY <1>2, ReturnsInside DEF Inside
  <2>2. CASE AccessAnswered(f)
    BY <2>1, <2>2, AccessAnsweredDoes DEF CountsOn
  <2>3. CASE AccessFails(f)
    BY <2>1, <2>3, AccessFailsDoes DEF CountsOn
  <2>4. CASE BootstrapAnswered(f)
    BY <2>1, <2>4, BootstrapAnsweredDoes DEF CountsOn
  <2>5. CASE ReturningAdmin(f)
    BY <2>1, <2>5, ReturningAdminDoes DEF CountsOn
  <2>6. CASE CompleteSetup(f)
    BY <2>1, <2>6, CompleteSetupDoes DEF CountsOn
  <2>7. CASE ChallengeAnswered(f)
    BY <2>1, <2>7, ChallengeAnsweredDoes DEF CountsOn
  <2>8. CASE MatchDevice(f)
    BY <2>1, <2>8, MatchDeviceDoes DEF CountsOn
  <2>9. CASE VerifyAnswered(f)
    BY <2>1, <2>9, VerifyAnsweredDoes DEF CountsOn
  <2>10. CASE LoginFails(f)
    BY <2>1, <2>10, LoginFailsDoes DEF CountsOn
  <2>11. CASE RegisterAnswered(f)
    BY <2>1, <2>11, RegisterAnsweredDoes DEF CountsOn
  <2>12. CASE SaveAnchors(f)
    BY <2>1, <2>12, SaveAnchorsDoes DEF CountsOn
  <2>. QED
    BY <1>2, <2>2, <2>3, <2>4, <2>5, <2>6, <2>7, <2>8, <2>9, <2>10, <2>11, <2>12 DEF Returns
<1>. QED
  BY <1>1, <1>2

LEMMA NextCounts ==
    ASSUME Typed, [Next]_vars
    PROVE  CountsOn
<1>1. CASE Edit
  <2>1. PICK u \in User : TypeEmail(u) \/ SelectDifferentProfile \/ CancelRequest
    BY <1>1, SigninAssumption DEF Edit
  <2>2. Edits(form')
    BY <2>1, EditingDoes DEF Typed
  <2>. QED
    BY <2>2 DEF Edits, serverVars, boundVars, CountsOn
<1>2. CASE Request
  BY <1>2 DEF Request, RequestAccess, CheckApproval, RegisterDevice, AccountSelect, Begin,
              serverVars, CountsOn
<1>3. CASE Return
  BY <1>3, ReturnsCount DEF Return
<1>4. CASE Load
  BY <1>4 DEF Load, Listed, Loaded, Fault, serverVars, boundVars, CountsOn
<1>5. CASE Work
  <2>1. UNCHANGED <<elsewhere, boots>>
    BY <1>5 DEF Work, FinishWizard, WizardDone, SaveProfile, ProfileSaved, RevokeOwnDevice,
                Logout, LogoutAnswered, LoggedOut, OpenAdmin, AdminBack, serverVars, boundVars
  <2>2. fails' = fails \/ fails' = fails + 1
    BY <1>5 DEF Work, FinishWizard, WizardDone, SaveProfile, ProfileSaved, RevokeOwnDevice,
                Logout, LogoutAnswered, LoggedOut, OpenAdmin, AdminBack, Fault
  <2>. QED
    BY <2>1, <2>2 DEF CountsOn
<1>6. CASE Others
  BY <1>6 DEF Others, Approve, RegisterElsewhere, RevokeElsewhere, boundVars, CountsOn
<1>7. CASE Restart
  <2>1. UNCHANGED <<serverVars, elsewhere>> /\ (fails' = fails \/ fails' = fails + 1)
    BY <1>7, RestartDoes
  <2>. QED
    BY <2>1 DEF serverVars, CountsOn
<1>8. CASE UNCHANGED vars
  BY <1>8 DEF vars, serverVars, boundVars, CountsOn
<1>. QED
  BY <1>1, <1>2, <1>3, <1>4, <1>5, <1>6, <1>7, <1>8, NextIs

LEMMA OneMachineBefore ==
    ASSUME Typed, [Next]_vars, OneMachine'
    PROVE  OneMachine /\ (Restart => Settled)
<1>1. CountsOn
  BY NextCounts
<1>2. elsewhere = 0 /\ fails = 0 /\ fails' = 0 /\ MaxBoots <= boots + 1
  <2>1. elsewhere \in Nat /\ fails \in Nat /\ boots \in Nat /\ MaxBoots \in Nat
    BY SigninAssumption DEF Typed, ServerTyped, BoundTyped
  <2>. QED
    BY <1>1, <2>1 DEF CountsOn, OneMachine
<1>3. Restart => Settled /\ ~ crossed
  BY <1>2, RestartDoes
<1>4. ~ crossed
  BY <1>3, CrossedStays DEF OneMachine
<1>. QED
  BY <1>2, <1>3, <1>4 DEF OneMachine

LEMMA BoundInit ==
    ASSUME Init
    PROVE  BoundInv
<1>1. \A f \in Flow : flow[f] = Idle
  BY DEF Init
<1>2. FlowsFit /\ AdminFlows
  BY <1>1 DEF FlowsFit, AdminFlows, Busy, Idle
<1>3. VaultFits /\ KeyedRows
  BY DEF Init, VaultFits, VaultOK, Latest, KeyedRows
<1>4. LoadsFit /\ SessionFits /\ WizardFits
  BY DEF Init, LoadsFit, SessionFits, WizardFits
<1>5. AdminRows /\ AdminForm
  BY SigninAssumption DEF Init, AdminRows, AdminForm, NoForm
<1>. QED
  BY <1>2, <1>3, <1>4, <1>5, InitInv DEF BoundInv, Fitting, AdminFirst

LEMMA BoundNext ==
    ASSUME BoundInv, [Next]_vars
    PROVE  BoundInv'
<1>1. IInv /\ IInv' /\ Typed /\ Rooted
  BY NextInv DEF BoundInv, IInv
<1>2. SUFFICES ASSUME OneMachine'
               PROVE  Fitting'
  BY <1>1 DEF BoundInv
<1>3. OneMachine /\ (Restart => Settled)
  BY <1>1, <1>2, OneMachineBefore
<1>4. Clean /\ Fitting /\ ~ crossed'
  BY <1>1, <1>2, <1>3 DEF BoundInv, IInv, OneMachine
<1>5. CASE Request
  BY <1>1, <1>4, <1>5, RequestsFit DEF Request
<1>6. CASE Return
  <2>1. PICK f \in Flow : Returns(f)
    BY <1>6 DEF Return
  <2>. QED
    BY <1>1, <1>2, <1>3, <1>4, <2>1, EnterFits, ReturnsFit
<1>7. CASE UNCHANGED vars
  <2>1. UNCHANGED <<devices, boots, vault, saved, form, flow, token, root, app, loads, wizard>>
    BY <1>7 DEF vars, serverVars, diskVars, appVars, sideVars
  <2>. QED
    BY <1>1, <1>4, <2>1, SameWizard, WorksFit
<1>. QED
  BY <1>1, <1>2, <1>3, <1>4, <1>5, <1>6, <1>7, NextIs, EditsFit, LoadFits, WorkFits,
     OthersFit, RestartFits

LEMMA BoundImplies ==
    ASSUME BoundInv
    PROVE  BoundOnOneMachine
<1>1. SUFFICES ASSUME Settled, OneMachine, vault.device # 0
               PROVE  devices[vault.device].key = vault.keys
  BY DEF BoundOnOneMachine, OneMachine
<1>2. Fitting /\ Clean
  BY <1>1 DEF BoundInv, IInv, OneMachine
<1>3. ASSUME NEW f \in Flow
      PROVE  flow[f].step \notin {"keys", "device"}
  <2>1. Busy(f) => flow[f].kind # "register" /\ FlowOK(flow[f])
    BY <1>1, <1>2 DEF Settled, Clean, FlowsOK
  <2>. QED
    BY <2>1 DEF Busy, FlowOK, Registering
<1>4. VaultOK
  BY <1>2, <1>3 DEF Fitting, VaultFits
<1>. QED
  BY <1>1, <1>4 DEF VaultOK

\* Where every registration is made on this machine and nothing fails, the
\* vault's device id names a device registered with the vault's keys, whoever of
\* its users has logged in, out, or revoked a device in between: so that
\* MatchDevice finds the device whose challenge the keys can sign.
THEOREM VaultIsBound == Spec => []BoundOnOneMachine
<1>1. Init => BoundInv
  BY BoundInit
<1>2. BoundInv /\ [Next]_vars => BoundInv'
  BY BoundNext
<1>3. BoundInv => BoundOnOneMachine
  BY BoundImplies
<1>. QED
  BY <1>1, <1>2, <1>3, PTL DEF Spec
=============================================================================
