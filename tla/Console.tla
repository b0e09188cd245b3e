-------------------------------- MODULE Console --------------------------------
(***************************************************************************)
(* The administrator's console: AdminPanel with the one list its tabs      *)
(* share, the requests that fill it, the decisions on users and devices,   *)
(* and what the tabs' components make of the list.  A handler is a job cut *)
(* at its requests; a request is answered, or fails, in its own time.      *)
(*                                                                         *)
(* The server is Access', cut down to what the lists show.  The health     *)
(* display, its simulated telemetry, searching and wiping the vault are    *)
(* left out.  ConsoleInit, ConsoleNext and ConsoleSpec carry the module's  *)
(* name so that it can stand beside Socket in one module.                  *)
(***************************************************************************)
EXTENDS Integers, FiniteSets

CONSTANTS
    User, NoUser,
    Device, Owner,  \* Owner[d]: the user of device d
    MaxJobs,        \* bound: handlers under way at one time
    MaxActs,        \* bound: things the administrator does
    MaxElsewhere,   \* bound: requests for access and decisions of another administrator
    MaxFaults       \* bound: requests that fail

ASSUME ConsoleAssumption ==
    /\ NoUser \notin User /\ Owner \in [Device -> User]
    /\ {MaxJobs, MaxActs, MaxElsewhere, MaxFaults} \subseteq Nat

VARIABLES
    \* the database
    status, active,
    logs,           \* audit_logs is not empty
    \* AdminPanel and whether it is mounted
    open, tab, data, loading, selected, shown,
    broken,         \* the ErrorBoundary shows its fallback
    jobs,
    \* bounds and history
    acts, elsewhere, faults,
    crossed,        \* the newest fetch was not alone, or was for a tab left since,
                    \* or the database has changed without it
    mixed           \* the newest request for a user's devices was not alone

dbVars == <<status, active, logs>>
listVars == <<open, tab, data, loading, broken>>
detailVars == <<selected, shown, mixed>>
boundVars == <<acts, elsewhere, faults>>
consoleVars == <<dbVars, listVars, detailVars, jobs, boundVars, crossed>>

Tab == {"COMMAND", "ADMISSION", "REGISTRY", "LEDGER", "POLICIES"}
Nothing == [of |-> "POLICIES", rows |-> {}, some |-> FALSE]

ConsoleInit ==
    /\ status \in [User -> {"unknown", "pending", "active"}]
    /\ active = {d \in Device : status[Owner[d]] = "active"} /\ logs = FALSE
    /\ open = FALSE /\ tab = "COMMAND" /\ data = Nothing /\ loading = FALSE
    /\ broken = FALSE /\ selected = NoUser /\ shown = {}
    /\ jobs = {} /\ acts = 0 /\ elsewhere = 0 /\ faults = 0
    /\ crossed = FALSE /\ mixed = FALSE

-----------------------------------------------------------------------------
(***************************************************************************)
(* What the requests answer and what the components do with it.            *)
(***************************************************************************)

\* get_pending_users, get_all_users (the others for COMMAND, which shows their
\* numbers only), get_audit_logs.  "some" is whether the list has an entry.
Answer(t) ==
    LET pending == {u \in User : status[u] = "pending"}
        known == {<<u, status[u]>> : u \in {v \in User : status[v] # "unknown"}}
    IN CASE t = "COMMAND" -> [of |-> t, rows |-> <<Cardinality(pending), Cardinality(known), logs>>,
                              some |-> TRUE]
         [] t = "ADMISSION" -> [of |-> t, rows |-> pending, some |-> pending # {}]
         [] t = "REGISTRY" -> [of |-> t, rows |-> known, some |-> known # {}]
         [] t = "LEDGER" -> [of |-> t, rows |-> logs, some |-> logs]
         [] t = "POLICIES" -> Nothing

\* Fields an entry has: the entries of COMMAND are lists themselves.
Fields(of) ==
    CASE of = "ADMISSION" -> {"id", "email", "requested_at"}
      [] of = "REGISTRY" -> {"id", "email", "device_count"}
      [] of = "LEDGER" -> {"id", "actor_email", "created_at"}
      [] OTHER -> {}

\* Fields without which a component throws when it draws an entry: the initial
\* of the email, the characters of the id, the time as a date.
AdmissionQueue == {"id", "email"}
EndpointRegistry == {"email"}
SecurityLedger == {"created_at"}

\* A list that is being loaded is not drawn.
Throws(t, d, isLoading) ==
    /\ ~ isLoading /\ d.some
    /\ ~ CASE t = "ADMISSION" -> AdmissionQueue \subseteq Fields(d.of)
           [] t = "REGISTRY" -> EndpointRegistry \subseteq Fields(d.of)
           [] t = "LEDGER" -> SecurityLedger \subseteq Fields(d.of)
           [] OTHER -> TRUE

\* Users whose row the tab draws, and whose buttons may be pressed.
Rows(t) ==
    IF tab # t \/ loading \/ broken \/ ~ open THEN {}
    ELSE IF data.of = "ADMISSION" THEN data.rows
    ELSE IF data.of = "REGISTRY" THEN {r[1] : r \in data.rows}
    ELSE {}

-----------------------------------------------------------------------------
(***************************************************************************)
(* fetchData.                                                              *)
(***************************************************************************)

Fault == faults < MaxFaults /\ faults' = faults + 1
Does == open /\ ~ broken /\ acts < MaxActs /\ acts' = acts + 1 /\ UNCHANGED <<elsewhere, faults>>
Works(kind, js) == \E j \in js : j.kind = kind
Room == Cardinality(jobs) < MaxJobs

Job(kind, of, step) == [kind |-> kind, of |-> of, step |-> step, got |-> {}, here |-> TRUE]
Becomes(j, next) == jobs' = (jobs \ {j}) \cup {next}

\* A decision the server has answered goes on in the panel it was made in, if
\* that is still mounted.
Answered(j) == IF j.here THEN Becomes(j, [j EXCEPT !.step = "done"]) ELSE jobs' = jobs \ {j}

\* A fetch for tab t begins, among the other jobs js; POLICIES has nothing to
\* wait for.  Fetches are told apart by the act or the event that made them.
Fetch(t, js) ==
    IF t = "POLICIES"
    THEN /\ jobs' = js /\ data' = Nothing /\ loading' = FALSE
         /\ crossed' = (Works("fetch", js) \/ t # tab')
    ELSE /\ jobs' = js \cup {[kind |-> "fetch", of |-> t, step |-> "asked", got |-> Nothing,
                              no |-> <<acts', elsewhere', faults'>>]}
         /\ UNCHANGED data /\ loading' = TRUE
         /\ crossed' = (Works("fetch", js) \/ t # tab')

Drawn == broken' = (broken \/ (open' /\ Throws(tab', data', loading')))

\* The server reads.
Read(j) ==
    /\ j.kind = "fetch" /\ j.step = "asked"
    /\ Becomes(j, [j EXCEPT !.step = "read", !.got = Answer(j.of)])
    /\ UNCHANGED <<dbVars, listVars, detailVars, boundVars, crossed>>

\* A faulty fetchData that ends the spinner only when the answer is good.
FetchedGood(j) ==
    /\ j.kind = "fetch" /\ ~ broken /\ jobs' = jobs \ {j}
    /\ \/ j.step = "read" /\ data' = j.got /\ loading' = FALSE /\ UNCHANGED <<faults, crossed>>
       \/ Fault /\ data' = Nothing /\ crossed' = TRUE /\ UNCHANGED loading
    /\ UNCHANGED <<open, tab>> /\ Drawn
    /\ UNCHANGED <<dbVars, detailVars, acts, elsewhere>>

\* Whatever the tab is by now; the first answer ends the spinner of all.
Fetched(j) ==
    /\ j.kind = "fetch" /\ ~ broken /\ jobs' = jobs \ {j}
    /\ \/ j.step = "read" /\ data' = j.got /\ UNCHANGED <<faults, crossed>>
       \/ Fault /\ data' = Nothing /\ crossed' = TRUE
    /\ loading' = FALSE /\ UNCHANGED <<open, tab>> /\ Drawn
    /\ UNCHANGED <<dbVars, detailVars, acts, elsewhere>>

-----------------------------------------------------------------------------
(***************************************************************************)
(* AdminPanel.                                                             *)
(***************************************************************************)

\* The panel is mounted afresh; handlers of an earlier one change nothing here.
Mount ==
    /\ ~ open /\ Room /\ acts < MaxActs /\ acts' = acts + 1 /\ open' = TRUE
    /\ tab' = "COMMAND" /\ selected' = NoUser /\ shown' = {} /\ mixed' = FALSE
    /\ jobs' = jobs \cup {[kind |-> "fetch", of |-> "COMMAND", step |-> "asked", got |-> Nothing,
                           no |-> <<acts', elsewhere, faults>>]}
    /\ data' = Nothing /\ loading' = TRUE /\ broken' = FALSE /\ crossed' = FALSE
    /\ UNCHANGED <<dbVars, elsewhere, faults>>

\* Handlers go on without the panel as far as the server is concerned; the
\* rest of what they do changes nothing.
Left(js) == {[j EXCEPT !.here = FALSE] : j \in {i \in js : i.kind \in {"approve", "deny", "revoke"}
                                                         /\ i.step # "done"}}
Exit ==
    /\ open /\ ~ broken /\ open' = FALSE /\ jobs' = Left(jobs)
    /\ UNCHANGED <<dbVars, tab, data, loading, broken, detailVars, boundVars, crossed>>

\* The button of the fallback: the whole client starts again; a request that
\* was sent is carried out.
Reload ==
    /\ broken /\ broken' = FALSE /\ open' = FALSE /\ jobs' = Left({j \in jobs : j.step = "act"})
    /\ UNCHANGED <<dbVars, tab, data, loading, detailVars, boundVars, crossed>>

\* A faulty tab change that leaves the list of the last tab without a spinner.
SetTabLater(t) ==
    /\ Does /\ Room /\ t # tab /\ tab' = t
    /\ jobs' = jobs \cup {[kind |-> "fetch", of |-> t, step |-> "asked", got |-> Nothing,
                           no |-> <<acts', elsewhere', faults'>>]}
    /\ crossed' = Works("fetch", jobs)
    /\ UNCHANGED <<data, loading, open>> /\ Drawn
    /\ UNCHANGED <<dbVars, detailVars>>

\* The effect on the tab fetches; the components change when that has begun.
SetTab(t) ==
    /\ Does /\ Room /\ t # tab /\ tab' = t
    /\ Fetch(t, jobs) /\ UNCHANGED open /\ Drawn
    /\ UNCHANGED <<dbVars, detailVars>>

\* AUTHORIZE_NODE and the button that rejects.
Decide(kind, u) ==
    /\ Does /\ Room /\ u \in Rows("ADMISSION") /\ Job(kind, u, "act") \notin jobs
    /\ jobs' = jobs \cup {Job(kind, u, "act")}
    /\ UNCHANGED <<dbVars, listVars, detailVars, crossed>>

\* approve_user asks nothing of the status, deny_user that it is pending.
Approve(j) ==
    /\ j.kind = "approve" /\ j.step = "act"
    /\ \/ /\ status' = [status EXCEPT ![j.of] = "active"] /\ logs' = TRUE
          /\ Answered(j) /\ UNCHANGED faults
       \/ Fault /\ jobs' = jobs \ {j} /\ UNCHANGED <<status, logs>>
    /\ crossed' = TRUE
    /\ UNCHANGED <<active, listVars, detailVars, acts, elsewhere>>

Deny(j) ==
    /\ j.kind = "deny" /\ j.step = "act"
    /\ IF status[j.of] = "pending"
       THEN /\ status' = [status EXCEPT ![j.of] = "denied"] /\ logs' = TRUE
            /\ Answered(j) /\ crossed' = TRUE
       ELSE jobs' = jobs \ {j} /\ UNCHANGED <<status, logs, crossed>>
    /\ UNCHANGED <<active, listVars, detailVars, boundVars>>

\* A faulty handler that does not fetch again.
DecidedQuietly(j) ==
    /\ j.kind \in {"approve", "deny"} /\ j.step = "done" /\ ~ broken /\ jobs' = jobs \ {j}
    /\ crossed' = Works("fetch", jobs)
    /\ UNCHANGED <<dbVars, listVars, detailVars, boundVars>>

\* The fetchData of the handler is that of the tab its button was on.
Decided(j) ==
    /\ j.kind \in {"approve", "deny"} /\ j.step = "done" /\ ~ broken
    /\ UNCHANGED <<boundVars, open, tab>> /\ Fetch("ADMISSION", jobs \ {j}) /\ Drawn
    /\ UNCHANGED <<dbVars, detailVars>>

\* handleShowInfo: the user at once, the devices when they come.
ShowInfo(u) ==
    /\ Does /\ Room /\ u \in Rows("REGISTRY") /\ selected' = u
    /\ jobs' = jobs \cup {[kind |-> "info", of |-> u, step |-> "keys", got |-> {}, no |-> acts']}
    /\ mixed' = Works("info", jobs)
    /\ UNCHANGED <<dbVars, listVars, shown, crossed>>

\* getUserKeys: the devices that are active, in no particular order.
Devices(u) == {d \in active : Owner[d] = u}

Info(j) ==
    /\ j.kind = "info" /\ ~ broken /\ jobs' = jobs \ {j}
    /\ \/ shown' = Devices(j.of) /\ UNCHANGED faults
       \/ Fault /\ shown' = {}
    /\ UNCHANGED <<dbVars, listVars, selected, mixed, acts, elsewhere, crossed>>

CloseDetail ==
    /\ Does /\ selected # NoUser /\ tab = "REGISTRY" /\ selected' = NoUser
    /\ UNCHANGED <<dbVars, listVars, shown, mixed, jobs, crossed>>

\* REVOKE_ENCLAVE_ACCESS: handleRevoke asks for the user's devices again and
\* revokes the first.
Revoke ==
    /\ Does /\ Room /\ selected # NoUser /\ tab = "REGISTRY"
    /\ Job("revoke", selected, "keys") \notin jobs
    /\ jobs' = jobs \cup {Job("revoke", selected, "keys")}
    /\ UNCHANGED <<dbVars, listVars, detailVars, crossed>>

RevokeFirst(j) ==
    /\ j.kind = "revoke" /\ j.step = "keys"
    /\ \/ \E d \in Devices(j.of) : Becomes(j, [j EXCEPT !.step = "act", !.got = {d}])
       \/ Devices(j.of) = {} /\ jobs' = jobs \ {j}
    /\ UNCHANGED <<dbVars, listVars, detailVars, boundVars, crossed>>

RevokeDevice(j) ==
    /\ j.kind = "revoke" /\ j.step = "act"
    /\ \/ /\ active' = active \ j.got /\ logs' = TRUE
          /\ Answered(j) /\ UNCHANGED faults
       \/ Fault /\ jobs' = jobs \ {j} /\ UNCHANGED <<active, logs>>
    /\ crossed' = TRUE
    /\ UNCHANGED <<status, listVars, detailVars, acts, elsewhere>>

\* Nobody is selected afterwards, whoever was by now.
Revoked(j) ==
    /\ j.kind = "revoke" /\ j.step = "done" /\ ~ broken /\ selected' = NoUser
    /\ UNCHANGED <<boundVars, open, tab>> /\ Fetch("REGISTRY", jobs \ {j}) /\ Drawn
    /\ UNCHANGED <<dbVars, shown, mixed>>

-----------------------------------------------------------------------------

\* request_access of anybody: the event makes a mounted console fetch again.
RequestAccess(u) ==
    /\ elsewhere < MaxElsewhere /\ elsewhere' = elsewhere + 1
    /\ status[u] \in {"unknown", "denied"} /\ Room
    /\ status' = [status EXCEPT ![u] = "pending"] /\ logs' = TRUE
    /\ jobs' = IF open THEN jobs \cup {Job("event", u, "sent")} ELSE jobs
    /\ crossed' = TRUE
    /\ UNCHANGED <<active, listVars, detailVars, acts, faults>>

Refresh(j) ==
    /\ j.kind = "event" /\ ~ broken
    /\ UNCHANGED <<boundVars, open, tab>> /\ Fetch(tab, jobs \ {j}) /\ Drawn
    /\ UNCHANGED <<dbVars, detailVars>>

\* Another administrator approves or denies.
Other(u, to) ==
    /\ elsewhere < MaxElsewhere /\ elsewhere' = elsewhere + 1 /\ status[u] = "pending"
    /\ status' = [status EXCEPT ![u] = to] /\ logs' = TRUE /\ crossed' = TRUE
    /\ UNCHANGED <<active, listVars, detailVars, jobs, acts, faults>>

Handler(j) == \/ Read(j) \/ Fetched(j) \/ Approve(j) \/ Deny(j) \/ Decided(j) \/ Info(j)
              \/ RevokeFirst(j) \/ RevokeDevice(j) \/ Revoked(j) \/ Refresh(j)

ConsoleNext ==
    \/ Mount \/ Exit \/ Reload \/ CloseDetail \/ Revoke
    \/ \E t \in Tab : SetTab(t)
    \/ \E u \in User : \/ Decide("approve", u) \/ Decide("deny", u) \/ ShowInfo(u)
                       \/ RequestAccess(u) \/ Other(u, "active") \/ Other(u, "denied")
    \/ \E j \in jobs : Handler(j)

\* A request is answered or fails in the end.
ConsoleFairness == WF_consoleVars(\E j \in jobs : Read(j)) /\ WF_consoleVars(\E j \in jobs : Fetched(j))

ConsoleSpec == ConsoleInit /\ [][ConsoleNext]_consoleVars /\ ConsoleFairness

-----------------------------------------------------------------------------
(***************************************************************************)
(* Properties.                                                             *)
(***************************************************************************)

\* Every variable has its type.
ConsoleTypeOK ==
    /\ status \in [User -> {"unknown", "pending", "active", "denied"}]
    /\ active \subseteq Device /\ {logs, open, loading, broken, crossed, mixed} \subseteq BOOLEAN
    /\ tab \in Tab /\ data.of \in Tab
    /\ selected \in User \cup {NoUser} /\ shown \subseteq Device
    /\ Cardinality(jobs) <= MaxJobs

Quiet == open /\ ~ broken /\ jobs = {}

\* What the settled console shows is true.  The tab shows what the server would
\* answer now, after any approvals, rejections, revocations and requests that
\* came in, provided that the last fetch was alone and the tab was not left
\* before it was answered; the drawer shows devices of the user who is selected,
\* provided that no other user's were asked for at the same time.
SettledIsTrue ==
    Quiet =>
        /\ ~ crossed => data = Answer(tab)
        /\ ~ mixed /\ selected # NoUser => \A d \in shown : Owner[d] = selected

\* The console breaks down only when a fetch met another one or outlived its
\* tab: no single sequence of clicks that waits for its answers does it.
BreaksOnlyCrossed == broken => crossed

\* The spinner stops, whatever fails and however the tabs are changed.
SpinnerStops == loading ~> (~ loading \/ ~ open)
===============================================================================
