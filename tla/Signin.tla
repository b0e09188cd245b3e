-------------------------------- MODULE Signin --------------------------------
(***************************************************************************)
(* How a user gets in and out of one installation of the desktop client:   *)
(* AuthFlow and the buttons OnboardingScreen gives it, the wizard, what    *)
(* useAppInitialization does on sign-in and on logout, the API's token and *)
(* the two vault entries an identity consists of.  A handler is a flow;    *)
(* it is cut at its awaits, so that other clicks, other flows, faults and  *)
(* the server's other clients come in between.                             *)
(*                                                                         *)
(* A component that is not mounted any more ignores what is set on it; the *)
(* handlers that were under way in it go on all the same (orphan).  Being  *)
(* offline disables buttons and nothing else: the user need not press one. *)
(***************************************************************************)
EXTENDS Integers, Sequences, FiniteSets

CONSTANTS
    User, Admin, NoUser,
    Flow,            \* handlers of AuthFlow that can be under way at one time
    MaxFlows,        \* bound: handlers begun
    MaxKeys,         \* bound: identities this installation generates
    MaxElsewhere,    \* bound: devices registered or revoked by other machines
    MaxFaults,       \* bound: calls that fail or whose answer is lost, restarts
    MaxBoots         \* bootstraps the server grants: one for each of its starts

ASSUME SigninAssumption ==
    /\ Admin \in User /\ NoUser \notin User
    /\ MaxFlows \in Nat /\ MaxKeys \in Nat /\ MaxElsewhere \in Nat
    /\ MaxFaults \in Nat /\ MaxBoots \in Nat

VARIABLES
    \* the server
    status,    \* status[u]: "unknown", "pending" or "active"
    named,     \* users with a username
    devices,   \* device rows in the order of their registration
    live,      \* tokens whose session row is there
    boots,
    \* the disk: the vault's newest keys and its device id, the known accounts
    vault, saved,
    \* the process: the root view, AuthFlow's state, the stores, the socket
    root, form, app, token, sock,
    \* calls under way
    flow, loads, saving, wizard, leaving,
    \* bounds and history
    keysMade, elsewhere, begun,
    fails,     \* failed calls and the restarts that are not clean
    restarts,  \* the clean restarts
    crossed,   \* two handlers that open or end a session have overlapped
    broke      \* completeSetup has thrown

serverVars == <<status, named, devices, live, boots>>
diskVars == <<vault, saved>>
appVars == <<root, app, sock>>
sideVars == <<loads, saving, wizard, leaving>>
boundVars == <<keysMade, elsewhere, begun, restarts, crossed>>
vars == <<serverVars, diskVars, appVars, form, token, flow, sideVars,
          boundVars, fails, broke>>

NoToken == [user |-> NoUser, dev |-> 0, no |-> 0]
NoSession == [user |-> NoUser, admin |-> FALSE, named |-> FALSE]
SignedOut == [session |-> NoSession, keys |-> 0, device |-> 0]
NoForm == [view |-> "HOME", email |-> NoUser, uid |-> NoUser, code |-> NoUser,
           submitting |-> FALSE, checking |-> FALSE, maint |-> FALSE]
Idle == [step |-> "idle"]
NoCall == [app |-> SignedOut, token |-> NoToken]
NoSave == [session |-> NoSession, token |-> NoToken]
Busy(f) == flow[f].step # "idle"

Init ==
    /\ status = [u \in User |-> IF u = Admin THEN "active" ELSE "unknown"]
    /\ named = {} /\ devices = <<>> /\ live = {} /\ boots = MaxBoots
    /\ vault = [keys |-> 0, device |-> 0] /\ saved = {}
    /\ root = "AUTH" /\ form = NoForm /\ app = SignedOut
    /\ token = NoToken /\ sock = [on |-> FALSE, token |-> NoToken]
    /\ flow = [f \in Flow |-> Idle] /\ loads = {} /\ saving = NoSave
    /\ wizard = NoCall /\ leaving = [step |-> "no", token |-> NoToken]
    /\ keysMade = 0 /\ elsewhere = 0 /\ begun = 0 /\ fails = 0 /\ restarts = 0
    /\ crossed = FALSE /\ broke = FALSE

\* A state update of the component flow f was started in.
Sets(f, new) == form' = IF flow[f].orphan THEN form ELSE new

Goes(f, next) == flow' = [flow EXCEPT ![f] = next]

\* The end of a handler: its finally clauses.
Ends(f, new) ==
    /\ Goes(f, Idle)
    /\ Sets(f, [new EXCEPT !.submitting = FALSE,
                           !.checking = @ /\ flow[f].kind # "check"])

Fault == fails + restarts < MaxFaults /\ fails' = fails + 1

Begin(f, kind, step, u, key) ==
    /\ root = "AUTH" /\ ~ Busy(f) /\ begun < MaxFlows /\ begun' = begun + 1
    /\ Goes(f, [step |-> step, kind |-> kind, no |-> begun', orphan |-> FALSE,
                user |-> u, uid |-> form.uid, code |-> form.code,
                submitting |-> form.submitting,
                keys |-> key, dev |-> 0, list |-> {}])
    /\ crossed' = (crossed \/ loads # {} \/ \E g \in Flow : Busy(g))
    /\ UNCHANGED <<serverVars, diskVars, appVars, token, sideVars, elsewhere,
                   fails, restarts, broke>>

TokenOf(q) == [user |-> q.user, dev |-> q.dev, no |-> q.no]

-----------------------------------------------------------------------------
(***************************************************************************)
(* The screens.                                                            *)
(***************************************************************************)

OnScreen(view) == root = "AUTH" /\ form.view = view

\* HOME is the form, or the notice of maintenance: that has one button, which
\* reloads the page.
HomeForm == OnScreen("HOME") /\ ~ form.maint

\* The accounts it offers, the input and the button it enables.
Profiles == IF HomeForm /\ form.email = NoUser THEN saved ELSE {}
Enabled == HomeForm /\ ~ form.submitting

\* REFRESH_STATUS and CANCEL_REQUEST; ANCHOR_SECURE_VAULT and
\* TERMINATE_SESSION; nothing.
Waiting == OnScreen("WAITING")
Anchoring == OnScreen("REGISTER")
Loading == OnScreen("LOADING")

\* The wizard's last step and the workspace; the administrators' panel covers
\* the workspace.
Wizard == root = "ONBOARDING" /\ app.session # NoSession
Workspace == root = "CHAT"

Edits(new) ==
    form' = new /\ UNCHANGED <<serverVars, diskVars, appVars, token, flow, sideVars,
                               boundVars, fails, broke>>

TypeEmail(u) ==
    /\ Enabled
    /\ Edits([form EXCEPT !.email = u])

\* SELECT_DIFFERENT_PROFILE stays enabled while a request is under way.
SelectDifferentProfile ==
    /\ HomeForm /\ form.email # NoUser /\ saved # {}
    /\ Edits([form EXCEPT !.email = NoUser])

CancelRequest ==
    /\ Waiting \/ Anchoring
    /\ Edits([form EXCEPT !.view = "HOME", !.email = NoUser,
                          !.uid = NoUser, !.code = NoUser])

RequestAccess(f) ==
    /\ Enabled /\ form.email # NoUser
    /\ Begin(f, "submit", "access", form.email, 0)
    /\ form' = [form EXCEPT !.submitting = TRUE, !.maint = FALSE]
    /\ UNCHANGED keysMade

AccountSelect(f, u) ==
    /\ u \in Profiles /\ ~ form.submitting
    /\ Begin(f, "select", "access", u, 0)
    /\ form' = [form EXCEPT !.submitting = TRUE, !.email = u]
    /\ UNCHANGED keysMade

\* The only button of the three that looks at nothing.
CheckApproval(f) ==
    /\ Waiting
    /\ Begin(f, "check", "access", form.email, 0)
    /\ form' = [form EXCEPT !.checking = TRUE]
    /\ UNCHANGED keysMade

RegisterDevice(f) ==
    /\ Anchoring /\ ~ form.submitting
    /\ form.uid # NoUser /\ form.code # NoUser /\ keysMade < MaxKeys
    /\ keysMade' = keysMade + 1
    /\ Begin(f, "register", "post", form.email, keysMade')
    /\ form' = [form EXCEPT !.view = "LOADING", !.submitting = TRUE]

-----------------------------------------------------------------------------
(***************************************************************************)
(* requestAccess and what its answer starts.                               *)
(***************************************************************************)

\* request_access admits an unknown user to the queue, also when its answer
\* is lost.
Asked(u) == status' = [status EXCEPT ![u] = IF @ = "active" THEN @ ELSE "pending"]

\* handleLogin's first lines; the account list's finally clause has set
\* isSubmitting back before the first answer.
Login(f, known) ==
    LET q == flow[f] IN
    IF q.kind = "check" /\ q.submitting
    THEN Ends(f, form)
    ELSE /\ Goes(f, [q EXCEPT !.step = "challenge"])
         /\ Sets(f, [known EXCEPT !.submitting = q.kind # "select", !.maint = FALSE])

AccessAnswered(f) ==
    LET q == flow[f]
        known == IF q.kind = "check" THEN form
                 ELSE [form EXCEPT !.uid = q.user, !.code = q.user]
    IN
    /\ q.step = "access" /\ q.user # NoUser
    /\ Asked(q.user)
    /\ IF status[q.user] # "active"
       THEN Ends(f, IF q.kind = "check" THEN form ELSE [known EXCEPT !.view = "WAITING"])
       ELSE IF q.kind = "submit"
       THEN Goes(f, [q EXCEPT !.step = "boot"]) /\ Sets(f, known)
       ELSE Login(f, known)
    /\ UNCHANGED <<named, devices, live, boots, diskVars, appVars, token, sideVars,
                   boundVars, fails, broke>>

\* An empty address is refused; any other request may fail, before or after
\* the server's part of it.  Only the form reports maintenance.
AccessFails(f) ==
    LET q == flow[f] IN
    /\ q.step = "access"
    /\ IF q.user = NoUser THEN UNCHANGED <<status, fails>>
       ELSE Fault /\ (UNCHANGED status \/ Asked(q.user))
    /\ \E m \in {form.maint, q.kind = "submit"} : Ends(f, [form EXCEPT !.maint = m])
    /\ UNCHANGED <<named, devices, live, boots, diskVars, appVars, token, sideVars,
                   boundVars, broke>>

\* adminBootstrap: anything but a token falls through to the login.
BootstrapAnswered(f) ==
    LET q == flow[f] IN
    /\ q.step = "boot"
    /\ \/ /\ q.user = Admin /\ boots > 0
          /\ boots' = boots - 1 /\ live' = live \cup {TokenOf(q)}
          /\ Goes(f, [q EXCEPT !.step = "returning"])
          /\ Sets(f, [form EXCEPT !.view = "LOADING"])
          /\ UNCHANGED fails
       \/ /\ q.user = Admin /\ boots > 0 /\ Fault
          /\ boots' = boots - 1 /\ UNCHANGED live
          /\ Login(f, form)
       \/ /\ q.user # Admin \/ boots = 0
          /\ Login(f, form) /\ UNCHANGED <<boots, live, fails>>
    /\ UNCHANGED <<status, named, devices, diskVars, appVars, token, sideVars,
                   boundVars, broke>>

\* An administrator with keys and a device id goes straight in.
ReturningAdmin(f) ==
    LET q == flow[f] IN
    /\ q.step = "returning"
    /\ token' = TokenOf(q)
    /\ \/ /\ vault.keys # 0 /\ vault.device # 0
          /\ Goes(f, [q EXCEPT !.step = "enter", !.keys = vault.keys,
                               !.list = {vault.device}])
          /\ UNCHANGED <<form, fails>>
       \/ /\ IF vault.keys # 0 /\ vault.device # 0 THEN Fault ELSE UNCHANGED fails
          /\ Goes(f, [q EXCEPT !.step = "setup"])
          /\ Sets(f, [form EXCEPT !.uid = q.user])
    /\ UNCHANGED <<serverVars, diskVars, appVars, sideVars, boundVars, broke>>

\* completeSetup: new keys are made and saved when none are read.  Keys from
\* the vault come without one_time_pre_keys, so that with them, as with a save
\* that fails, it throws; the LOADING screen stays.
CompleteSetup(f) ==
    LET q == flow[f] IN
    /\ q.step = "setup"
    /\ \/ /\ keysMade < MaxKeys /\ keysMade' = keysMade + 1
          /\ IF vault.keys = 0 THEN UNCHANGED fails ELSE Fault
          /\ vault' = [vault EXCEPT !.keys = keysMade']
          /\ Goes(f, [q EXCEPT !.step = "enter", !.keys = keysMade'])
          /\ UNCHANGED <<form, broke>>
       \/ /\ IF vault.keys = 0 THEN Fault ELSE UNCHANGED fails
          /\ Ends(f, form) /\ broke' = TRUE
          /\ UNCHANGED <<vault, keysMade>>
    /\ UNCHANGED <<serverVars, saved, appVars, token, sideVars,
                   elsewhere, begun, restarts, crossed>>

-----------------------------------------------------------------------------
(***************************************************************************)
(* handleLogin after its first lines.                                      *)
(***************************************************************************)

ActiveDevices(u) == {d \in DOMAIN devices : devices[d].owner = u /\ devices[d].active}

ChallengeAnswered(f) ==
    LET q == flow[f] IN
    /\ q.step = "challenge"
    /\ Goes(f, [q EXCEPT !.step = "match", !.list = ActiveDevices(q.user)])
    /\ UNCHANGED <<serverVars, diskVars, appVars, form, token, sideVars, boundVars,
                   fails, broke>>

\* The vault's device has to be one of the user's; a failed read counts as
\* an empty vault.
MatchDevice(f) ==
    LET q == flow[f] IN
    /\ q.step = "match"
    /\ \/ /\ vault.keys # 0 /\ vault.device \in q.list
          /\ Goes(f, [q EXCEPT !.step = "verify", !.keys = vault.keys, !.dev = vault.device])
          /\ UNCHANGED <<form, fails>>
       \/ /\ IF vault.keys # 0 /\ vault.device \in q.list THEN Fault ELSE UNCHANGED fails
          /\ Ends(f, [form EXCEPT !.uid = q.user, !.view = "REGISTER"])
    /\ UNCHANGED <<serverVars, diskVars, appVars, token, sideVars, boundVars, broke>>

\* A faulty login that does not tie the key that signs to the device.
VerifyAnyKey(f) ==
    LET q == flow[f] IN
    /\ q.step = "verify"
    /\ token' = TokenOf(q) /\ live' = live \cup {TokenOf(q)}
    /\ Goes(f, [q EXCEPT !.step = "enter", !.list = {q.dev}])
    /\ UNCHANGED <<status, named, devices, boots, diskVars, appVars, form, sideVars,
                   boundVars, fails, broke>>

\* login_verify; its refusals are all 401, on which requestJson forgets the
\* API's token, whoever set it.
VerifyAnswered(f) ==
    LET q == flow[f]
        known == devices[q.dev].active
        signed == devices[q.dev].key = q.keys
    IN
    /\ q.step = "verify"
    /\ IF known /\ signed
       THEN /\ token' = TokenOf(q) /\ live' = live \cup {TokenOf(q)}
            /\ Goes(f, [q EXCEPT !.step = "enter", !.list = {q.dev}])
            /\ UNCHANGED form
       ELSE /\ token' = NoToken
            /\ Ends(f, IF known THEN [form EXCEPT !.uid = q.user, !.view = "REGISTER"]
                       ELSE form)
            /\ UNCHANGED live
    /\ UNCHANGED <<status, named, devices, boots, diskVars, appVars, sideVars,
                   boundVars, fails, broke>>

\* A failure says maintenance, or is a toast.
Reports == {TRUE, form.maint}

LoginFails(f) ==
    /\ flow[f].step \in {"challenge", "verify"} /\ Fault
    /\ \E m \in Reports : Ends(f, [form EXCEPT !.maint = m])
    /\ UNCHANGED <<serverVars, diskVars, appVars, token, sideVars, boundVars, broke>>

-----------------------------------------------------------------------------
(***************************************************************************)
(* handleRegisterDevice: the server first, then three writes to the vault. *)
(***************************************************************************)

Registered(q) ==
    /\ devices' = Append(devices, [owner |-> q.user, key |-> q.keys, active |-> TRUE])
    /\ live' = live \cup {[TokenOf(q) EXCEPT !.dev = Len(devices')]}

RegisterAnswered(f) ==
    LET q == flow[f]
        right == q.user # NoUser /\ q.code = q.user
    IN
    /\ q.step = "post"
    /\ \/ /\ right /\ Registered(q)
          /\ Goes(f, [q EXCEPT !.step = "keys", !.dev = Len(devices')])
          /\ UNCHANGED <<form, token, fails>>
       \/ /\ right /\ Fault
          /\ Registered(q) \/ UNCHANGED <<devices, live>>
          /\ Ends(f, [form EXCEPT !.view = "REGISTER"]) /\ UNCHANGED token
       \/ /\ ~ right
          /\ token' = IF q.user = NoUser THEN token ELSE NoToken
          /\ Ends(f, [form EXCEPT !.view = "REGISTER"])
          /\ UNCHANGED <<devices, live, fails>>
    /\ UNCHANGED <<status, named, boots, diskVars, appVars, sideVars, boundVars, broke>>

\* A faulty registration that keeps only the device id.
SaveAnchorsKeyless(f) ==
    LET q == flow[f] IN
    /\ q.step \in {"keys", "device", "otpks"}
    /\ Goes(f, [q EXCEPT !.step = CASE q.step = "keys" -> "device"
                                    [] q.step = "device" -> "otpks"
                                    [] OTHER -> "enter", !.list = {q.dev}])
    /\ vault' = IF q.step = "device" THEN [vault EXCEPT !.device = q.dev] ELSE vault
    /\ token' = IF q.step = "otpks" THEN TokenOf(q) ELSE token
    /\ UNCHANGED <<serverVars, saved, appVars, form, fails, sideVars, boundVars, broke>>

\* A faulty registration that forgets to leave the LOADING screen.
SaveAnchorsStuck(f) ==
    LET q == flow[f] IN
    /\ q.step \in {"keys", "device", "otpks"}
    /\ Fault /\ Ends(f, form)
    /\ UNCHANGED <<serverVars, diskVars, appVars, token, sideVars, boundVars, broke>>

\* saveLocalKeys, saveDeviceId, storeOtpkBatch; then the token is set.  Any of
\* the three may fail, and leaves what was saved before it.
SaveAnchors(f) ==
    LET q == flow[f] IN
    /\ q.step \in {"keys", "device", "otpks"}
    /\ \/ /\ Goes(f, [q EXCEPT !.step = CASE q.step = "keys" -> "device"
                                          [] q.step = "device" -> "otpks"
                                          [] OTHER -> "enter", !.list = {q.dev}])
          /\ vault' = CASE q.step = "keys" -> [vault EXCEPT !.keys = q.keys]
                        [] q.step = "device" -> [vault EXCEPT !.device = q.dev]
                        [] OTHER -> vault
          /\ token' = IF q.step = "otpks" THEN TokenOf(q) ELSE token
          /\ UNCHANGED <<form, fails>>
       \/ /\ Fault /\ Ends(f, [form EXCEPT !.view = "REGISTER"])
          /\ UNCHANGED <<vault, token>>
    /\ UNCHANGED <<serverVars, saved, appVars, sideVars, boundVars, broke>>

-----------------------------------------------------------------------------
(***************************************************************************)
(* useAppInitialization: handleAuthenticated, loadWorkspace, handleLogout. *)
(***************************************************************************)

\* connect takes the API's token of the moment, or keeps its own.
Connected == [on |-> TRUE, token |-> IF token = NoToken THEN sock.token ELSE token]

\* handleAuthenticated for session s.
Opens(s, keys, device) ==
    /\ app' = [session |-> s, keys |-> keys, device |-> device]
    /\ sock' = Connected
    /\ loads' = loads \cup {[token |-> token, dev |-> 0, step |-> "asked"]}
    /\ root' = IF s.named THEN "CHAT" ELSE "ONBOARDING"

\* set_session_jwt has returned.  The device id a bootstrap without one
\* passes on, "TEMP", is 0 here.
Enter(f) ==
    LET q == flow[f]
        u == IF q.kind = "register" THEN q.uid ELSE q.user
        device == IF q.list = {} THEN 0 ELSE CHOOSE d \in q.list : TRUE
    IN
    /\ q.step = "enter"
    /\ Opens([user |-> u, admin |-> u = Admin /\ q.kind # "register",
              named |-> u \in named /\ q.kind # "register"], q.keys, device)
    /\ saved' = saved \cup ({IF q.kind = "submit" \/ q.kind = "register"
                             THEN q.user ELSE u} \ {NoUser})
    /\ flow' = [g \in Flow |-> IF g = f THEN Idle
                               ELSE IF Busy(g) THEN [flow[g] EXCEPT !.orphan = TRUE]
                               ELSE Idle]
    /\ form' = NoForm
    /\ crossed' = (crossed \/ root # "AUTH" \/ saving # NoSave
                        \/ leaving.step # "no" \/ loads # {})
    /\ UNCHANGED <<serverVars, vault, token, saving, wizard, leaving, keysMade,
                   elsewhere, begun, fails, restarts, broke>>

\* The list is ordered by last_seen, which nothing updates: the newest
\* registration comes first.
Newest(u) == IF ActiveDevices(u) = {} THEN 0
             ELSE CHOOSE d \in ActiveDevices(u) : \A e \in ActiveDevices(u) : e <= d

\* loadWorkspace asks for the user's devices ...
Listed(l) ==
    /\ l \in loads /\ l.step = "asked"
    /\ loads' = (loads \ {l}) \cup
                {IF l.token \in live
                 THEN [l EXCEPT !.step = "listed", !.dev = Newest(l.token.user)]
                 ELSE [l EXCEPT !.step = "refused"]}
    /\ UNCHANGED <<serverVars, diskVars, appVars, form, token, flow, saving, wizard,
                   leaving, boundVars, fails, broke>>

\* ... and takes the first active one for this one, in the store and in the
\* vault, whoever is signed in by then; a failure of the vault is swallowed.
Loaded(l) ==
    /\ l \in loads /\ loads' = loads \ {l}
    /\ \/ /\ l.step = "listed" /\ l.dev # 0
          /\ app' = [app EXCEPT !.device = l.dev]
          /\ \/ vault' = [vault EXCEPT !.device = l.dev] /\ UNCHANGED fails
             \/ UNCHANGED vault /\ Fault
          /\ UNCHANGED token
       \/ l.step = "listed" /\ l.dev = 0 /\ UNCHANGED <<app, vault, token, fails>>
       \/ l.step = "refused" /\ token' = NoToken /\ UNCHANGED <<app, vault, fails>>
       \/ l.step = "asked" /\ Fault /\ UNCHANGED <<app, vault, token>>
    /\ UNCHANGED <<serverVars, saved, root, sock, form, flow, saving, wizard, leaving,
                   boundVars, broke>>

\* handleFinish; a profile that cannot be saved is passed on all the same.
FinishWizard ==
    /\ Wizard /\ wizard = NoCall
    /\ wizard' = [app |-> app, token |-> token]
    /\ UNCHANGED <<serverVars, diskVars, appVars, form, token, flow, loads, saving,
                   leaving, boundVars, fails, broke>>

WizardDone ==
    /\ wizard # NoCall
    /\ \/ /\ wizard.token \in live
          /\ named' = named \cup {wizard.token.user} /\ UNCHANGED <<token, fails>>
       \/ wizard.token \notin live /\ token' = NoToken /\ UNCHANGED <<named, fails>>
       \/ Fault /\ UNCHANGED <<named, token>>
    /\ Opens([wizard.app.session EXCEPT !.named = TRUE], wizard.app.keys, wizard.app.device)
    /\ wizard' = NoCall
    /\ UNCHANGED <<status, devices, live, boots, diskVars, form, flow, saving, leaving,
                   boundVars, broke>>

\* handleSaveProfile keeps the session of the render it was started in.
SaveProfile ==
    /\ Workspace /\ app.session # NoSession /\ saving = NoSave
    /\ saving' = [session |-> app.session, token |-> token]
    /\ UNCHANGED <<serverVars, diskVars, appVars, form, token, flow, loads, wizard,
                   leaving, boundVars, fails, broke>>

ProfileSaved ==
    /\ saving # NoSave /\ saving' = NoSave
    /\ \/ /\ saving.token \in live
          /\ app' = [app EXCEPT !.session = [saving.session EXCEPT !.named = TRUE]]
          /\ named' = named \cup {saving.token.user} /\ UNCHANGED <<token, fails>>
       \/ saving.token \notin live /\ token' = NoToken /\ UNCHANGED <<app, named, fails>>
       \/ Fault /\ UNCHANGED <<app, named, token>>
    /\ UNCHANGED <<status, devices, live, boots, diskVars, root, sock, form, flow,
                   loads, wizard, leaving, boundVars, broke>>

\* The devices the drawer has a button for: all but one's own.  A list that is
\* out of date only adds some the server refuses.
OtherDevices == {d \in ActiveDevices(app.session.user) : d # app.device}

\* handleRevokeOwnDevice.
RevokeOwnDevice(d) ==
    /\ Workspace /\ d \in OtherDevices
    /\ IF token \in live
       THEN /\ IF devices[d].owner = token.user
               THEN /\ devices' = [devices EXCEPT ![d].active = FALSE]
                    /\ live' = {t \in live : t.dev # d}
               ELSE UNCHANGED <<devices, live>>
            /\ UNCHANGED token
       ELSE token' = NoToken /\ UNCHANGED <<devices, live>>
    /\ UNCHANGED <<status, named, boots, diskVars, appVars, form, flow, sideVars,
                   boundVars, fails, broke>>

\* A faulty logout that leaves the socket to its reconnect timer.
LogoutConnected ==
    /\ Workspace /\ leaving.step = "no"
    /\ leaving' = [step |-> "api", token |-> token]
    /\ UNCHANGED <<serverVars, diskVars, appVars, form, token, flow, loads, saving,
                   wizard, boundVars, fails, broke>>

\* handleLogout, confirmed: the socket first.  Bound: one logout at a time.
Logout ==
    /\ Workspace /\ leaving.step = "no"
    /\ sock' = [sock EXCEPT !.on = FALSE]
    /\ leaving' = [step |-> "api", token |-> token]
    /\ UNCHANGED <<serverVars, diskVars, root, app, form, token, flow, loads, saving,
                   wizard, boundVars, fails, broke>>

LogoutAnswered ==
    /\ leaving.step = "api"
    /\ leaving' = [leaving EXCEPT !.step = "clear"]
    /\ \/ /\ live' = live \ {leaving.token} /\ UNCHANGED fails
          /\ token' = IF leaving.token \in live THEN token ELSE NoToken
       \/ Fault /\ UNCHANGED <<live, token>>
    /\ UNCHANGED <<status, named, devices, boots, diskVars, appVars, form, flow, loads,
                   saving, wizard, boundVars, broke>>

LoggedOut ==
    /\ leaving.step = "clear"
    /\ leaving' = [step |-> "no", token |-> NoToken]
    /\ token' = NoToken /\ app' = SignedOut /\ root' = "AUTH"
    /\ UNCHANGED <<serverVars, diskVars, sock, form, flow, loads, saving, wizard,
                   boundVars, fails, broke>>

OpenAdmin ==
    /\ Workspace /\ app.session.admin /\ root' = "ADMIN"
    /\ UNCHANGED <<serverVars, diskVars, app, sock, form, token, flow, sideVars,
                   boundVars, fails, broke>>

AdminBack ==
    /\ root = "ADMIN"
    /\ root' = IF app.session = NoSession THEN "AUTH" ELSE "CHAT"
    /\ UNCHANGED <<serverVars, diskVars, app, sock, form, token, flow, sideVars,
                   boundVars, fails, broke>>

-----------------------------------------------------------------------------
(***************************************************************************)
(* The surroundings: an administrator, other machines, the process' end.   *)
(***************************************************************************)

Approve(u) ==
    /\ status[u] = "pending" /\ status' = [status EXCEPT ![u] = "active"]
    /\ UNCHANGED <<named, devices, live, boots, diskVars, appVars, form, token, flow,
                   sideVars, boundVars, fails, broke>>

RegisterElsewhere(u) ==
    /\ status[u] = "active" /\ elsewhere < MaxElsewhere
    /\ elsewhere' = elsewhere + 1
    /\ devices' = Append(devices, [owner |-> u, key |-> 0, active |-> TRUE])
    /\ UNCHANGED <<status, named, live, boots, diskVars, appVars, form, token, flow,
                   sideVars, keysMade, begun, restarts, crossed, fails, broke>>

RevokeElsewhere(d) ==
    /\ devices[d].active /\ elsewhere < MaxElsewhere
    /\ elsewhere' = elsewhere + 1
    /\ devices' = [devices EXCEPT ![d].active = FALSE]
    /\ live' = {t \in live : t.dev # d}
    /\ UNCHANGED <<status, named, boots, diskVars, appVars, form, token, flow, sideVars,
                   keysMade, begun, restarts, crossed, fails, broke>>

\* A registration that was posted is through, with its three writes.
Settled == \A f \in Flow : Busy(f) => flow[f].kind # "register"

\* The process ends and is started again, or the page is reloaded.  It is clean
\* when it cuts no registration off and no handlers have overlapped before.
Restart ==
    /\ fails + restarts < MaxFaults
    /\ IF Settled /\ ~ crossed THEN restarts' = restarts + 1 /\ UNCHANGED fails
       ELSE fails' = fails + 1 /\ UNCHANGED restarts
    /\ root' = "AUTH" /\ form' = NoForm /\ app' = SignedOut
    /\ token' = NoToken /\ sock' = [on |-> FALSE, token |-> NoToken]
    /\ flow' = [f \in Flow |-> Idle] /\ loads' = {} /\ saving' = NoSave
    /\ wizard' = NoCall /\ leaving' = [step |-> "no", token |-> NoToken]
    /\ crossed' = FALSE
    /\ UNCHANGED <<serverVars, diskVars, keysMade, elsewhere, begun, broke>>

Returns(f) ==
    \/ AccessAnswered(f) \/ AccessFails(f)
    \/ BootstrapAnswered(f) \/ ReturningAdmin(f) \/ CompleteSetup(f)
    \/ ChallengeAnswered(f) \/ MatchDevice(f) \/ VerifyAnswered(f) \/ LoginFails(f)
    \/ RegisterAnswered(f) \/ SaveAnchors(f) \/ Enter(f)

Next ==
    \/ \E u \in User : TypeEmail(u) \/ Approve(u) \/ RegisterElsewhere(u)
    \/ SelectDifferentProfile \/ CancelRequest
    \/ \E f \in Flow : \/ RequestAccess(f) \/ CheckApproval(f) \/ RegisterDevice(f)
                       \/ \E u \in User : AccountSelect(f, u)
                       \/ Returns(f)
    \/ \E l \in loads : Listed(l) \/ Loaded(l)
    \/ FinishWizard \/ WizardDone \/ SaveProfile \/ ProfileSaved
    \/ \E d \in DOMAIN devices : RevokeOwnDevice(d) \/ RevokeElsewhere(d)
    \/ Logout \/ LogoutAnswered \/ LoggedOut \/ OpenAdmin \/ AdminBack
    \/ Restart

\* An await ends some time, with an answer or with a failure.
Fairness == \A f \in Flow : WF_vars(Returns(f))

Spec == Init /\ [][Next]_vars /\ Fairness
-----------------------------------------------------------------------------
(***************************************************************************)
(* Properties.                                                             *)
(***************************************************************************)

\* Every variable has its type; the rows and keys that are named are there.
TypeOK ==
    /\ status \in [User -> {"unknown", "pending", "active"}] /\ named \subseteq User
    /\ \A d \in DOMAIN devices :
           devices[d].owner \in User /\ devices[d].key \in 0 .. keysMade
    /\ vault.keys \in 0 .. keysMade /\ vault.device \in 0 .. Len(devices)
    /\ app.keys \in 0 .. keysMade /\ app.device \in 0 .. Len(devices)
    /\ root \in {"AUTH", "ONBOARDING", "CHAT", "ADMIN"}
    /\ form.view \in {"HOME", "WAITING", "REGISTER", "LOADING"}
    /\ form.email \in User \cup {NoUser} /\ form.uid \in User \cup {NoUser}
    /\ \A t \in live : t.user \in User /\ t.dev \in 0 .. Len(devices)
    /\ saved \subseteq User
    /\ \A f \in Flow : Busy(f) => flow[f].no <= begun

SignedIn == root \in {"CHAT", "ONBOARDING"} /\ app.session # NoSession

\* Whoever is signed in, the token belongs to him and the keys in memory are
\* those the token's device was registered with, as long as no two handlers
\* that open or end a session overlapped: whatever else failed or was lost,
\* the session, the token and the keys come from one login.
OneIdentity ==
    SignedIn /\ ~ crossed /\ token # NoToken =>
        /\ token.user = app.session.user
        /\ token.dev # 0 => devices[token.dev].key = app.keys

\* Nobody is connected behind the login screen: a logout takes the socket and
\* its reconnect timer down, however its own request ends.
QuietWhenOut == root = "AUTH" /\ ~ crossed => ~ sock.on

\* Where every registration is made on this machine, be it by several users in
\* turn, the vault's device id names a device that was registered with the
\* vault's keys, so that the next login can sign for it: as long as nothing
\* fails, handlers do not overlap and the server admits the administrator by a
\* bootstrap at most once.  A second one lets him in with another user's vault.
BoundOnOneMachine ==
    Settled /\ elsewhere = 0 /\ fails = 0 /\ ~ crossed /\ MaxBoots <= boots + 1
    /\ vault.keys # 0 /\ vault.device # 0 => devices[vault.device].key = vault.keys

\* What docs/adr/ADR-002.md:18 says: each registration creates a device entry
\* with its own id and its own keys.  A machine whose keys have an active entry
\* should go by that entry's id, wherever else the user has registered one.
DeviceIsBound ==
    Settled /\ fails = 0 /\ restarts = 0 /\ ~ crossed /\ vault.device # 0
    /\ (\E d \in DOMAIN devices : devices[d].key = vault.keys /\ devices[d].active)
    => vault.keys = 0 \/ devices[vault.device].key = vault.keys

\* The LOADING screen, which has no button, gives way in the end: to the
\* workspace, or to a screen the user can go on from.  The exception is a
\* first setup that threw.
LoadingEnds == Loading ~> (~ Loading \/ broke)
===============================================================================
