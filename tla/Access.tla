------------------------------- MODULE Access -------------------------------
(***************************************************************************)
(* Who may use the backend: admission, devices, login challenges and       *)
(* sessions, as auth.rs, admin.rs, users.rs and keys.rs keep them in the   *)
(* database.  A handler is a request slot; its steps are its queries, each *)
(* of which commits by itself, so that other requests come in between what *)
(* a handler checks and what it writes.                                    *)
(*                                                                         *)
(* A token is a signed statement the client keeps; it is good for as long  *)
(* as the sessions table has a row with its jti.  Signatures and access    *)
(* codes are taken as right: clients here are honest, and answer a         *)
(* challenge from the device they name.  Requests the code refuses before  *)
(* it has changed anything are not steps.                                  *)
(***************************************************************************)
EXTENDS Integers, Sequences, FiniteSets

CONSTANTS
    User, Admin,     \* Admin is the user ADMIN_EMAIL names
    Device, Jti, Challenge,
    Request,         \* handlers that can be under way at one time
    RateMax,         \* RATE_LIMIT_MAX_REQUESTS
    Window,          \* RATE_LIMIT_WINDOW_SECS
    MaxCalls,        \* bound: requests that are begun
    MaxTime,         \* bound: ticks of the clock
    MaxRestarts,     \* bound: restarts of the instance
    NoUser, NoDevice

ASSUME AccessAssumption ==
    /\ Admin \in User
    /\ NoUser \notin User /\ NoDevice \notin Device
    /\ {"none", "registration", "bootstrap", "earlier bootstrap"} \cap Challenge = {}
    /\ RateMax \in Nat /\ Window \in Nat \ {0}
    /\ MaxCalls \in Nat /\ MaxTime \in Nat /\ MaxRestarts \in Nat

VARIABLES
    \* the database
    status,      \* status[u]: users.status, "unknown" without a row
    owner,       \* owner[d]: user_id of device d, NoUser without a row
    active,      \* devices with is_active = TRUE
    session,     \* session[j]: the row of sessions with jti = j
    challenges,  \* rows of auth_challenges that have not expired
    \* the instance
    req,         \* req[r]: the handler in slot r and what it found so far
    consumed,    \* admin_bootstrap_consumed
    attempts,    \* those of passes the rate limiter still holds, by their place
    \* what clients hold, the environment, and history
    token,       \* token[j]: the claims signed with jti = j
    asked,       \* asked[c]: whom challenge c was given to
    calls, now, restarts,
    approved,    \* users that have been active at some time
    raced,       \* devices revoked while a session was on its way to them
    passes       \* times at which the rate limiter let an attempt through

dbVars == <<status, owner, active, session, challenges>>
nodeVars == <<req, consumed, attempts>>
restVars == <<token, asked, now, restarts, approved, raced, passes>>
histVars == <<calls, restVars>>
vars == <<dbVars, nodeVars, histVars>>

NoRow == [user |-> NoUser, device |-> NoDevice]
NoToken == [user |-> NoUser, role |-> "none", via |-> "none"]
Idle == [step |-> "idle"]
RoleOf(u) == IF u = Admin THEN "ADMIN" ELSE "USER"

Init ==
    /\ status = [u \in User |-> IF u = Admin THEN "active" ELSE "unknown"]
    /\ owner = [d \in Device |-> NoUser] /\ active = {}
    /\ session = [j \in Jti |-> NoRow] /\ challenges = {}
    /\ req = [r \in Request |-> Idle]
    /\ consumed = FALSE /\ attempts = {}
    /\ token = [j \in Jti |-> NoToken]
    /\ asked = [c \in Challenge |-> NoUser]
    /\ calls = 0 /\ now = 0 /\ restarts = 0
    /\ approved = {Admin} /\ raced = {} /\ passes = <<>>

\* A handler goes on, or is done; a new request takes a free slot.
Goes(r, next) == req' = [req EXCEPT ![r] = next] /\ UNCHANGED calls
Begins(r, next) ==
    /\ req[r] = Idle /\ calls < MaxCalls
    /\ req' = [req EXCEPT ![r] = next] /\ calls' = calls + 1

\* A handler that will insert a session row for u, on device d.
Issuing(u, d, role, via) ==
    [step |-> "issue", user |-> u, device |-> d, role |-> role, via |-> via]

-----------------------------------------------------------------------------
(***************************************************************************)
(* auth.rs: the handlers anybody may call.                                 *)
(***************************************************************************)

\* request_access: one transaction; an active user stays active.
RequestAccess(u) ==
    /\ status[u] \notin {"active", "pending_approval"}
    /\ status' = [status EXCEPT ![u] = "pending_approval"]
    /\ UNCHANGED <<owner, active, session, challenges, nodeVars, histVars>>

\* A faulty check that also lets a user through who still waits for approval.
RegisterUnapproved(r, u) ==
    /\ status[u] \in {"active", "pending_approval"}
    /\ Begins(r, [step |-> "register", user |-> u])
    /\ UNCHANGED <<dbVars, consumed, attempts, restVars>>

\* register_device: the user's status, the device row, the session row.
RegisterCheck(r, u) ==
    /\ status[u] = "active"
    /\ Begins(r, [step |-> "register", user |-> u])
    /\ UNCHANGED <<dbVars, consumed, attempts, restVars>>

RegisterDevice(r, d) ==
    LET u == req[r].user IN
    /\ req[r].step = "register" /\ owner[d] = NoUser
    /\ owner' = [owner EXCEPT ![d] = u] /\ active' = active \cup {d}
    /\ Goes(r, Issuing(u, d, "USER", "registration"))
    /\ UNCHANGED <<status, session, challenges, consumed, attempts, restVars>>

\* The last query of register_device, login_verify and admin_bootstrap, and
\* the token that goes back; only the bootstrap has more to do.
Issue(r, j) ==
    LET q == req[r] IN
    /\ q.step = "issue" /\ token[j] = NoToken
    /\ session' = [session EXCEPT ![j] = [user |-> q.user, device |-> q.device]]
    /\ token' = [token EXCEPT ![j] = [user |-> q.user, role |-> q.role, via |-> q.via]]
    /\ Goes(r, IF q.via = "bootstrap" THEN [step |-> "spend"] ELSE Idle)
    /\ UNCHANGED <<status, owner, active, challenges, consumed, attempts,
                   asked, now, restarts, approved, raced, passes>>

\* login_challenge: the user's status, then a challenge for five minutes.
ChallengeCheck(r, u) ==
    /\ status[u] = "active"
    /\ Begins(r, [step |-> "challenge", user |-> u])
    /\ UNCHANGED <<dbVars, consumed, attempts, restVars>>

InsertChallenge(r, c) ==
    /\ req[r].step = "challenge" /\ asked[c] = NoUser
    /\ challenges' = challenges \cup {c}
    /\ asked' = [asked EXCEPT ![c] = req[r].user]
    /\ Goes(r, Idle)
    /\ UNCHANGED <<status, owner, active, session, consumed, attempts,
                   token, now, restarts, approved, raced, passes>>

Expire(c) ==
    /\ c \in challenges
    /\ challenges' = challenges \ {c}
    /\ UNCHANGED <<status, owner, active, session, nodeVars, histVars>>

\* A faulty login_verify that looks the challenge up and leaves it there.
PeekChallenge(r, c, d) ==
    /\ c \in challenges /\ owner[d] # NoUser
    /\ Begins(r, [step |-> "verify", user |-> asked[c], device |-> d, via |-> c])
    /\ UNCHANGED <<dbVars, consumed, attempts, restVars>>

\* login_verify: DELETE .. RETURNING takes the challenge; then the device is
\* looked up and the signature checked; then the session row.
TakeChallenge(r, c, d) ==
    /\ c \in challenges /\ owner[d] # NoUser
    /\ challenges' = challenges \ {c}
    /\ Begins(r, [step |-> "verify", user |-> asked[c], device |-> d, via |-> c])
    /\ UNCHANGED <<status, owner, active, session, consumed, attempts, restVars>>

\* A faulty look-up without the condition on is_active.
IsUsableAny(u, d) == owner[d] = u

\* A faulty look-up without the condition on user_id.
IsUsableByAll(u, d) == d \in active

\* The device row login_verify asks for.
IsUsable(u, d) == owner[d] = u /\ d \in active

VerifyDevice(r) ==
    LET q == req[r] IN
    /\ q.step = "verify"
    /\ Goes(r, IF IsUsable(q.user, q.device)
               THEN Issuing(q.user, q.device, RoleOf(q.user), q.via)
               ELSE Idle)
    /\ UNCHANGED <<dbVars, consumed, attempts, restVars>>

-----------------------------------------------------------------------------
(***************************************************************************)
(* The rate limiter, and admin_bootstrap behind it.                        *)
(***************************************************************************)

\* RateLimiter::check keeps the attempts of the last window.
Recent == { i \in attempts : passes[i] > now - Window }

Allowed == Cardinality(Recent) < RateMax

\* What a request may give as the setup token.
SetupToken == "ADMIN_BOOTSTRAP_SETUP_TOKEN"
Tokens == {SetupToken, "another"}

\* The setup token, then the flag, then the limiter, under the address of the
\* administrator: what gives another token, or comes after the flag, is refused
\* before the limiter counts it, and another address has a count of its own and
\* is refused after it.  The flag is set only at the end, so several requests
\* can pass it.
BootstrapCheck(r, given) ==
    /\ given = SetupToken
    /\ ~ consumed
    /\ IF Allowed
       THEN /\ passes' = Append(passes, now)
            /\ attempts' = Recent \cup {Len(passes')}
            /\ Begins(r, [step |-> "boot"])
       ELSE attempts' = Recent /\ UNCHANGED <<req, calls, passes>>
    /\ UNCHANGED <<dbVars, consumed, token, asked, now, restarts, approved, raced>>

BootstrapUser(r) ==
    /\ req[r].step = "boot"
    /\ Goes(r, IF status[Admin] = "active"
               THEN Issuing(Admin, NoDevice, "ADMIN", "bootstrap")
               ELSE Idle)
    /\ UNCHANGED <<dbVars, consumed, attempts, restVars>>

\* A faulty end that leaves the flag as it is.
BootstrapEnds(r) ==
    /\ req[r].step = "spend"
    /\ Goes(r, Idle)
    /\ UNCHANGED <<dbVars, consumed, attempts, restVars>>

BootstrapSpend(r) ==
    /\ req[r].step = "spend"
    /\ consumed' = TRUE
    /\ Goes(r, Idle)
    /\ UNCHANGED <<dbVars, attempts, restVars>>

-----------------------------------------------------------------------------
(***************************************************************************)
(* The handlers behind AuthContext: the session row is looked up first, and*)
(* what the handler does comes later, with the claims of the token.        *)
(***************************************************************************)

Authorize(r, j) ==
    /\ token[j] # NoToken /\ session[j] # NoRow
    /\ Begins(r, [step |-> "authorized", jti |-> j])
    /\ UNCHANGED <<dbVars, consumed, attempts, restVars>>

Claims(r) == token[req[r].jti]
IsAdmin(r) == req[r].step = "authorized" /\ Claims(r).role = "ADMIN"

\* logout
Logout(r) ==
    /\ req[r].step = "authorized"
    /\ session' = [session EXCEPT ![req[r].jti] = NoRow]
    /\ Goes(r, Idle)
    /\ UNCHANGED <<status, owner, active, challenges, consumed, attempts, restVars>>

\* A faulty upload_keys that writes the session row whether there is one or not.
LinkAlways(j, d) ==
    [session EXCEPT ![j] = [user |-> token[j].user, device |-> d]]

\* UPDATE sessions SET device_id = .. WHERE jti = ..
Link(j, d) ==
    IF session[j] = NoRow THEN session
    ELSE [session EXCEPT ![j] = [user |-> @.user, device |-> d]]

\* upload_keys: a new device for the caller, and the session moves to it.
UploadKeys(r, d) ==
    /\ req[r].step = "authorized" /\ owner[d] = NoUser
    /\ owner' = [owner EXCEPT ![d] = Claims(r).user] /\ active' = active \cup {d}
    /\ session' = Link(req[r].jti, d)
    /\ Goes(r, Idle)
    /\ UNCHANGED <<status, challenges, consumed, attempts, restVars>>

\* approve_user answers; approve_bulk goes on to its next user.
Approve(r, u) ==
    /\ IsAdmin(r) /\ status[u] # "unknown"
    /\ status' = [status EXCEPT ![u] = "active"]
    /\ approved' = approved \cup {u}
    /\ \E next \in {req[r], Idle} : Goes(r, next)
    /\ UNCHANGED <<owner, active, session, challenges, consumed, attempts,
                   token, asked, now, restarts, raced, passes>>

\* deny_user: only a user who waits for approval.
Deny(r, u) ==
    /\ IsAdmin(r) /\ status[u] = "pending_approval"
    /\ status' = [status EXCEPT ![u] = "denied"]
    /\ Goes(r, Idle)
    /\ UNCHANGED <<owner, active, session, challenges, consumed, attempts, restVars>>

\* deny_user_internal, for each user of deny_bulk: any user of the tenant.
DenyBulk(r, u) ==
    /\ IsAdmin(r) /\ status[u] # "unknown"
    /\ status' = [status EXCEPT ![u] = "revoked"]
    /\ \E next \in {req[r], Idle} : Goes(r, next)
    /\ UNCHANGED <<owner, active, session, challenges, consumed, attempts, restVars>>

\* The transaction of both revocations: the device and its session rows.
Revoke(r, d) ==
    /\ owner[d] # NoUser
    /\ active' = active \ {d}
    /\ session' = [j \in Jti |-> IF session[j].device = d THEN NoRow ELSE session[j]]
    /\ raced' = IF \E s \in Request : req[s].step = "issue" /\ req[s].device = d
                THEN raced \cup {d} ELSE raced
    /\ Goes(r, Idle)
    /\ UNCHANGED <<status, owner, challenges, consumed, attempts,
                   token, asked, now, restarts, approved, passes>>

\* revoke_device_internal, also the end of nuke_device; revoke_own_device.
RevokeDevice(r, d) == IsAdmin(r) /\ Revoke(r, d)
RevokeOwn(r, d) ==
    /\ req[r].step = "authorized" /\ owner[d] = Claims(r).user
    /\ Revoke(r, d)

-----------------------------------------------------------------------------

\* A query fails and the handler answers with an error: what it has written
\* before stays written.
Fail(r) ==
    /\ req[r].step \notin {"idle", "spend"}
    /\ Goes(r, Idle)
    /\ UNCHANGED <<dbVars, consumed, attempts, restVars>>

Tick ==
    /\ now < MaxTime
    /\ now' = now + 1
    /\ UNCHANGED <<dbVars, nodeVars, calls, token, asked, restarts, approved, raced, passes>>

\* The instance restarts: what was under way is gone, so are the flag and the
\* limiter's memory, and main seeds the administrator again.
Restart ==
    /\ restarts < MaxRestarts
    /\ restarts' = restarts + 1
    /\ req' = [r \in Request |-> Idle]
    /\ consumed' = FALSE /\ attempts' = {} /\ passes' = <<>>
    /\ status' = [status EXCEPT ![Admin] = "active"]
    /\ token' = [j \in Jti |-> IF token[j].via = "bootstrap"
                               THEN [user |-> token[j].user, role |-> token[j].role,
                                     via |-> "earlier bootstrap"]
                               ELSE token[j]]
    /\ UNCHANGED <<owner, active, session, challenges, asked, calls, now, approved, raced>>

Next ==
    \/ Tick \/ Restart
    \/ \E c \in Challenge : Expire(c)
    \/ \E u \in User : RequestAccess(u)
    \/ \E r \in Request :
         \/ \E given \in Tokens : BootstrapCheck(r, given)
         \/ BootstrapUser(r) \/ BootstrapSpend(r)
         \/ VerifyDevice(r) \/ Logout(r) \/ Fail(r)
         \/ \E u \in User : RegisterCheck(r, u) \/ ChallengeCheck(r, u)
                              \/ Approve(r, u) \/ Deny(r, u) \/ DenyBulk(r, u)
         \/ \E d \in Device : RegisterDevice(r, d) \/ UploadKeys(r, d)
                                \/ RevokeDevice(r, d) \/ RevokeOwn(r, d)
         \/ \E j \in Jti : Issue(r, j) \/ Authorize(r, j)
         \/ \E c \in Challenge : InsertChallenge(r, c)
                                   \/ \E d \in Device : TakeChallenge(r, c, d)

Spec == Init /\ [][Next]_vars

-----------------------------------------------------------------------------
(***************************************************************************)
(* What the tables promise each other.                                     *)
(***************************************************************************)

Step == {"idle", "register", "issue", "challenge", "verify", "boot", "spend", "authorized"}

\* Every variable in its range; a row that can be used was once handed out: a
\* session with a token, a challenge with a user, an active device with an owner.
TypeOK ==
    /\ status \in [User -> {"unknown", "pending_approval", "active", "denied", "revoked"}]
    /\ owner \in [Device -> User \cup {NoUser}]
    /\ active \subseteq { d \in Device : owner[d] # NoUser }
    /\ session \in [Jti -> [user : User \cup {NoUser}, device : Device \cup {NoDevice}]]
    /\ \A j \in Jti : session[j] # NoRow => token[j] # NoToken
    /\ challenges \subseteq { c \in Challenge : asked[c] # NoUser }
    /\ \A r \in Request : req[r].step \in Step
    /\ consumed \in BOOLEAN
    /\ attempts \subseteq DOMAIN passes /\ Cardinality(attempts) <= RateMax

\* "Invalid or expired challenge" (auth.rs:423): a challenge is good for one
\* login, however many requests answer it at the same time.
ChallengeOnce ==
    \A c \in Challenge, i, j \in Jti : token[i].via = c /\ token[j].via = c => i = j

\* A revoked device has no session ("instant session revocation",
\* migrations/021:2), but for one that was on its way when it was revoked.
RevokedHasNoSession ==
    \A j \in Jti : LET d == session[j].device IN
      d \in Device \ (active \cup raced) => session[j] = NoRow

\* A session is its token's user's, on a device of that user, whatever has
\* been registered, uploaded, revoked or relinked in between.
SessionsMatchDevices ==
    \A j \in Jti : session[j] # NoRow =>
      /\ session[j].user = token[j].user
      /\ session[j].device # NoDevice => owner[session[j].device] = session[j].user

\* A user no administrator ever approved has no device, no challenge, no token.
UnapprovedStaysOut ==
    \A u \in User \ approved :
      /\ \A d \in Device : owner[d] # u
      /\ \A c \in Challenge : asked[c] # u
      /\ \A j \in Jti : token[j].user # u

\* "Admin bootstrap token has already been consumed" (auth.rs:225): until it is,
\* each session it gave is that of a handler which is about to say so; those
\* are as many as requests overlap, and the code allows no others.
BootstrapAccounted ==
    \/ consumed
    \/ Cardinality({ j \in Jti : token[j].via = "bootstrap" })
         <= Cardinality({ r \in Request : req[r].step = "spend" })

\* No window of time lets more than RATE_LIMIT_MAX_REQUESTS requests through
\* that give the setup token and the administrator's address.  (Those with
\* another token are refused without being counted.)
RateLimited ==
    \A t \in 0 .. now :
      Cardinality({ i \in DOMAIN passes : passes[i] \in t - Window + 1 .. t }) <= RateMax

\* What bounds the sessions of requests that give the right setup token: the
\* flag, which those that overlap can all pass, and the limiter, which counts
\* those that passed it.
BootstrapGuarded == BootstrapAccounted /\ RateLimited

\* A session that was ended, by logout or by a revocation, never comes back:
\* not even by a request that had been authorized before.
EndedStaysEnded ==
    [][\A j \in Jti : token[j] # NoToken /\ session[j] = NoRow => session'[j] = NoRow]_vars
=============================================================================
