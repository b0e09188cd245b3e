--------------------------- MODULE Access_proofs ---------------------------
(***************************************************************************)
(* Theorems about Access, for any users, devices, tokens, challenges and   *)
(* requests, and any number of calls and restarts.                         *)
(***************************************************************************)
EXTENDS Access, FiniteSetTheorems, TLAPS

-----------------------------------------------------------------------------
(***************************************************************************)
(* The rows, the tokens and what handlers noted.                           *)
(***************************************************************************)

Via == Challenge \cup {"none", "registration", "bootstrap", "earlier bootstrap"}
Role == {"none", "USER", "ADMIN"}

\* As much of TypeOK as the proofs need: no lengths, no clock.
Rows ==
    /\ status \in [User -> {"unknown", "pending_approval", "active", "denied", "revoked"}]
    /\ owner \in [Device -> User \cup {NoUser}]
    /\ session \in [Jti -> [user : User \cup {NoUser}, device : Device \cup {NoDevice}]]
    /\ token \in [Jti -> [user : User \cup {NoUser}, role : Role, via : Via]]
    /\ asked \in [Challenge -> User \cup {NoUser}]
    /\ challenges \subseteq { c \in Challenge : asked[c] # NoUser }
    /\ req = [r \in Request |-> req[r]]

\* What a handler noted is of its kind, and was there when it looked.
Noted(r) ==
    /\ req[r].step \in Step
    /\ req[r].step \in {"register", "challenge", "verify", "issue"} => req[r].user \in User
    /\ req[r].step = "verify" => req[r].via \in Challenge /\ req[r].device \in Device
    /\ req[r].step = "issue" => /\ req[r].device \in Device \cup {NoDevice}
                                /\ req[r].role \in Role /\ req[r].via \in Via
    /\ req[r].step = "authorized" => req[r].jti \in Jti /\ token[req[r].jti] # NoToken

Typed == Rows /\ \A r \in Request : Noted(r)

\* A handler of a list of users goes on with it, or is done.
LEMMA GoesOn ==
  ASSUME Rows, NEW r \in Request, \E next \in {req[r], Idle} : Goes(r, next)
  PROVE  /\ req' = [i \in Request |-> req'[i]]
         /\ \A i \in Request : req'[i] \in {req[i], Idle}
         /\ Idle.step = "idle"
<1>1. PICK next \in {req[r], Idle} : Goes(r, next)
  OBVIOUS
<1>2. req' = [req EXCEPT ![r] = next]
  BY <1>1 DEF Goes
<1> QED
  BY <1>2 DEF Rows, Idle

\* What a bootstrap request does before its queries.
LEMMA PassesFlag ==
  ASSUME NEW r \in Request, NEW given, BootstrapCheck(r, given)
  PROVE  /\ req' = [req EXCEPT ![r] = [step |-> "boot"]] \/ req' = req
         /\ UNCHANGED <<dbVars, consumed, token, asked, now, restarts, approved, raced>>
<1>1. CASE Allowed
  BY <1>1 DEF BootstrapCheck, Begins
<1>2. CASE ~ Allowed
  BY <1>2 DEF BootstrapCheck
<1> QED
  BY <1>1, <1>2

LEMMA InitTyped == Init => Typed
<1> SUFFICES ASSUME Init PROVE Typed
  OBVIOUS
<1> USE AccessAssumption DEF Init
<1>1. NoRow \in [user : User \cup {NoUser}, device : Device \cup {NoDevice}]
  BY DEF NoRow
<1>2. NoToken \in [user : User \cup {NoUser}, role : Role, via : Via]
  BY DEF NoToken, Role, Via
<1>3. Rows
  BY <1>1, <1>2 DEF Rows
<1>4. \A r \in Request : Noted(r)
  BY DEF Noted, Idle, Step
<1> QED
  BY <1>3, <1>4 DEF Typed

LEMMA StepTyped == Typed /\ [Next]_vars => Typed'
<1> SUFFICES ASSUME Typed, [Next]_vars PROVE Typed'
  OBVIOUS
<1> USE AccessAssumption DEF Typed, Rows, Noted, Step
<1>1. ASSUME Tick PROVE Typed'
  BY <1>1 DEF Tick, nodeVars, histVars, restVars, dbVars
<1>2. ASSUME Restart PROVE Typed'
  <2>1. req' = [r \in Request |-> req'[r]] /\ \A r \in Request : Noted(r)'
    BY <1>2 DEF Restart, Idle
  <2>2. token' \in [Jti -> [user : User \cup {NoUser}, role : Role, via : Via]]
    BY <1>2 DEF Restart, Via
  <2> QED
    BY <1>2, <2>1, <2>2 DEF Restart
<1>3. ASSUME NEW c \in Challenge, Expire(c) PROVE Typed'
  BY <1>3 DEF Expire, nodeVars, histVars, restVars, dbVars
<1>4. ASSUME NEW u \in User, RequestAccess(u) PROVE Typed'
  BY <1>4 DEF RequestAccess, nodeVars, histVars, restVars, dbVars
<1>5. ASSUME NEW r \in Request, NEW given, BootstrapCheck(r, given) PROVE Typed'
  <2>1. UNCHANGED <<dbVars, consumed, token, asked, now, restarts, approved, raced>>
    BY <1>5, PassesFlag
  <2>2. CASE req' = req
    BY <2>1, <2>2 DEF dbVars
  <2>3. CASE req' = [req EXCEPT ![r] = [step |-> "boot"]]
    BY <2>1, <2>3 DEF dbVars
  <2> QED
    BY <1>5, PassesFlag, <2>2, <2>3
<1>6. ASSUME NEW r \in Request, BootstrapUser(r) PROVE Typed'
  BY <1>6 DEF BootstrapUser, Goes, Issuing, Idle, nodeVars, histVars, restVars,
     dbVars, Via, Role
<1>7. ASSUME NEW r \in Request, BootstrapSpend(r) PROVE Typed'
  BY <1>7 DEF BootstrapSpend, Goes, Idle, nodeVars, histVars, restVars, dbVars
<1>8. ASSUME NEW r \in Request, VerifyDevice(r) PROVE Typed'
  BY <1>8 DEF VerifyDevice, Goes, Issuing, RoleOf, Idle, nodeVars, histVars,
     restVars, dbVars, Via, Role
<1>9. ASSUME NEW r \in Request, Logout(r) PROVE Typed'
  BY <1>9 DEF Logout, Goes, NoRow, Idle, nodeVars, histVars, restVars, dbVars
<1>10. ASSUME NEW r \in Request, Fail(r) PROVE Typed'
  BY <1>10 DEF Fail, Goes, Idle, nodeVars, histVars, restVars, dbVars
<1>11. ASSUME NEW r \in Request, NEW u \in User, RegisterCheck(r, u) PROVE Typed'
  BY <1>11 DEF RegisterCheck, Begins, nodeVars, histVars, restVars, dbVars
<1>12. ASSUME NEW r \in Request, NEW u \in User, ChallengeCheck(r, u) PROVE Typed'
  BY <1>12 DEF ChallengeCheck, Begins, nodeVars, histVars, restVars, dbVars
<1>13. ASSUME NEW r \in Request, NEW u \in User, Approve(r, u) PROVE Typed'
  <2>1. \E next \in {req[r], Idle} : Goes(r, next)
    BY <1>13 DEF Approve
  <2>2. /\ req' = [i \in Request |-> req'[i]]
        /\ \A i \in Request : req'[i] \in {req[i], Idle}
        /\ Idle.step = "idle"
    BY <2>1, GoesOn, Zenon
  <2> QED
    BY <1>13, <2>2 DEF Approve
<1>14. ASSUME NEW r \in Request, NEW u \in User, Deny(r, u) PROVE Typed'
  BY <1>14 DEF Deny, Goes, IsAdmin, Idle, nodeVars, histVars, restVars, dbVars
<1>15. ASSUME NEW r \in Request, NEW u \in User, DenyBulk(r, u) PROVE Typed'
  <2>1. \E next \in {req[r], Idle} : Goes(r, next)
    BY <1>15 DEF DenyBulk
  <2>2. /\ req' = [i \in Request |-> req'[i]]
        /\ \A i \in Request : req'[i] \in {req[i], Idle}
        /\ Idle.step = "idle"
    BY <2>1, GoesOn, Zenon
  <2> QED
    BY <1>15, <2>2 DEF DenyBulk, restVars
<1>16. ASSUME NEW r \in Request, NEW d \in Device, RegisterDevice(r, d) PROVE Typed'
  BY <1>16 DEF RegisterDevice, Goes, Issuing, nodeVars, histVars, restVars, dbVars,
     Via, Role
<1>17. ASSUME NEW r \in Request, NEW d \in Device, UploadKeys(r, d) PROVE Typed'
  <2> DEFINE j == req[r].jti
  <2>1. j \in Jti
    BY <1>17 DEF UploadKeys
  <2>2. session' \in [Jti -> [user : User \cup {NoUser}, device : Device \cup {NoDevice}]]
    <3>1. CASE session[j] = NoRow
      BY <1>17, <3>1 DEF UploadKeys, Link
    <3>2. CASE session[j] # NoRow
      <4>1. session' = [session EXCEPT ![j] = [user |-> session[j].user, device |-> d]]
        BY <1>17, <3>2 DEF UploadKeys, Link
      <4> QED
        BY <2>1, <4>1
    <3> QED
      BY <3>1, <3>2
  <2>3. owner' \in [Device -> User \cup {NoUser}]
    BY <1>17, <2>1 DEF UploadKeys, Claims
  <2>4. req' = [req EXCEPT ![r] = Idle]
    BY <1>17 DEF UploadKeys, Goes
  <2> QED
    BY <1>17, <2>2, <2>3, <2>4 DEF UploadKeys, Idle, restVars
<1>18. ASSUME NEW r \in Request, NEW d \in Device, RevokeDevice(r, d) PROVE Typed'
  BY <1>18 DEF RevokeDevice, Revoke, Goes, IsAdmin, Idle, nodeVars, histVars,
     restVars, dbVars, NoRow
<1>19. ASSUME NEW r \in Request, NEW d \in Device, RevokeOwn(r, d) PROVE Typed'
  BY <1>19 DEF RevokeOwn, Revoke, Goes, Claims, Idle, nodeVars, histVars, restVars,
     dbVars, NoRow
<1>20. ASSUME NEW r \in Request, NEW j \in Jti, Issue(r, j) PROVE Typed'
  BY <1>20 DEF Issue, Goes, Idle, nodeVars, histVars, restVars, dbVars, NoToken, Via, Role
<1>21. ASSUME NEW r \in Request, NEW j \in Jti, Authorize(r, j) PROVE Typed'
  BY <1>21 DEF Authorize, Begins, nodeVars, histVars, restVars, dbVars
<1>22. ASSUME NEW r \in Request, NEW c \in Challenge, InsertChallenge(r, c) PROVE Typed'
  BY <1>22 DEF InsertChallenge, Goes, Idle, nodeVars, histVars, restVars, dbVars
<1>23. ASSUME NEW r \in Request, NEW c \in Challenge, NEW d \in Device, TakeChallenge(r, c, d)
      PROVE Typed'
  BY <1>23 DEF TakeChallenge, Begins, nodeVars, histVars, restVars, dbVars
<1>24. CASE UNCHANGED vars
  BY <1>24 DEF vars, dbVars, nodeVars, histVars, restVars
<1> QED
  BY <1>1, <1>2, <1>3, <1>4, <1>5, <1>6, <1>7, <1>8, <1>9, <1>10, <1>11, <1>12,
     <1>13, <1>14, <1>15, <1>16, <1>17, <1>18, <1>19, <1>20, <1>21, <1>22, <1>23,
     <1>24 DEF Next

-----------------------------------------------------------------------------
(***************************************************************************)
(* Nobody gets in without an approval.                                     *)
(***************************************************************************)

\* Whatever names a user as one of ours names an approved one.
Admitted ==
    /\ Admin \in approved
    /\ \A u \in User : status[u] = "active" => u \in approved
    /\ \A d \in Device : owner[d] # NoUser => owner[d] \in approved
    /\ \A c \in Challenge : asked[c] # NoUser => asked[c] \in approved
    /\ \A j \in Jti : token[j] # NoToken => token[j].user \in approved
    /\ \A r \in Request :
         req[r].step \in {"register", "challenge", "verify", "issue"} => req[r].user \in approved

LEMMA StepAdmitted == Typed /\ Admitted /\ [Next]_vars => Admitted'
<1> SUFFICES ASSUME Typed, Admitted, [Next]_vars PROVE Admitted'
  OBVIOUS
<1> USE AccessAssumption DEF Typed, Rows, Noted, Step, Admitted
<1>1. ASSUME Tick PROVE Admitted'
  BY <1>1 DEF Tick, dbVars, nodeVars, histVars, restVars
<1>2. ASSUME Restart PROVE Admitted'
  <2>1. \A r \in Request : req'[r] = Idle
    BY <1>2 DEF Restart
  <2>2. \A j \in Jti : token'[j] # NoToken => token[j] # NoToken /\ token'[j].user = token[j].user
    <3>1. NoToken.via # "bootstrap"
      BY DEF NoToken
    <3> QED
      BY <1>2, <3>1 DEF Restart
  <2>3. \A u \in User : status'[u] = "active" => u = Admin \/ status[u] = "active"
    BY <1>2 DEF Restart
  <2> QED
    BY <1>2, <2>1, <2>2, <2>3 DEF Restart, Idle
<1>3. ASSUME NEW c \in Challenge, Expire(c) PROVE Admitted'
  BY <1>3 DEF Expire, dbVars, nodeVars, histVars, restVars
<1>4. ASSUME NEW u \in User, RequestAccess(u) PROVE Admitted'
  BY <1>4 DEF RequestAccess, dbVars, nodeVars, histVars, restVars
<1>5. ASSUME NEW r \in Request, NEW given, BootstrapCheck(r, given) PROVE Admitted'
  <2>1. UNCHANGED <<dbVars, consumed, token, asked, now, restarts, approved, raced>>
    BY <1>5, PassesFlag
  <2>2. CASE req' = req
    BY <2>1, <2>2 DEF dbVars
  <2>3. CASE req' = [req EXCEPT ![r] = [step |-> "boot"]]
    BY <2>1, <2>3 DEF dbVars
  <2> QED
    BY <1>5, PassesFlag, <2>2, <2>3
<1>6. ASSUME NEW r \in Request, BootstrapUser(r) PROVE Admitted'
  BY <1>6 DEF BootstrapUser, Goes, Issuing, Idle, dbVars, nodeVars, histVars, restVars
<1>7. ASSUME NEW r \in Request, BootstrapSpend(r) PROVE Admitted'
  BY <1>7 DEF BootstrapSpend, Goes, Idle, dbVars, nodeVars, histVars, restVars
<1>8. ASSUME NEW r \in Request, VerifyDevice(r) PROVE Admitted'
  BY <1>8 DEF VerifyDevice, Goes, Issuing, RoleOf, Idle, dbVars, nodeVars, histVars,
     restVars
<1>9. ASSUME NEW r \in Request, Logout(r) PROVE Admitted'
  BY <1>9 DEF Logout, Goes, NoRow, Idle, dbVars, nodeVars, histVars, restVars
<1>10. ASSUME NEW r \in Request, Fail(r) PROVE Admitted'
  BY <1>10 DEF Fail, Goes, Idle, dbVars, nodeVars, histVars, restVars
<1>11. ASSUME NEW r \in Request, NEW u \in User, RegisterCheck(r, u) PROVE Admitted'
  BY <1>11 DEF RegisterCheck, Begins, dbVars, nodeVars, histVars, restVars
<1>12. ASSUME NEW r \in Request, NEW u \in User, ChallengeCheck(r, u) PROVE Admitted'
  BY <1>12 DEF ChallengeCheck, Begins, dbVars, nodeVars, histVars, restVars
<1>13. ASSUME NEW r \in Request, NEW u \in User, Approve(r, u) PROVE Admitted'
  <2>1. \E next \in {req[r], Idle} : Goes(r, next)
    BY <1>13 DEF Approve
  <2>2. /\ req' = [i \in Request |-> req'[i]]
        /\ \A i \in Request : req'[i] \in {req[i], Idle}
        /\ Idle.step = "idle"
    BY <2>1, GoesOn, Zenon
  <2> QED
    BY <1>13, <2>2 DEF Approve
<1>14. ASSUME NEW r \in Request, NEW u \in User, Deny(r, u) PROVE Admitted'
  BY <1>14 DEF Deny, Goes, IsAdmin, Idle, dbVars, nodeVars, histVars, restVars
<1>15. ASSUME NEW r \in Request, NEW u \in User, DenyBulk(r, u) PROVE Admitted'
  <2>1. \E next \in {req[r], Idle} : Goes(r, next)
    BY <1>15 DEF DenyBulk
  <2>2. /\ req' = [i \in Request |-> req'[i]]
        /\ \A i \in Request : req'[i] \in {req[i], Idle}
        /\ Idle.step = "idle"
    BY <2>1, GoesOn, Zenon
  <2> QED
    BY <1>15, <2>2 DEF DenyBulk, restVars
<1>16. ASSUME NEW r \in Request, NEW d \in Device, RegisterDevice(r, d) PROVE Admitted'
  BY <1>16 DEF RegisterDevice, Goes, Issuing, dbVars, nodeVars, histVars, restVars
<1>17. ASSUME NEW r \in Request, NEW d \in Device, UploadKeys(r, d) PROVE Admitted'
  BY <1>17 DEF UploadKeys, Goes, Link, Claims, Idle, dbVars, nodeVars, histVars, restVars
<1>18. ASSUME NEW r \in Request, NEW d \in Device, RevokeDevice(r, d) PROVE Admitted'
  BY <1>18 DEF RevokeDevice, Revoke, Goes, IsAdmin, Idle, dbVars, nodeVars,
     histVars, restVars
<1>19. ASSUME NEW r \in Request, NEW d \in Device, RevokeOwn(r, d) PROVE Admitted'
  BY <1>19 DEF RevokeOwn, Revoke, Goes, Claims, Idle, dbVars, nodeVars, histVars, restVars
<1>20. ASSUME NEW r \in Request, NEW j \in Jti, Issue(r, j) PROVE Admitted'
  BY <1>20 DEF Issue, Goes, Idle, dbVars, nodeVars, histVars, restVars
<1>21. ASSUME NEW r \in Request, NEW j \in Jti, Authorize(r, j) PROVE Admitted'
  BY <1>21 DEF Authorize, Begins, dbVars, nodeVars, histVars, restVars
<1>22. ASSUME NEW r \in Request, NEW c \in Challenge, InsertChallenge(r, c)
      PROVE Admitted'
  BY <1>22 DEF InsertChallenge, Goes, Idle, dbVars, nodeVars, histVars, restVars
<1>23. ASSUME NEW r \in Request, NEW c \in Challenge, NEW d \in Device, TakeChallenge(r, c, d)
      PROVE Admitted'
  BY <1>23 DEF TakeChallenge, Begins, dbVars, nodeVars, histVars, restVars
<1>24. CASE UNCHANGED vars
  BY <1>24 DEF vars, dbVars, nodeVars, histVars, restVars
<1> QED
  BY <1>1, <1>2, <1>3, <1>4, <1>5, <1>6, <1>7, <1>8, <1>9, <1>10, <1>11, <1>12,
     <1>13, <1>14, <1>15, <1>16, <1>17, <1>18, <1>19, <1>20, <1>21, <1>22, <1>23,
     <1>24 DEF Next

LEMMA InitAdmitted == Init => Admitted
<1> SUFFICES ASSUME Init PROVE Admitted
  OBVIOUS
<1>1. /\ Admin \in approved
      /\ \A u \in User : status[u] = "active" => u \in approved
  BY AccessAssumption DEF Init
<1>2. \A r \in Request : req[r].step = "idle"
  BY DEF Init, Idle
<1>3. /\ \A d \in Device : owner[d] = NoUser
      /\ \A c \in Challenge : asked[c] = NoUser
      /\ \A j \in Jti : token[j] = NoToken
  BY DEF Init
<1> QED
  BY <1>1, <1>2, <1>3 DEF Admitted

\* A user no administrator ever approved gets nowhere, whatever requests
\* overlap with approvals, denials and restarts.
THEOREM OnlyTheApproved == Spec => []UnapprovedStaysOut
<1>1. Admitted => UnapprovedStaysOut
  <2> SUFFICES ASSUME Admitted, NEW u \in User \ approved
               PROVE  /\ \A d \in Device : owner[d] # u
                      /\ \A c \in Challenge : asked[c] # u
                      /\ \A j \in Jti : token[j].user # u
    BY DEF UnapprovedStaysOut
  <2>1. u # NoUser /\ NoToken.user = NoUser
    BY AccessAssumption DEF NoToken
  <2> QED
    BY <2>1 DEF Admitted
<1> QED
  BY <1>1, InitTyped, StepTyped, InitAdmitted, StepAdmitted, PTL DEF Spec

-----------------------------------------------------------------------------
(***************************************************************************)
(* Challenges.                                                             *)
(***************************************************************************)

Carries(r, c) == req[r].step \in {"verify", "issue"} /\ req[r].via = c

\* A challenge that was given out is in one place: in the table, with one
\* handler, or in one token; or nowhere any more.
InOnePlace(c) ==
    /\ asked[c] = NoUser \/ c \in challenges =>
         /\ \A r \in Request : ~ Carries(r, c)
         /\ \A j \in Jti : token[j].via # c
    /\ \A r, s \in Request : Carries(r, c) /\ Carries(s, c) => r = s
    /\ \A r \in Request, j \in Jti : ~ (Carries(r, c) /\ token[j].via = c)
    /\ \A i, j \in Jti : token[i].via = c /\ token[j].via = c => i = j

SpentOnce == \A c \in Challenge : InOnePlace(c)

\* Steps that take no challenge on and give none out.
LEMMA SpentKept ==
  ASSUME SpentOnce, asked' = asked, challenges' \subseteq challenges,
         \A j \in Jti, c \in Challenge : token'[j].via = c => token[j].via = c,
         \A r \in Request, c \in Challenge : Carries(r, c)' => Carries(r, c)
  PROVE  SpentOnce'
  BY DEF SpentOnce, InOnePlace

LEMMA StepSpent == Typed /\ SpentOnce /\ [Next]_vars => SpentOnce'
<1> SUFFICES ASSUME Typed, SpentOnce, [Next]_vars PROVE SpentOnce'
  OBVIOUS
<1> USE AccessAssumption DEF Typed, Rows, Noted
<1>1. ASSUME Tick PROVE SpentOnce'
  <2>1. /\ asked' = asked /\ challenges' \subseteq challenges /\ token' = token
        /\ \A i \in Request, k \in Challenge : Carries(i, k)' => Carries(i, k)
    BY <1>1 DEF Carries, Tick, dbVars, nodeVars, histVars, restVars
  <2> QED
    BY <2>1, SpentKept
<1>2. ASSUME Restart PROVE SpentOnce'
  <2>1. /\ asked' = asked /\ challenges' = challenges
        /\ \A i \in Request, k \in Challenge : ~ Carries(i, k)'
    BY <1>2 DEF Restart, Carries, Idle
  <2>2. \A j \in Jti, k \in Challenge : token'[j].via = k => token[j].via = k
    BY <1>2 DEF Restart
  <2> QED
    BY <2>1, <2>2, SpentKept
<1>3. ASSUME NEW c \in Challenge, Expire(c) PROVE SpentOnce'
  <2>1. /\ asked' = asked /\ challenges' \subseteq challenges /\ token' = token
        /\ \A i \in Request, k \in Challenge : Carries(i, k)' => Carries(i, k)
    BY <1>3 DEF Carries, Expire, dbVars, nodeVars, histVars, restVars
  <2> QED
    BY <2>1, SpentKept
<1>4. ASSUME NEW u \in User, RequestAccess(u) PROVE SpentOnce'
  <2>1. /\ asked' = asked /\ challenges' \subseteq challenges /\ token' = token
        /\ \A i \in Request, k \in Challenge : Carries(i, k)' => Carries(i, k)
    BY <1>4 DEF Carries, RequestAccess, dbVars, nodeVars, histVars, restVars
  <2> QED
    BY <2>1, SpentKept
<1>5. ASSUME NEW r \in Request, NEW given, BootstrapCheck(r, given) PROVE SpentOnce'
  <2>1. asked' = asked /\ challenges' = challenges /\ token' = token
    BY <1>5, PassesFlag DEF dbVars
  <2>2. CASE req' = req
    BY <2>1, <2>2, SpentKept DEF Carries
  <2>3. CASE req' = [req EXCEPT ![r] = [step |-> "boot"]]
    <3>1. \A i \in Request, k \in Challenge : Carries(i, k)' => Carries(i, k)
      BY <2>3 DEF Carries
    <3> QED
      BY <2>1, <3>1, SpentKept
  <2> QED
    BY <1>5, PassesFlag, <2>2, <2>3
<1>6. ASSUME NEW r \in Request, BootstrapUser(r) PROVE SpentOnce'
  <2>1. /\ asked' = asked /\ challenges' \subseteq challenges /\ token' = token
        /\ \A i \in Request, k \in Challenge : Carries(i, k)' => Carries(i, k)
    BY <1>6 DEF Carries, BootstrapUser, Goes, Issuing, Idle, dbVars, nodeVars,
       histVars, restVars
  <2> QED
    BY <2>1, SpentKept
<1>7. ASSUME NEW r \in Request, BootstrapSpend(r) PROVE SpentOnce'
  <2>1. /\ asked' = asked /\ challenges' \subseteq challenges /\ token' = token
        /\ \A i \in Request, k \in Challenge : Carries(i, k)' => Carries(i, k)
    BY <1>7 DEF Carries, BootstrapSpend, Goes, Idle, dbVars, nodeVars, histVars, restVars
  <2> QED
    BY <2>1, SpentKept
<1>8. ASSUME NEW r \in Request, VerifyDevice(r) PROVE SpentOnce'
  <2>1. /\ asked' = asked /\ challenges' = challenges /\ token' = token
    BY <1>8 DEF VerifyDevice, dbVars, restVars
  <2>2. \A i \in Request, k \in Challenge : Carries(i, k)' => Carries(i, k)
    <3>1. CASE IsUsable(req[r].user, req[r].device)
      BY <1>8, <3>1 DEF VerifyDevice, Goes, Issuing, Carries
    <3>2. CASE ~ IsUsable(req[r].user, req[r].device)
      BY <1>8, <3>2 DEF VerifyDevice, Goes, Idle, Carries
    <3> QED
      BY <3>1, <3>2
  <2> QED
    BY <2>1, <2>2, SpentKept
<1>9. ASSUME NEW r \in Request, Logout(r) PROVE SpentOnce'
  <2>1. /\ asked' = asked /\ challenges' \subseteq challenges /\ token' = token
        /\ \A i \in Request, k \in Challenge : Carries(i, k)' => Carries(i, k)
    BY <1>9 DEF Carries, Logout, Goes, NoRow, Idle, dbVars, nodeVars, histVars, restVars
  <2> QED
    BY <2>1, SpentKept
<1>10. ASSUME NEW r \in Request, Fail(r) PROVE SpentOnce'
  <2>1. /\ asked' = asked /\ challenges' \subseteq challenges /\ token' = token
        /\ \A i \in Request, k \in Challenge : Carries(i, k)' => Carries(i, k)
    BY <1>10 DEF Carries, Fail, Goes, Idle, dbVars, nodeVars, histVars, restVars
  <2> QED
    BY <2>1, SpentKept
<1>11. ASSUME NEW r \in Request, NEW u \in User, RegisterCheck(r, u) PROVE SpentOnce'
  <2>1. /\ asked' = asked /\ challenges' \subseteq challenges /\ token' = token
        /\ \A i \in Request, k \in Challenge : Carries(i, k)' => Carries(i, k)
    BY <1>11 DEF Carries, RegisterCheck, Begins, dbVars, nodeVars, histVars, restVars
  <2> QED
    BY <2>1, SpentKept
<1>12. ASSUME NEW r \in Request, NEW u \in User, ChallengeCheck(r, u) PROVE SpentOnce'
  <2>1. /\ asked' = asked /\ challenges' \subseteq challenges /\ token' = token
        /\ \A i \in Request, k \in Challenge : Carries(i, k)' => Carries(i, k)
    BY <1>12 DEF Carries, ChallengeCheck, Begins, dbVars, nodeVars, histVars, restVars
  <2> QED
    BY <2>1, SpentKept
<1>13. ASSUME NEW r \in Request, NEW u \in User, Approve(r, u) PROVE SpentOnce'
  <2>1. \E next \in {req[r], Idle} : Goes(r, next)
    BY <1>13 DEF Approve
  <2>2. /\ \A i \in Request : req'[i] \in {req[i], Idle}
        /\ Idle.step = "idle"
    BY <2>1, GoesOn, Zenon
  <2>3. /\ asked' = asked /\ challenges' = challenges /\ token' = token
        /\ \A i \in Request, k \in Challenge : Carries(i, k)' => Carries(i, k)
    BY <1>13, <2>2 DEF Approve, Carries
  <2> QED
    BY <2>3, SpentKept
<1>14. ASSUME NEW r \in Request, NEW u \in User, Deny(r, u) PROVE SpentOnce'
  <2>1. /\ asked' = asked /\ challenges' \subseteq challenges /\ token' = token
        /\ \A i \in Request, k \in Challenge : Carries(i, k)' => Carries(i, k)
    BY <1>14 DEF Carries, Deny, Goes, IsAdmin, Idle, dbVars, nodeVars, histVars, restVars
  <2> QED
    BY <2>1, SpentKept
<1>15. ASSUME NEW r \in Request, NEW u \in User, DenyBulk(r, u) PROVE SpentOnce'
  <2>1. \E next \in {req[r], Idle} : Goes(r, next)
    BY <1>15 DEF DenyBulk
  <2>2. /\ \A i \in Request : req'[i] \in {req[i], Idle}
        /\ Idle.step = "idle"
    BY <2>1, GoesOn, Zenon
  <2>3. /\ asked' = asked /\ challenges' = challenges /\ token' = token
        /\ \A i \in Request, k \in Challenge : Carries(i, k)' => Carries(i, k)
    BY <1>15, <2>2 DEF DenyBulk, restVars, Carries
  <2> QED
    BY <2>3, SpentKept
<1>16. ASSUME NEW r \in Request, NEW d \in Device, RegisterDevice(r, d) PROVE SpentOnce'
  <2>1. /\ asked' = asked /\ challenges' \subseteq challenges /\ token' = token
        /\ \A i \in Request, k \in Challenge : Carries(i, k)' => Carries(i, k)
    BY <1>16 DEF Carries, RegisterDevice, Goes, Issuing, dbVars, nodeVars, histVars,
       restVars
  <2> QED
    BY <2>1, SpentKept
<1>17. ASSUME NEW r \in Request, NEW d \in Device, UploadKeys(r, d) PROVE SpentOnce'
  <2>1. /\ asked' = asked /\ challenges' \subseteq challenges /\ token' = token
        /\ \A i \in Request, k \in Challenge : Carries(i, k)' => Carries(i, k)
    BY <1>17 DEF Carries, UploadKeys, Goes, Link, Claims, Idle, dbVars, nodeVars,
       histVars, restVars
  <2> QED
    BY <2>1, SpentKept
<1>18. ASSUME NEW r \in Request, NEW d \in Device, RevokeDevice(r, d) PROVE SpentOnce'
  <2>1. /\ asked' = asked /\ challenges' \subseteq challenges /\ token' = token
        /\ \A i \in Request, k \in Challenge : Carries(i, k)' => Carries(i, k)
    BY <1>18 DEF Carries, RevokeDevice, Revoke, Goes, IsAdmin, Idle, dbVars,
       nodeVars, histVars, restVars
  <2> QED
    BY <2>1, SpentKept
<1>19. ASSUME NEW r \in Request, NEW d \in Device, RevokeOwn(r, d) PROVE SpentOnce'
  <2>1. /\ asked' = asked /\ challenges' \subseteq challenges /\ token' = token
        /\ \A i \in Request, k \in Challenge : Carries(i, k)' => Carries(i, k)
    BY <1>19 DEF Carries, RevokeOwn, Revoke, Goes, Claims, Idle, dbVars, nodeVars,
       histVars, restVars
  <2> QED
    BY <2>1, SpentKept
<1>20. ASSUME NEW r \in Request, NEW j \in Jti, Issue(r, j) PROVE SpentOnce'
  <2> DEFINE q == req[r]
  <2>1. /\ q.step = "issue" /\ asked' = asked /\ challenges' = challenges
        /\ token' = [token EXCEPT ![j] = [user |-> q.user, role |-> q.role, via |-> q.via]]
    BY <1>20 DEF Issue
  <2>2. /\ req' = [req EXCEPT ![r] = [step |-> "spend"]] \/ req' = [req EXCEPT ![r] = [step |-> "idle"]]
    <3>1. CASE q.via = "bootstrap"
      BY <1>20, <3>1 DEF Issue, Goes
    <3>2. CASE q.via # "bootstrap"
      BY <1>20, <3>2 DEF Issue, Goes, Idle
    <3> QED
      BY <3>1, <3>2
  <2>3. ASSUME NEW i \in Request, NEW k \in Challenge, Carries(i, k)'
        PROVE  i # r /\ Carries(i, k)
    <3>1. req'[r].step \in {"spend", "idle"}
      <4>1. CASE req' = [req EXCEPT ![r] = [step |-> "spend"]]
        BY <4>1
      <4>2. CASE req' = [req EXCEPT ![r] = [step |-> "idle"]]
        BY <4>2
      <4> QED
        BY <2>2, <4>1, <4>2
    <3>2. i # r
      BY <2>3, <3>1 DEF Carries
    <3>3. req'[i] = req[i]
      BY <2>2, <3>2
    <3> QED
      BY <2>3, <3>2, <3>3 DEF Carries
  <2>4. token[j] = NoToken /\ \A k \in Challenge : NoToken.via # k
    BY <1>20 DEF Issue, NoToken
  <2>5. /\ token'[j].via = q.via
        /\ \A i \in Jti : i # j => token'[i] = token[i]
    BY <2>1
  <2>6. ASSUME NEW k \in Challenge PROVE InOnePlace(k)'
    <3>1. InOnePlace(k)
      BY DEF SpentOnce
    <3>2. CASE q.via = k
      <4>1. Carries(r, k)
        BY <2>1, <3>2 DEF Carries
      <4>2. /\ asked[k] # NoUser /\ k \notin challenges
            /\ \A i \in Request : ~ Carries(i, k)'
            /\ \A i \in Jti : token'[i].via = k => i = j
        BY <2>3, <2>5, <3>1, <4>1 DEF InOnePlace
      <4> QED
        BY <2>1, <4>2 DEF InOnePlace
    <3>3. CASE q.via # k
      <4>1. \A i \in Jti : token'[i].via = k => token[i].via = k
        BY <2>5, <3>3
      <4> QED
        BY <2>1, <2>3, <3>1, <4>1 DEF InOnePlace
    <3> QED
      BY <3>2, <3>3
  <2> QED
    BY <2>6 DEF SpentOnce
<1>21. ASSUME NEW r \in Request, NEW j \in Jti, Authorize(r, j) PROVE SpentOnce'
  <2>1. /\ asked' = asked /\ challenges' \subseteq challenges /\ token' = token
        /\ \A i \in Request, k \in Challenge : Carries(i, k)' => Carries(i, k)
    BY <1>21 DEF Carries, Authorize, Begins, dbVars, nodeVars, histVars, restVars
  <2> QED
    BY <2>1, SpentKept
<1>22. ASSUME NEW r \in Request, NEW c \in Challenge, InsertChallenge(r, c)
      PROVE SpentOnce'
  <2>1. /\ asked' = [asked EXCEPT ![c] = req[r].user] /\ asked[c] = NoUser
        /\ challenges' = challenges \cup {c} /\ token' = token
        /\ req' = [req EXCEPT ![r] = Idle]
    BY <1>22 DEF InsertChallenge, Goes
  <2>2. \A i \in Request, k \in Challenge : Carries(i, k)' => Carries(i, k)
    BY <2>1 DEF Carries, Idle
  <2>3. \A k \in Challenge : asked'[k] = NoUser \/ k \in challenges'
          => asked[k] = NoUser \/ k \in challenges
    BY <2>1
  <2> QED
    BY <2>1, <2>2, <2>3 DEF SpentOnce, InOnePlace
<1>23. ASSUME NEW r \in Request, NEW c \in Challenge, NEW d \in Device, TakeChallenge(r, c, d)
      PROVE SpentOnce'
  <2>1. /\ c \in challenges /\ asked[c] # NoUser
        /\ asked' = asked /\ challenges' = challenges \ {c} /\ token' = token
        /\ req' = [req EXCEPT ![r] = [step |-> "verify", user |-> asked[c], device |-> d, via |-> c]]
    BY <1>23 DEF TakeChallenge, Begins, restVars
  <2>2. ASSUME NEW i \in Request, NEW k \in Challenge, Carries(i, k)'
        PROVE  IF i = r THEN k = c ELSE Carries(i, k)
    <3>1. CASE i = r
      BY <2>1, <2>2, <3>1 DEF Carries
    <3>2. CASE i # r
      <4>1. req'[i] = req[i]
        BY <2>1, <3>2
      <4> QED
        BY <2>2, <3>2, <4>1 DEF Carries
    <3> QED
      BY <3>1, <3>2
  <2>3. InOnePlace(c)'
    <3>1. /\ \A i \in Request : ~ Carries(i, c)
          /\ \A i \in Jti : token[i].via # c
      BY <2>1 DEF SpentOnce, InOnePlace
    <3>2. \A i \in Request : Carries(i, c)' => i = r
      BY <2>2, <3>1
    <3> QED
      BY <2>1, <3>1, <3>2 DEF InOnePlace
  <2>4. ASSUME NEW k \in Challenge, k # c PROVE InOnePlace(k)'
    <3>1. InOnePlace(k)
      BY DEF SpentOnce
    <3>2. \A i \in Request : Carries(i, k)' => Carries(i, k)
      BY <2>2, <2>4
    <3> QED
      BY <2>1, <3>1, <3>2 DEF InOnePlace
  <2> QED
    BY <2>3, <2>4 DEF SpentOnce
<1>24. CASE UNCHANGED vars
  BY <1>24, SpentKept DEF vars, dbVars, nodeVars, histVars, restVars, Carries
<1> QED
  BY <1>1, <1>2, <1>3, <1>4, <1>5, <1>6, <1>7, <1>8, <1>9, <1>10, <1>11, <1>12,
     <1>13, <1>14, <1>15, <1>16, <1>17, <1>18, <1>19, <1>20, <1>21, <1>22, <1>23,
     <1>24 DEF Next

LEMMA InitSpent == Init => SpentOnce
<1> SUFFICES ASSUME Init, NEW c \in Challenge PROVE InOnePlace(c)
  BY DEF SpentOnce
<1>1. \A r \in Request : ~ Carries(r, c)
  BY DEF Init, Idle, Carries
<1>2. \A j \in Jti : token[j] = NoToken
  BY DEF Init
<1>3. NoToken.via # c
  BY AccessAssumption DEF NoToken
<1> QED
  BY <1>1, <1>2, <1>3 DEF InOnePlace

\* A challenge is good for one login, however many requests answer it and
\* wherever one of them fails.
THEOREM ChallengeIsSpentOnce == Spec => []ChallengeOnce
<1>1. SpentOnce => ChallengeOnce
  BY DEF SpentOnce, InOnePlace, ChallengeOnce
<1> QED
  BY <1>1, InitTyped, StepTyped, InitSpent, StepSpent, PTL DEF Spec

-----------------------------------------------------------------------------
(***************************************************************************)
(* Sessions and the devices they are on.                                   *)
(***************************************************************************)

\* SessionsMatchDevices, and so will the session of a handler about to insert it.
Owned ==
    /\ SessionsMatchDevices
    /\ \A j \in Jti : session[j] # NoRow => session[j].user \in User
    /\ \A r \in Request :
         req[r].step = "issue" /\ req[r].device # NoDevice => owner[req[r].device] = req[r].user

\* A device somebody registers was nobody's: the rows there are stay right.
LEMMA NewDevice ==
  ASSUME Typed, Owned, NEW d \in Device, NEW u,
         owner[d] = NoUser, owner' = [owner EXCEPT ![d] = u]
  PROVE  /\ owner'[d] = u
         /\ \A j \in Jti : session[j] # NoRow =>
              /\ session[j].user = token[j].user /\ session[j].user \in User
              /\ session[j].device # NoDevice => owner'[session[j].device] = session[j].user
         /\ \A r \in Request : req[r].step = "issue" /\ req[r].device # NoDevice =>
              owner'[req[r].device] = req[r].user
<1>1. owner'[d] = u /\ \A e \in Device : owner[e] # NoUser => owner'[e] = owner[e]
  BY DEF Typed, Rows
<1>2. ASSUME NEW j \in Jti, session[j] # NoRow
      PROVE  /\ session[j].user = token[j].user /\ session[j].user \in User
             /\ session[j].device # NoDevice => owner'[session[j].device] = session[j].user
  <2>1. /\ session[j].user = token[j].user /\ session[j].user \in User
        /\ session[j].device # NoDevice => owner[session[j].device] = session[j].user
    BY <1>2 DEF Owned, SessionsMatchDevices
  <2>2. session[j].device \in Device \cup {NoDevice}
    BY DEF Typed, Rows
  <2> QED
    BY <1>1, <2>1, <2>2, AccessAssumption
<1>3. ASSUME NEW r \in Request, req[r].step = "issue", req[r].device # NoDevice
      PROVE  owner'[req[r].device] = req[r].user
  <2>1. owner[req[r].device] = req[r].user
    BY <1>3 DEF Owned
  <2>2. req[r].user \in User /\ req[r].device \in Device
    BY <1>3 DEF Typed, Noted
  <2> QED
    BY <1>1, <2>1, <2>2, AccessAssumption
<1> QED
  BY <1>1, <1>2, <1>3

LEMMA RegisterOwns ==
  ASSUME Typed, Owned, NEW r \in Request, NEW d \in Device, RegisterDevice(r, d)
  PROVE  Owned'
<1> DEFINE u == req[r].user
<1>1. /\ owner[d] = NoUser /\ owner' = [owner EXCEPT ![d] = u]
      /\ session' = session /\ token' = token
      /\ req' = [req EXCEPT ![r] = Issuing(u, d, "USER", "registration")]
  BY DEF RegisterDevice, Goes, restVars
<1>2. /\ owner'[d] = u
      /\ \A j \in Jti : session[j] # NoRow =>
           /\ session[j].user = token[j].user /\ session[j].user \in User
           /\ session[j].device # NoDevice => owner'[session[j].device] = session[j].user
      /\ \A s \in Request : req[s].step = "issue" /\ req[s].device # NoDevice =>
           owner'[req[s].device] = req[s].user
  BY <1>1, NewDevice
<1>3. ASSUME NEW s \in Request, req'[s].step = "issue", req'[s].device # NoDevice
      PROVE  owner'[req'[s].device] = req'[s].user
  <2>1. CASE s = r
    <3>1. req'[r] = Issuing(u, d, "USER", "registration")
      BY <1>1 DEF Typed, Rows
    <3> QED
      BY <1>2, <2>1, <3>1 DEF Issuing
  <2>2. CASE s # r
    <3>1. req'[s] = req[s]
      BY <1>1, <2>2 DEF Typed, Rows
    <3> QED
      BY <1>2, <1>3, <3>1
  <2> QED
    BY <2>1, <2>2
<1> QED
  BY <1>1, <1>2, <1>3 DEF Owned, SessionsMatchDevices

LEMMA UploadOwns ==
  ASSUME Typed, Owned, NEW r \in Request, NEW d \in Device, UploadKeys(r, d)
  PROVE  Owned'
<1> DEFINE k == req[r].jti
<1>1. /\ owner[d] = NoUser /\ owner' = [owner EXCEPT ![d] = token[k].user]
      /\ session' = Link(k, d) /\ token' = token /\ req' = [req EXCEPT ![r] = Idle]
      /\ req[r].step = "authorized"
  BY DEF UploadKeys, Goes, Claims, restVars
<1>2. k \in Jti
  BY <1>1 DEF Typed, Noted
<1>3. /\ owner'[d] = token[k].user
      /\ \A j \in Jti : session[j] # NoRow =>
           /\ session[j].user = token[j].user /\ session[j].user \in User
           /\ session[j].device # NoDevice => owner'[session[j].device] = session[j].user
      /\ \A s \in Request : req[s].step = "issue" /\ req[s].device # NoDevice =>
           owner'[req[s].device] = req[s].user
  BY <1>1, NewDevice
<1>4. ASSUME NEW j \in Jti, session'[j] # NoRow
      PROVE  /\ session'[j].user = token[j].user /\ session'[j].user \in User
             /\ session'[j].device # NoDevice => owner'[session'[j].device] = session'[j].user
  <2>1. CASE session[k] = NoRow
    BY <1>1, <1>3, <1>4, <2>1 DEF Link
  <2>2. CASE session[k] # NoRow
    <3>1. session' = [session EXCEPT ![k] = [user |-> session[k].user, device |-> d]]
      BY <1>1, <2>2 DEF Link
    <3>2. CASE j = k
      <4>1. session'[j] = [user |-> session[k].user, device |-> d]
        BY <3>1, <3>2 DEF Typed, Rows
      <4>2. session[k].user = token[k].user /\ session[k].user \in User
        BY <1>2, <1>3, <2>2
      <4> QED
        BY <1>3, <3>2, <4>1, <4>2
    <3>3. CASE j # k
      <4>1. session'[j] = session[j]
        BY <3>1, <3>3 DEF Typed, Rows
      <4> QED
        BY <1>3, <1>4, <4>1
    <3> QED
      BY <3>2, <3>3
  <2> QED
    BY <2>1, <2>2
<1>5. ASSUME NEW s \in Request, req'[s].step = "issue"
      PROVE  req'[s] = req[s]
  <2>1. Idle.step # "issue"
    BY DEF Idle
  <2>2. req'[s] \in {req[s], Idle}
    BY <1>1 DEF Typed, Rows
  <2> QED
    BY <1>5, <2>1, <2>2
<1> QED
  BY <1>1, <1>3, <1>4, <1>5 DEF Owned, SessionsMatchDevices

LEMMA StepOwned == Typed /\ Owned /\ [Next]_vars => Owned'
<1> SUFFICES ASSUME Typed, Owned, [Next]_vars PROVE Owned'
  OBVIOUS
<1> USE AccessAssumption DEF Typed, Rows, Noted, Step, Owned, SessionsMatchDevices
<1>1. ASSUME Tick PROVE Owned'
  BY <1>1 DEF Tick, dbVars, nodeVars, histVars, restVars
<1>2. ASSUME Restart PROVE Owned'
  BY <1>2 DEF Restart, Idle, dbVars, nodeVars, histVars, restVars
<1>3. ASSUME NEW c \in Challenge, Expire(c) PROVE Owned'
  BY <1>3 DEF Expire, dbVars, nodeVars, histVars, restVars
<1>4. ASSUME NEW u \in User, RequestAccess(u) PROVE Owned'
  BY <1>4 DEF RequestAccess, dbVars, nodeVars, histVars, restVars
<1>5. ASSUME NEW r \in Request, NEW given, BootstrapCheck(r, given) PROVE Owned'
  <2>1. UNCHANGED <<dbVars, consumed, token, asked, now, restarts, approved, raced>>
    BY <1>5, PassesFlag
  <2>2. CASE req' = req
    BY <2>1, <2>2 DEF dbVars
  <2>3. CASE req' = [req EXCEPT ![r] = [step |-> "boot"]]
    BY <2>1, <2>3 DEF dbVars
  <2> QED
    BY <1>5, PassesFlag, <2>2, <2>3
<1>6. ASSUME NEW r \in Request, BootstrapUser(r) PROVE Owned'
  BY <1>6 DEF BootstrapUser, Goes, Issuing, Idle, dbVars, nodeVars, histVars, restVars
<1>7. ASSUME NEW r \in Request, BootstrapSpend(r) PROVE Owned'
  BY <1>7 DEF BootstrapSpend, Goes, Idle, dbVars, nodeVars, histVars, restVars
<1>8. ASSUME NEW r \in Request, VerifyDevice(r) PROVE Owned'
  <2>1. CASE IsUsable(req[r].user, req[r].device)
    BY <1>8, <2>1 DEF VerifyDevice, Goes, Issuing, IsUsable, dbVars, restVars
  <2>2. CASE ~ IsUsable(req[r].user, req[r].device)
    BY <1>8, <2>2 DEF VerifyDevice, Goes, Idle, dbVars, restVars
  <2> QED
    BY <2>1, <2>2
<1>9. ASSUME NEW r \in Request, Logout(r) PROVE Owned'
  BY <1>9 DEF Logout, Goes, NoRow, Idle, dbVars, nodeVars, histVars, restVars
<1>10. ASSUME NEW r \in Request, Fail(r) PROVE Owned'
  BY <1>10 DEF Fail, Goes, Idle, dbVars, nodeVars, histVars, restVars
<1>11. ASSUME NEW r \in Request, NEW u \in User, RegisterCheck(r, u) PROVE Owned'
  BY <1>11 DEF RegisterCheck, Begins, dbVars, nodeVars, histVars, restVars
<1>12. ASSUME NEW r \in Request, NEW u \in User, ChallengeCheck(r, u) PROVE Owned'
  BY <1>12 DEF ChallengeCheck, Begins, dbVars, nodeVars, histVars, restVars
<1>13. ASSUME NEW r \in Request, NEW u \in User, Approve(r, u) PROVE Owned'
  <2>1. \E next \in {req[r], Idle} : Goes(r, next)
    BY <1>13 DEF Approve
  <2>2. /\ req' = [i \in Request |-> req'[i]]
        /\ \A i \in Request : req'[i] \in {req[i], Idle}
        /\ Idle.step = "idle"
    BY <2>1, GoesOn, Zenon
  <2> QED
    BY <1>13, <2>2 DEF Approve
<1>14. ASSUME NEW r \in Request, NEW u \in User, Deny(r, u) PROVE Owned'
  BY <1>14 DEF Deny, Goes, IsAdmin, Idle, dbVars, nodeVars, histVars, restVars
<1>15. ASSUME NEW r \in Request, NEW u \in User, DenyBulk(r, u) PROVE Owned'
  <2>1. \E next \in {req[r], Idle} : Goes(r, next)
    BY <1>15 DEF DenyBulk
  <2>2. /\ req' = [i \in Request |-> req'[i]]
        /\ \A i \in Request : req'[i] \in {req[i], Idle}
        /\ Idle.step = "idle"
    BY <2>1, GoesOn, Zenon
  <2> QED
    BY <1>15, <2>2 DEF DenyBulk, restVars
<1>16. ASSUME NEW r \in Request, NEW d \in Device, RegisterDevice(r, d) PROVE Owned'
  BY <1>16, RegisterOwns
<1>17. ASSUME NEW r \in Request, NEW d \in Device, UploadKeys(r, d) PROVE Owned'
  BY <1>17, UploadOwns
<1>18. ASSUME NEW r \in Request, NEW d \in Device, RevokeDevice(r, d) PROVE Owned'
  BY <1>18 DEF RevokeDevice, Revoke, Goes, IsAdmin, Idle, dbVars, nodeVars,
     histVars, restVars
<1>19. ASSUME NEW r \in Request, NEW d \in Device, RevokeOwn(r, d) PROVE Owned'
  BY <1>19 DEF RevokeOwn, Revoke, Goes, Claims, Idle, dbVars, nodeVars, histVars, restVars
<1>20. ASSUME NEW r \in Request, NEW j \in Jti, Issue(r, j) PROVE Owned'
  BY <1>20 DEF Issue, Goes, Idle, dbVars, nodeVars, histVars, restVars
<1>21. ASSUME NEW r \in Request, NEW j \in Jti, Authorize(r, j) PROVE Owned'
  BY <1>21 DEF Authorize, Begins, dbVars, nodeVars, histVars, restVars
<1>22. ASSUME NEW r \in Request, NEW c \in Challenge, InsertChallenge(r, c) PROVE Owned'
  BY <1>22 DEF InsertChallenge, Goes, Idle, dbVars, nodeVars, histVars, restVars
<1>23. ASSUME NEW r \in Request, NEW c \in Challenge, NEW d \in Device, TakeChallenge(r, c, d)
      PROVE Owned'
  BY <1>23 DEF TakeChallenge, Begins, dbVars, nodeVars, histVars, restVars
<1>24. CASE UNCHANGED vars
  BY <1>24 DEF vars, dbVars, nodeVars, histVars, restVars
<1> QED
  BY <1>1, <1>2, <1>3, <1>4, <1>5, <1>6, <1>7, <1>8, <1>9, <1>10, <1>11, <1>12,
     <1>13, <1>14, <1>15, <1>16, <1>17, <1>18, <1>19, <1>20, <1>21, <1>22, <1>23,
     <1>24 DEF Next

LEMMA InitOwned == Init => Owned
  BY DEF Init, Owned, SessionsMatchDevices, NoRow, Idle

\* A session is its token's user's, on a device of that user, whatever is
\* registered, uploaded, revoked or relinked in between.
THEOREM SessionsAreOnOwnDevices == Spec => []SessionsMatchDevices
<1>1. Owned => SessionsMatchDevices
  BY DEF Owned
<1> QED
  BY <1>1, InitTyped, StepTyped, InitOwned, StepOwned, PTL DEF Spec

-----------------------------------------------------------------------------
(***************************************************************************)
(* Revocation.                                                             *)
(***************************************************************************)

\* Sessions, and handlers about to insert one, are on devices that are active
\* or were revoked under such a handler.
OnActive ==
    /\ \A j \in Jti : session[j].device \in active \cup raced \cup {NoDevice}
    /\ \A r \in Request :
         req[r].step = "issue" => req[r].device \in active \cup raced \cup {NoDevice}

LEMMA RevokeCuts ==
  ASSUME Typed, OnActive, NEW r \in Request, NEW d \in Device, Revoke(r, d)
  PROVE  OnActive'
<1> USE AccessAssumption DEF Typed, Rows
<1>1. /\ active' = active \ {d} /\ raced \subseteq raced'
      /\ \A s \in Request : req[s].step = "issue" /\ req[s].device = d => d \in raced'
  BY DEF Revoke
<1>2. \A j \in Jti : session'[j].device # d /\ session'[j] \in {session[j], NoRow}
  BY DEF Revoke, NoRow
<1>3. \A s \in Request : req'[s] \in {req[s], Idle} /\ Idle.step = "idle"
  BY DEF Revoke, Goes, Idle
<1>4. ASSUME NEW j \in Jti
      PROVE session'[j].device \in active' \cup raced' \cup {NoDevice}
  <2>1. session[j].device \in active \cup raced \cup {NoDevice} /\ NoRow.device = NoDevice
    BY DEF OnActive, NoRow
  <2> QED
    BY <1>1, <1>2, <2>1
<1>5. ASSUME NEW s \in Request, req'[s].step = "issue"
      PROVE  req'[s].device \in active' \cup raced' \cup {NoDevice}
  <2>1. req'[s] = req[s] /\ req[s].device \in active \cup raced \cup {NoDevice}
    BY <1>3, <1>5 DEF OnActive
  <2> QED
    BY <1>1, <1>5, <2>1
<1> QED
  BY <1>4, <1>5 DEF OnActive

LEMMA StepOnActive == Typed /\ OnActive /\ [Next]_vars => OnActive'
<1> SUFFICES ASSUME Typed, OnActive, [Next]_vars PROVE OnActive'
  OBVIOUS
<1> USE AccessAssumption DEF Typed, Rows, Noted, Step, OnActive
<1>1. ASSUME Tick PROVE OnActive'
  BY <1>1 DEF Tick, dbVars, nodeVars, histVars, restVars
<1>2. ASSUME Restart PROVE OnActive'
  BY <1>2 DEF Restart, Idle, dbVars, nodeVars, histVars, restVars
<1>3. ASSUME NEW c \in Challenge, Expire(c) PROVE OnActive'
  BY <1>3 DEF Expire, dbVars, nodeVars, histVars, restVars
<1>4. ASSUME NEW u \in User, RequestAccess(u) PROVE OnActive'
  BY <1>4 DEF RequestAccess, dbVars, nodeVars, histVars, restVars
<1>5. ASSUME NEW r \in Request, NEW given, BootstrapCheck(r, given) PROVE OnActive'
  <2>1. UNCHANGED <<dbVars, consumed, token, asked, now, restarts, approved, raced>>
    BY <1>5, PassesFlag
  <2>2. CASE req' = req
    BY <2>1, <2>2 DEF dbVars
  <2>3. CASE req' = [req EXCEPT ![r] = [step |-> "boot"]]
    BY <2>1, <2>3 DEF dbVars
  <2> QED
    BY <1>5, PassesFlag, <2>2, <2>3
<1>6. ASSUME NEW r \in Request, BootstrapUser(r) PROVE OnActive'
  BY <1>6 DEF BootstrapUser, Goes, Issuing, Idle, dbVars, nodeVars, histVars, restVars
<1>7. ASSUME NEW r \in Request, BootstrapSpend(r) PROVE OnActive'
  BY <1>7 DEF BootstrapSpend, Goes, Idle, dbVars, nodeVars, histVars, restVars
<1>8. ASSUME NEW r \in Request, VerifyDevice(r) PROVE OnActive'
  <2>1. CASE IsUsable(req[r].user, req[r].device)
    BY <1>8, <2>1 DEF VerifyDevice, Goes, Issuing, IsUsable, dbVars, restVars
  <2>2. CASE ~ IsUsable(req[r].user, req[r].device)
    BY <1>8, <2>2 DEF VerifyDevice, Goes, Idle, dbVars, restVars
  <2> QED
    BY <2>1, <2>2
<1>9. ASSUME NEW r \in Request, Logout(r) PROVE OnActive'
  BY <1>9 DEF Logout, Goes, NoRow, Idle, dbVars, nodeVars, histVars, restVars
<1>10. ASSUME NEW r \in Request, Fail(r) PROVE OnActive'
  BY <1>10 DEF Fail, Goes, Idle, dbVars, nodeVars, histVars, restVars
<1>11. ASSUME NEW r \in Request, NEW u \in User, RegisterCheck(r, u) PROVE OnActive'
  BY <1>11 DEF RegisterCheck, Begins, dbVars, nodeVars, histVars, restVars
<1>12. ASSUME NEW r \in Request, NEW u \in User, ChallengeCheck(r, u) PROVE OnActive'
  BY <1>12 DEF ChallengeCheck, Begins, dbVars, nodeVars, histVars, restVars
<1>13. ASSUME NEW r \in Request, NEW u \in User, Approve(r, u) PROVE OnActive'
  <2>1. \E next \in {req[r], Idle} : Goes(r, next)
    BY <1>13 DEF Approve
  <2>2. /\ req' = [i \in Request |-> req'[i]]
        /\ \A i \in Request : req'[i] \in {req[i], Idle}
        /\ Idle.step = "idle"
    BY <2>1, GoesOn, Zenon
  <2> QED
    BY <1>13, <2>2 DEF Approve
<1>14. ASSUME NEW r \in Request, NEW u \in User, Deny(r, u) PROVE OnActive'
  BY <1>14 DEF Deny, Goes, IsAdmin, Idle, dbVars, nodeVars, histVars, restVars
<1>15. ASSUME NEW r \in Request, NEW u \in User, DenyBulk(r, u) PROVE OnActive'
  <2>1. \E next \in {req[r], Idle} : Goes(r, next)
    BY <1>15 DEF DenyBulk
  <2>2. /\ req' = [i \in Request |-> req'[i]]
        /\ \A i \in Request : req'[i] \in {req[i], Idle}
        /\ Idle.step = "idle"
    BY <2>1, GoesOn, Zenon
  <2> QED
    BY <1>15, <2>2 DEF DenyBulk, restVars
<1>16. ASSUME NEW r \in Request, NEW d \in Device, RegisterDevice(r, d) PROVE OnActive'
  BY <1>16 DEF RegisterDevice, Goes, Issuing, dbVars, nodeVars, histVars, restVars
<1>17. ASSUME NEW r \in Request, NEW d \in Device, UploadKeys(r, d) PROVE OnActive'
  BY <1>17 DEF UploadKeys, Goes, Link, Claims, Idle, dbVars, nodeVars, histVars, restVars
<1>18. ASSUME NEW r \in Request, NEW d \in Device, RevokeDevice(r, d) PROVE OnActive'
  <2>1. Revoke(r, d)
    BY <1>18 DEF RevokeDevice
  <2> QED
    BY <2>1, RevokeCuts
<1>19. ASSUME NEW r \in Request, NEW d \in Device, RevokeOwn(r, d) PROVE OnActive'
  <2>1. Revoke(r, d)
    BY <1>19 DEF RevokeOwn
  <2> QED
    BY <2>1, RevokeCuts
<1>20. ASSUME NEW r \in Request, NEW j \in Jti, Issue(r, j) PROVE OnActive'
  BY <1>20 DEF Issue, Goes, Idle, dbVars, nodeVars, histVars, restVars
<1>21. ASSUME NEW r \in Request, NEW j \in Jti, Authorize(r, j) PROVE OnActive'
  BY <1>21 DEF Authorize, Begins, dbVars, nodeVars, histVars, restVars
<1>22. ASSUME NEW r \in Request, NEW c \in Challenge, InsertChallenge(r, c)
      PROVE OnActive'
  BY <1>22 DEF InsertChallenge, Goes, Idle, dbVars, nodeVars, histVars, restVars
<1>23. ASSUME NEW r \in Request, NEW c \in Challenge, NEW d \in Device, TakeChallenge(r, c, d)
      PROVE OnActive'
  BY <1>23 DEF TakeChallenge, Begins, dbVars, nodeVars, histVars, restVars
<1>24. CASE UNCHANGED vars
  BY <1>24 DEF vars, dbVars, nodeVars, histVars, restVars
<1> QED
  BY <1>1, <1>2, <1>3, <1>4, <1>5, <1>6, <1>7, <1>8, <1>9, <1>10, <1>11, <1>12,
     <1>13, <1>14, <1>15, <1>16, <1>17, <1>18, <1>19, <1>20, <1>21, <1>22, <1>23,
     <1>24 DEF Next

LEMMA InitOnActive == Init => OnActive
  BY DEF Init, OnActive, NoRow, Idle

\* A revoked device has no session, but for one that was on its way to it.
THEOREM RevocationCuts == Spec => []RevokedHasNoSession
<1>1. OnActive => RevokedHasNoSession
  BY AccessAssumption DEF OnActive, RevokedHasNoSession
<1> QED
  BY <1>1, InitTyped, StepTyped, InitOnActive, StepOnActive, PTL DEF Spec

-----------------------------------------------------------------------------
(***************************************************************************)
(* What was ended stays ended.                                             *)
(***************************************************************************)

\* The rows of the tokens that were handed out, in a step.
NoneComesBack ==
    \A j \in Jti : token[j] # NoToken /\ session[j] = NoRow => session'[j] = NoRow

LEMMA StepEnded == Typed /\ [Next]_vars => NoneComesBack
<1> SUFFICES ASSUME Typed, [Next]_vars, NEW k \in Jti, token[k] # NoToken, session[k] = NoRow
             PROVE  session'[k] = NoRow
  BY DEF NoneComesBack
<1> USE DEF Typed, Rows
<1>1. ASSUME \/ Tick \/ Restart
      PROVE  session' = session
  BY <1>1 DEF Tick, Restart, dbVars
<1>2. ASSUME NEW c \in Challenge, Expire(c)
      PROVE  session' = session
  BY <1>2 DEF Expire, dbVars
<1>3. ASSUME NEW u \in User, RequestAccess(u)
      PROVE  session' = session
  BY <1>3 DEF RequestAccess, dbVars
<1>4. ASSUME NEW r \in Request, NEW given,
             \/ BootstrapCheck(r, given) \/ BootstrapUser(r) \/ BootstrapSpend(r)
             \/ VerifyDevice(r) \/ Fail(r)
      PROVE  session' = session
  BY <1>4 DEF BootstrapCheck, BootstrapUser, BootstrapSpend, VerifyDevice, Fail, dbVars
<1>5. ASSUME NEW r \in Request, NEW u \in User,
             \/ RegisterCheck(r, u) \/ ChallengeCheck(r, u) \/ Approve(r, u)
             \/ Deny(r, u) \/ DenyBulk(r, u)
      PROVE  session' = session
  BY <1>5 DEF RegisterCheck, ChallengeCheck, Approve, Deny, DenyBulk, dbVars
<1>6. ASSUME NEW r \in Request, NEW d \in Device, RegisterDevice(r, d)
      PROVE  session' = session
  BY <1>6 DEF RegisterDevice, dbVars
<1>7. ASSUME NEW r \in Request, NEW j \in Jti, Authorize(r, j)
      PROVE  session' = session
  BY <1>7 DEF Authorize, dbVars
<1>8. ASSUME NEW r \in Request, NEW c \in Challenge, InsertChallenge(r, c)
      PROVE  session' = session
  BY <1>8 DEF InsertChallenge, dbVars
<1>9. ASSUME NEW r \in Request, NEW c \in Challenge, NEW d \in Device, TakeChallenge(r, c, d)
      PROVE  session' = session
  BY <1>9 DEF TakeChallenge, dbVars
<1>10. ASSUME NEW r \in Request, Logout(r) PROVE session'[k] = NoRow
  BY <1>10 DEF Logout
<1>11. ASSUME NEW r \in Request, NEW d \in Device, UploadKeys(r, d)
      PROVE session'[k] = NoRow
  <2>1. session' = Link(req[r].jti, d)
    BY <1>11 DEF UploadKeys
  <2>2. CASE session[req[r].jti] = NoRow
    BY <2>1, <2>2 DEF Link
  <2>3. CASE session[req[r].jti] # NoRow
    BY <2>1, <2>3 DEF Link
  <2> QED
    BY <2>2, <2>3
<1>12. ASSUME NEW r \in Request, NEW d \in Device, Revoke(r, d) PROVE session'[k] = NoRow
  BY <1>12 DEF Revoke
<1>13. ASSUME NEW r \in Request, NEW i \in Jti, Issue(r, i) PROVE session'[k] = NoRow
  <2>1. i # k
    BY <1>13 DEF Issue
  <2> QED
    BY <1>13, <2>1 DEF Issue
<1>14. CASE UNCHANGED vars
  BY <1>14 DEF vars, dbVars
<1> QED
  BY <1>1, <1>2, <1>3, <1>4, <1>5, <1>6, <1>7, <1>8, <1>9, <1>10, <1>11, <1>12,
      <1>13, <1>14
     DEF Next, RevokeDevice, RevokeOwn

\* A session that logout or a revocation ended never comes back, not even by a
\* request that was let in before: upload_keys updates a row, or nothing.
THEOREM EndedForGood == Spec => EndedStaysEnded
<1>1. Spec => []Typed
  BY InitTyped, StepTyped, PTL DEF Spec
<1>2. Spec => [][NoneComesBack]_vars
  BY <1>1, StepEnded, PTL DEF Spec
<1> QED
  BY <1>2 DEF EndedStaysEnded, NoneComesBack

-----------------------------------------------------------------------------
(***************************************************************************)
(* The rate limiter: what it forgets is out of every window to come.       *)
(***************************************************************************)

\* The attempts let through in the window that ends at t.
InWindow(ps, t) == { i \in DOMAIN ps : ps[i] \in t - Window + 1 .. t }

\* The limiter still holds every attempt of the window that ends now.
Limiter ==
    /\ now \in Nat /\ passes \in Seq(Nat) /\ attempts \subseteq DOMAIN passes
    /\ \A i \in DOMAIN passes : passes[i] <= now
    /\ \A i \in DOMAIN passes : passes[i] > now - Window => i \in attempts
    /\ \A t \in 0 .. now : Cardinality(InWindow(passes, t)) <= RateMax

LEMMA Numbers == RateMax \in Nat /\ Window \in Nat \ {0}
  BY AccessAssumption

LEMMA NothingCounts == Cardinality({}) <= RateMax
<1>1. Cardinality({}) = 0
  BY FS_EmptySet
<1> QED
  BY <1>1, Numbers

\* The window in numbers.
LEMMA WindowIs ==
  ASSUME NEW ps \in Seq(Nat), NEW t \in Nat
  PROVE  /\ InWindow(ps, t) \subseteq DOMAIN ps
         /\ \A i \in DOMAIN ps :
              i \in InWindow(ps, t) <=> ps[i] > t - Window /\ ps[i] <= t
<1>1. \A i \in DOMAIN ps : ps[i] \in Nat
  OBVIOUS
<1> QED
  BY <1>1, Numbers DEF InWindow

LEMMA WindowIsFinite ==
  ASSUME passes \in Seq(Nat), NEW S \in SUBSET DOMAIN passes
  PROVE  IsFiniteSet(S)
<1>1. Len(passes) \in Nat /\ DOMAIN passes = 1 .. Len(passes)
  OBVIOUS
<1>2. IsFiniteSet(1 .. Len(passes))
  BY <1>1, FS_Interval
<1> QED
  BY <1>1, <1>2, FS_Subset

\* Nothing is in a window of an empty history.
LEMMA NoPasses == passes = <<>> /\ attempts = {} /\ now \in Nat => Limiter
<1> SUFFICES ASSUME passes = <<>>, attempts = {}, now \in Nat PROVE Limiter
  OBVIOUS
<1>1. passes \in Seq(Nat) /\ DOMAIN passes = {}
  OBVIOUS
<1>2. \A t \in 0 .. now : InWindow(passes, t) = {}
  BY <1>1 DEF InWindow
<1>3. \A t \in 0 .. now : Cardinality(InWindow(passes, t)) <= RateMax
  BY <1>2, NothingCounts, Zenon
<1> QED
  BY <1>1, <1>3 DEF Limiter

\* The clock goes on: the window loses attempts and gains none.
LEMMA TickLimiter == Limiter /\ Tick => Limiter'
<1> SUFFICES ASSUME Limiter, Tick PROVE Limiter'
  OBVIOUS
<1>1. now' = now + 1 /\ passes' = passes /\ attempts' = attempts
  BY DEF Tick, nodeVars
<1>2. \A t \in 0 .. now : Cardinality(InWindow(passes', t)) <= RateMax
  BY <1>1 DEF Limiter, InWindow
<1>3. Cardinality(InWindow(passes', now + 1)) <= RateMax
  <2>1. InWindow(passes', now + 1) \subseteq InWindow(passes, now) /\ InWindow(passes, now) \subseteq DOMAIN passes
    <3>1. now \in Nat /\ now + 1 \in Nat /\ passes \in Seq(Nat)
      BY DEF Limiter
    <3>2. InWindow(passes', now + 1) = InWindow(passes, now + 1)
      BY <1>1 DEF InWindow
    <3>3. \A i \in DOMAIN passes : passes[i] \in Nat /\ passes[i] <= now
      BY DEF Limiter
    <3>4. ASSUME NEW i \in DOMAIN passes, i \in InWindow(passes, now + 1) PROVE i \in InWindow(passes, now)
      BY <3>1, <3>3, <3>4, WindowIs, Numbers
    <3> QED
      BY <3>1, <3>2, <3>4, WindowIs
  <2>2. IsFiniteSet(InWindow(passes, now))
    BY <2>1, WindowIsFinite DEF Limiter
  <2>3. IsFiniteSet(InWindow(passes', now + 1)) /\ Cardinality(InWindow(passes', now + 1)) <= Cardinality(InWindow(passes, now))
    BY <2>1, <2>2, FS_Subset
  <2>4. Cardinality(InWindow(passes, now)) <= RateMax
    BY DEF Limiter
  <2>5. Cardinality(InWindow(passes, now)) \in Nat /\ Cardinality(InWindow(passes', now + 1)) \in Nat /\ RateMax \in Nat
    BY <2>2, <2>3, FS_CardinalityType, Numbers
  <2> QED
    BY <2>3, <2>4, <2>5
<1>4. \A t \in 0 .. now' : t \in 0 .. now \/ t = now + 1
  BY <1>1 DEF Limiter
<1>5. \A t \in 0 .. now' : Cardinality(InWindow(passes', t)) <= RateMax
  BY <1>2, <1>3, <1>4
<1>6. \A i \in DOMAIN passes' : passes'[i] > now' - Window => i \in attempts'
  BY <1>1, Numbers DEF Limiter
<1>7. /\ now' \in Nat /\ passes' \in Seq(Nat) /\ attempts' \subseteq DOMAIN passes'
      /\ \A i \in DOMAIN passes' : passes'[i] <= now'
  BY <1>1 DEF Limiter
<1> QED
  BY <1>5, <1>6, <1>7 DEF Limiter

\* An attempt is let through: there was room for it in the window.
LEMMA PassLimiter ==
  ASSUME Limiter, Allowed, now' = now, passes' = Append(passes, now),
         attempts' = Recent \cup {Len(passes')}
  PROVE  Limiter'
<1> DEFINE n == Len(passes) + 1
<1>1. /\ passes' \in Seq(Nat) /\ Len(passes') = n /\ n \in Nat \ {0}
      /\ DOMAIN passes = 1 .. n - 1 /\ DOMAIN passes' = 1 .. n
      /\ passes'[n] = now /\ \A i \in 1 .. n - 1 : passes'[i] = passes[i]
  BY DEF Limiter
<1> HIDE DEF n
<1>2. now' \in Nat /\ attempts' \subseteq DOMAIN passes'
  BY <1>1 DEF Limiter, Recent
<1>3. \A i \in DOMAIN passes' : i = n \/ i \in DOMAIN passes
  BY <1>1
<1>4. \A i \in DOMAIN passes' : passes'[i] <= now'
  BY <1>1, <1>3 DEF Limiter
<1>5. \A i \in DOMAIN passes' : passes'[i] > now' - Window => i \in attempts'
  BY <1>1, <1>3 DEF Limiter, Recent
<1>6. \A t \in Nat :
         /\ InWindow(passes, t) \subseteq 1 .. n - 1
         /\ \A i \in 1 .. n - 1 :
              i \in InWindow(passes, t) <=> passes[i] > t - Window /\ passes[i] <= t
  <2>1. passes \in Seq(Nat)
    BY DEF Limiter
  <2>2. \A t \in Nat :
           /\ InWindow(passes, t) \subseteq DOMAIN passes
           /\ \A i \in DOMAIN passes :
                i \in InWindow(passes, t) <=> passes[i] > t - Window /\ passes[i] <= t
    BY <2>1, WindowIs
  <2> QED
    BY <1>1, <2>2, Zenon
<1>7. \A t \in Nat :
         /\ InWindow(passes', t) \subseteq 1 .. n
         /\ \A i \in 1 .. n :
              i \in InWindow(passes', t) <=> passes'[i] > t - Window /\ passes'[i] <= t
  <2>1. passes' \in Seq(Nat)
    BY <1>1
  <2>2. \A t \in Nat :
           /\ InWindow(passes', t) \subseteq DOMAIN passes'
           /\ \A i \in DOMAIN passes' :
                i \in InWindow(passes', t) <=> passes'[i] > t - Window /\ passes'[i] <= t
    BY <2>1, WindowIs
  <2> QED
    BY <1>1, <2>2, Zenon
<1>8. ASSUME NEW t \in 0 .. now', t # now PROVE Cardinality(InWindow(passes', t)) <= RateMax
  <2>1. t \in 0 .. now /\ t < now /\ t \in Nat
    BY <1>8 DEF Limiter
  <2>2. \A i \in 1 .. n - 1 : i \in InWindow(passes', t) <=> i \in InWindow(passes, t)
    BY <1>1, <1>6, <1>7, <2>1
  <2>3. n \notin InWindow(passes', t)
    BY <1>1, <1>7, <2>1 DEF Limiter
  <2>4. InWindow(passes', t) \subseteq 1 .. n /\ InWindow(passes, t) \subseteq 1 .. n - 1
    BY <1>6, <1>7, <2>1
  <2>5. \A i : i \in InWindow(passes', t) <=> i \in InWindow(passes, t)
    BY <1>1, <2>2, <2>3, <2>4
  <2>6. InWindow(passes', t) = InWindow(passes, t)
    BY <2>5
  <2> QED
    BY <2>1, <2>6 DEF Limiter
<1>9. Cardinality(InWindow(passes', now)) <= RateMax
  <2>1. InWindow(passes', now) = Recent \cup {n}
    <3>1. now \in Nat /\ Recent \subseteq 1 .. n - 1
      BY <1>1 DEF Recent, Limiter
    <3>2. \A i \in 1 .. n - 1 : i \in InWindow(passes', now) <=> i \in Recent
      BY <1>1, <1>7, <3>1 DEF Recent, Limiter
    <3>3. n \in InWindow(passes', now)
      BY <1>1, <1>7, <3>1, Numbers
    <3> QED
      <4>1. InWindow(passes', now) \subseteq 1 .. n
        BY <1>7, <3>1
      <4>2. \A i : i \in InWindow(passes', now) <=> i \in Recent \/ i = n
        <5>1. \A i : i \in 1 .. n <=> i \in 1 .. n - 1 \/ i = n
          BY <1>1
        <5> QED
          BY <3>1, <3>2, <3>3, <4>1, <5>1, Zenon
      <4> QED
        BY <4>2
  <2>2. IsFiniteSet(Recent)
    BY WindowIsFinite DEF Limiter, Recent
  <2>3. n \notin Recent
    BY <1>1 DEF Recent, Limiter
  <2>4. Cardinality(Recent \cup {n}) = Cardinality(Recent) + 1
    BY <2>2, <2>3, FS_AddElement
  <2>5. Cardinality(Recent) \in Nat /\ RateMax \in Nat
    BY <2>2, FS_CardinalityType, Numbers
  <2> QED
    BY <2>1, <2>4, <2>5 DEF Allowed
<1>10. \A t \in 0 .. now' : Cardinality(InWindow(passes', t)) <= RateMax
  BY <1>8, <1>9
<1> QED
  BY <1>1, <1>2, <1>4, <1>5, <1>10 DEF Limiter

\* The limiter forgets what is out of the window, and no more.
LEMMA ForgetLimiter ==
  ASSUME Limiter, UNCHANGED <<now, passes>>, attempts' \in {attempts, Recent}
  PROVE  Limiter'
<1>1. attempts' \subseteq DOMAIN passes'
  BY DEF Limiter, Recent
<1>2. \A i \in DOMAIN passes' : passes'[i] > now' - Window => i \in attempts'
  BY DEF Limiter, Recent
<1>3. \A t \in 0 .. now' : Cardinality(InWindow(passes', t)) <= RateMax
  BY DEF Limiter, InWindow
<1> QED
  BY <1>1, <1>2, <1>3 DEF Limiter

LEMMA InitLimiter == Init => Limiter
  BY NoPasses DEF Init

LEMMA StepLimiter == Limiter /\ [Next]_vars => Limiter'
<1> SUFFICES ASSUME Limiter, [Next]_vars PROVE Limiter'
  OBVIOUS
<1>1. CASE Tick
  BY <1>1, TickLimiter
<1>2. CASE Restart
  <2>1. passes' = <<>> /\ attempts' = {} /\ now' \in Nat
    BY <1>2 DEF Restart, Limiter
  <2>2. DOMAIN passes' = {}
    BY <2>1
  <2>3. \A t \in 0 .. now' : InWindow(passes', t) = {}
    BY <2>2 DEF InWindow
  <2>4. \A t \in 0 .. now' : Cardinality(InWindow(passes', t)) <= RateMax
    BY <2>3, NothingCounts, Zenon
  <2>5. passes' \in Seq(Nat)
    BY <2>1
  <2> QED
    BY <2>1, <2>2, <2>4, <2>5 DEF Limiter, InWindow
<1>3. ASSUME NEW r \in Request, NEW given, BootstrapCheck(r, given) PROVE Limiter'
  <2>1. now' = now
    BY <1>3 DEF BootstrapCheck
  <2>2. CASE Allowed
    <3>1. passes' = Append(passes, now) /\ attempts' = Recent \cup {Len(passes')}
      BY <1>3, <2>2 DEF BootstrapCheck
    <3> QED
      BY <2>1, <2>2, <3>1, PassLimiter
  <2>3. CASE ~ Allowed
    <3>1. UNCHANGED <<now, passes>> /\ attempts' = Recent
      BY <1>3, <2>1, <2>3 DEF BootstrapCheck
    <3> QED
      BY <3>1, ForgetLimiter
  <2> QED
    BY <2>2, <2>3
<1> DEFINE Still == UNCHANGED <<now, passes, attempts>>
<1>4. ASSUME NEW c \in Challenge, Expire(c) PROVE Still
  BY <1>4 DEF Expire, nodeVars, histVars, restVars
<1>5. ASSUME NEW u \in User, RequestAccess(u) PROVE Still
  BY <1>5 DEF RequestAccess, nodeVars, histVars, restVars
<1>6. ASSUME NEW r \in Request,
             \/ BootstrapUser(r) \/ BootstrapSpend(r)
             \/ VerifyDevice(r) \/ Logout(r) \/ Fail(r)
      PROVE  Still
  BY <1>6 DEF BootstrapUser, BootstrapSpend, VerifyDevice, Logout, Fail, restVars
<1>7. ASSUME NEW r \in Request, NEW u \in User,
             \/ RegisterCheck(r, u) \/ ChallengeCheck(r, u) \/ Approve(r, u)
             \/ Deny(r, u) \/ DenyBulk(r, u)
      PROVE  Still
  BY <1>7 DEF RegisterCheck, ChallengeCheck, Approve, Deny, DenyBulk, restVars
<1>8. ASSUME NEW r \in Request, NEW d \in Device,
             RegisterDevice(r, d) \/ UploadKeys(r, d) \/ RevokeDevice(r, d) \/ RevokeOwn(r, d)
      PROVE  Still
  BY <1>8 DEF RegisterDevice, UploadKeys, RevokeDevice, RevokeOwn, Revoke, restVars
<1>9. ASSUME NEW r \in Request, NEW j \in Jti, Issue(r, j) \/ Authorize(r, j)
      PROVE  Still
  BY <1>9 DEF Issue, Authorize, restVars
<1>10. ASSUME NEW r \in Request, NEW c \in Challenge,
              InsertChallenge(r, c) \/ \E d \in Device : TakeChallenge(r, c, d)
       PROVE  Still
  BY <1>10 DEF InsertChallenge, TakeChallenge, restVars
<1>11. CASE UNCHANGED vars
  BY <1>11, ForgetLimiter DEF vars, nodeVars, histVars, restVars
<1>12. CASE Still
  BY <1>12, ForgetLimiter
<1> HIDE DEF Still
<1> QED
  BY <1>1, <1>2, <1>3, <1>4, <1>5, <1>6, <1>7, <1>8, <1>9, <1>10, <1>11, <1>12 DEF Next

\* No window of the clock sees more attempts than the limiter's number, since
\* the start of the instance: at its edge too it counts whom it lets through.
LEMMA LimiterBounds == Limiter => RateLimited
  BY DEF Limiter, RateLimited, InWindow

-----------------------------------------------------------------------------
(***************************************************************************)
(* The bootstrap: the flag comes last, and every handler on its way to it  *)
(* has given one session.                                                  *)
(***************************************************************************)

Given == { j \in Jti : token[j].via = "bootstrap" }
Spenders == { r \in Request : req[r].step = "spend" }

Accounted ==
    /\ IsFiniteSet(Given) /\ IsFiniteSet(Spenders)
    /\ consumed \/ Cardinality(Given) <= Cardinality(Spenders)

LEMMA InitAccounted == Init => Accounted
<1> SUFFICES ASSUME Init PROVE Accounted
  OBVIOUS
<1>1. Given = {} /\ Spenders = {}
  BY DEF Init, Given, Spenders, NoToken, Idle
<1> QED
  BY <1>1, FS_EmptySet DEF Accounted

\* A step that touches neither the tokens nor a handler that is to spend.
LEMMA AccountedKept ==
  ASSUME Accounted, token' = token, consumed' = consumed,
         \A r \in Request : req'[r].step = "spend" <=> req[r].step = "spend"
  PROVE  Accounted'
<1>1. Given' = Given /\ Spenders' = Spenders
  BY DEF Given, Spenders
<1> QED
  BY <1>1 DEF Accounted

LEMMA IssueAccounted ==
  ASSUME Typed, Accounted, NEW r \in Request, NEW j \in Jti, Issue(r, j)
  PROVE  Accounted'
<1> DEFINE q == req[r]
<1>1. /\ q.step = "issue" /\ token[j] = NoToken /\ consumed' = consumed
      /\ token' = [token EXCEPT ![j] = [user |-> q.user, role |-> q.role, via |-> q.via]]
  BY DEF Issue
<1>2. token'[j].via = q.via /\ \A k \in Jti : k # j => token'[k] = token[k]
  BY <1>1 DEF Typed, Rows
<1>3. j \notin Given /\ r \notin Spenders
  BY <1>1 DEF Given, Spenders, NoToken
<1>4. CASE q.via = "bootstrap"
  <2>1. req' = [req EXCEPT ![r] = [step |-> "spend"]]
    BY <1>4 DEF Issue, Goes
  <2>2. Given' = Given \cup {j}
    BY <1>2, <1>4 DEF Given
  <2>3. Spenders' = Spenders \cup {r}
    BY <2>1 DEF Spenders, Typed, Rows
  <2>4. /\ IsFiniteSet(Given') /\ Cardinality(Given') = Cardinality(Given) + 1
        /\ IsFiniteSet(Spenders') /\ Cardinality(Spenders') = Cardinality(Spenders) + 1
    BY <1>3, <2>2, <2>3, FS_AddElement DEF Accounted
  <2>5. Cardinality(Given) \in Nat /\ Cardinality(Spenders) \in Nat
    BY FS_CardinalityType DEF Accounted
  <2> QED
    BY <1>1, <2>4, <2>5 DEF Accounted
<1>5. CASE q.via # "bootstrap"
  <2>1. req' = [req EXCEPT ![r] = Idle]
    BY <1>5 DEF Issue, Goes
  <2>2. Given' = Given
    BY <1>2, <1>3, <1>5 DEF Given
  <2>3. Spenders' = Spenders
    BY <1>1, <2>1 DEF Spenders, Typed, Rows, Idle
  <2> QED
    BY <1>1, <2>2, <2>3 DEF Accounted
<1> QED
  BY <1>4, <1>5

LEMMA StepAccounted == Typed /\ Accounted /\ [Next]_vars => Accounted'
<1> SUFFICES ASSUME Typed, Accounted, [Next]_vars PROVE Accounted'
  OBVIOUS
<1> DEFINE Still == /\ token' = token /\ consumed' = consumed
                    /\ \A r \in Request : req'[r].step = "spend" <=> req[r].step = "spend"
<1>1. ASSUME NEW r \in Request, NEW j \in Jti, Issue(r, j) PROVE Accounted'
  BY <1>1, IssueAccounted
<1>2. CASE Restart
  <2>1. \A j \in Jti : token'[j].via # "bootstrap"
    BY <1>2 DEF Restart
  <2>2. \A r \in Request : req'[r].step = "idle"
    BY <1>2 DEF Restart, Idle
  <2>3. Given' = {} /\ Spenders' = {}
    BY <2>1, <2>2 DEF Given, Spenders
  <2> QED
    BY <2>3, FS_EmptySet DEF Accounted
<1>3. ASSUME NEW r \in Request, BootstrapSpend(r) PROVE Accounted'
  <2>1. consumed' = TRUE /\ token' = token
    BY <1>3 DEF BootstrapSpend, restVars
  <2>2. Given' = Given
    BY <2>1 DEF Given
  <2>3. Spenders' \subseteq Spenders
    BY <1>3 DEF BootstrapSpend, Goes, Idle, Spenders, Typed, Rows
  <2> QED
    BY <2>1, <2>2, <2>3, FS_Subset DEF Accounted
<1>4. ASSUME NEW r \in Request, NEW given, BootstrapCheck(r, given) PROVE Still
  <2>1. token' = token /\ consumed' = consumed
    BY <1>4, PassesFlag
  <2>2. CASE req' = req
    BY <2>1, <2>2
  <2>3. CASE req' # req
    <3>1. CASE Allowed
      BY <1>4, <2>1, <3>1 DEF BootstrapCheck, Begins, Idle, Typed, Rows
    <3>2. CASE ~ Allowed
      BY <1>4, <2>3, <3>2 DEF BootstrapCheck
    <3> QED
      BY <3>1, <3>2
  <2> QED
    BY <2>2, <2>3
<1>5. ASSUME NEW c \in Challenge, Expire(c) PROVE Still
  BY <1>5 DEF Expire, nodeVars, histVars, restVars
<1>6. ASSUME NEW u \in User, RequestAccess(u) PROVE Still
  BY <1>6 DEF RequestAccess, nodeVars, histVars, restVars
<1> USE DEF Typed, Rows, Goes, Begins, Idle, Issuing, restVars
<1>7. ASSUME NEW r \in Request, BootstrapUser(r) PROVE Still
  BY <1>7 DEF BootstrapUser
<1>8. ASSUME NEW r \in Request, VerifyDevice(r) PROVE Still
  BY <1>8 DEF VerifyDevice
<1>9. ASSUME NEW r \in Request, Logout(r) PROVE Still
  BY <1>9 DEF Logout
<1>10. ASSUME NEW r \in Request, Fail(r) PROVE Still
  BY <1>10 DEF Fail
<1>11. ASSUME NEW r \in Request, NEW u \in User, RegisterCheck(r, u) \/ ChallengeCheck(r, u)
       PROVE  Still
  BY <1>11 DEF RegisterCheck, ChallengeCheck
<1>12. ASSUME NEW r \in Request, NEW u \in User, Approve(r, u) PROVE Still
  <2>1. req[r].step = "authorized" /\ token' = token /\ consumed' = consumed
    BY <1>12 DEF Approve, IsAdmin
  <2>2. PICK next \in {req[r], Idle} : req' = [req EXCEPT ![r] = next]
    BY <1>12 DEF Approve
  <2>3. next.step # "spend"
    BY <2>1, <2>2
  <2> QED
    BY <2>1, <2>2, <2>3
<1>13. ASSUME NEW r \in Request, NEW u \in User, Deny(r, u) PROVE Still
  BY <1>13 DEF Deny, IsAdmin
<1>14. ASSUME NEW r \in Request, NEW u \in User, DenyBulk(r, u) PROVE Still
  <2>1. req[r].step = "authorized" /\ token' = token /\ consumed' = consumed
    BY <1>14 DEF DenyBulk, IsAdmin
  <2>2. PICK next \in {req[r], Idle} : req' = [req EXCEPT ![r] = next]
    BY <1>14 DEF DenyBulk
  <2>3. next.step # "spend"
    BY <2>1, <2>2
  <2> QED
    BY <2>1, <2>2, <2>3
<1>15. ASSUME NEW r \in Request, NEW d \in Device, RegisterDevice(r, d) PROVE Still
  BY <1>15 DEF RegisterDevice
<1>16. ASSUME NEW r \in Request, NEW d \in Device, UploadKeys(r, d) PROVE Still
  BY <1>16 DEF UploadKeys
<1>17. ASSUME NEW r \in Request, NEW d \in Device, RevokeDevice(r, d) PROVE Still
  BY <1>17 DEF RevokeDevice, Revoke, IsAdmin
<1>18. ASSUME NEW r \in Request, NEW d \in Device, RevokeOwn(r, d) PROVE Still
  BY <1>18 DEF RevokeOwn, Revoke
<1>19. ASSUME NEW r \in Request, NEW j \in Jti, Authorize(r, j) PROVE Still
  BY <1>19 DEF Authorize
<1>20. ASSUME NEW r \in Request, NEW c \in Challenge, InsertChallenge(r, c) PROVE Still
  BY <1>20 DEF InsertChallenge
<1>21. ASSUME NEW r \in Request, NEW c \in Challenge, NEW d \in Device, TakeChallenge(r, c, d)
       PROVE Still
  BY <1>21 DEF TakeChallenge
<1>22. Tick => Still
  BY DEF Tick, nodeVars
<1>23. UNCHANGED vars => Still
  BY DEF vars, nodeVars, histVars
<1>24. CASE Still
  BY <1>24, AccountedKept
<1> HIDE DEF Still
<1> QED
  BY <1>1, <1>2, <1>3, <1>4, <1>5, <1>6, <1>7, <1>8, <1>9, <1>10, <1>11, <1>12,
     <1>13, <1>14, <1>15, <1>16, <1>17, <1>18, <1>19, <1>20, <1>21, <1>22, <1>23,
     <1>24 DEF Next

\* Until the flag is set, the bootstrap has given no more sessions than there
\* are handlers about to set it; and the limiter in front of it lets no more
\* through a window than its number, whatever the clock and the requests do.
THEOREM BootstrapIsGuarded == Spec => []BootstrapGuarded
<1>1. Accounted => BootstrapAccounted
  BY DEF Accounted, BootstrapAccounted, Given, Spenders
<1>2. Limiter /\ Accounted => BootstrapGuarded
  BY <1>1, LimiterBounds DEF BootstrapGuarded
<1> QED
  BY <1>2, InitTyped, StepTyped, InitLimiter, StepLimiter, InitAccounted, StepAccounted,
     PTL DEF Spec

=============================================================================
