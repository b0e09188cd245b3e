-------------------------------- MODULE Outbox --------------------------------
(***************************************************************************)
(* What the client of one user does with its messages around the ratchet:  *)
(* the rows of messages and of edits in the vault, the list on the screen  *)
(* with its temporary ids, the badges, and the handlers that change them.  *)
(* A handler is a job cut at its awaits; jobs come in any order.           *)
(*                                                                         *)
(* Encryption is Conversation's subject, the queue and the connections are *)
(* Socket's, the server is Router's: here a message given to send() may be *)
(* stored at any later time or never, events about a stored one may come   *)
(* at any time, and a message that arrives could be opened.                *)
(***************************************************************************)
EXTENDS Integers, Sequences, FiniteSets, SequencesExt

CONSTANTS
    Msg,        \* messages this client sends; bound: one edit of each
    In,         \* messages it receives
    Contact, NoContact,
    MaxJobs,    \* bound: handlers under way at one time
    MaxOpens,   \* bound: conversations opened
    MaxFaults,  \* bound: calls that fail
    MaxBoots    \* bound: restarts of the process, and sign-outs

ASSUME OutboxAssumption ==
    /\ NoContact \notin Contact /\ Msg \cap In = {}
    /\ {MaxJobs, MaxOpens, MaxFaults, MaxBoots} \subseteq Nat
    /\ IsFiniteSet(Msg) /\ IsFiniteSet(In)

VARIABLES
    \* own messages given to send(), and those the server has stored; the
    \* events about them that have been sent
    emitted, stored, confirmed, delivered,
    \* the vault: rows of own and of received messages, rows of edits
    row, got, event,
    \* the stores and the components
    signedIn, active, list, unread, mapped, devices,
    jobs,
    \* bounds and history
    opens, faults, boots,
    loaded,     \* the contact whose history the list was last set to
    crossed     \* since the last opening, a load has overlapped a load or a send

serverVars == <<emitted, stored, confirmed, delivered>>
vaultVars == <<row, got, event>>
screenVars == <<signedIn, active, list, unread, mapped, devices>>
boundVars == <<opens, faults, boots, loaded, crossed>>
vars == <<serverVars, vaultVars, screenVars, jobs, boundVars>>

NoRow == [at |-> NoContact, id |-> "temp", st |-> "sending"]

Init ==
    /\ emitted = {} /\ stored = {} /\ confirmed = {} /\ delivered = {}
    /\ row = [m \in Msg |-> NoRow] /\ got = [i \in In |-> NoContact]
    /\ event = [m \in Msg |-> "none"]
    /\ signedIn = FALSE /\ active = NoContact /\ list = <<>>
    /\ unread = [c \in Contact |-> 0] /\ mapped = {} /\ devices = {}
    /\ jobs = {} /\ opens = 0 /\ faults = 0 /\ boots = 0
    /\ loaded = NoContact /\ crossed = FALSE

Fault == faults < MaxFaults /\ faults' = faults + 1

Starts(j) == Cardinality(jobs) < MaxJobs /\ jobs' = jobs \cup {j}
Becomes(j, step) == jobs' = (jobs \ {j}) \cup {[j EXCEPT !.step = step]}
Ends(j) == jobs' = jobs \ {j}
Works(kinds) == \E j \in jobs : j.kind \in kinds

-----------------------------------------------------------------------------
(***************************************************************************)
(* The session.                                                            *)
(***************************************************************************)

SignIn ==
    /\ ~ signedIn /\ signedIn' = TRUE
    /\ UNCHANGED <<serverVars, vaultVars, active, list, unread, mapped, devices, jobs,
                   boundVars>>

\* handleLogout after the API's answer.  The active contact and the badges stay.
SignOut ==
    /\ signedIn /\ boots < MaxBoots /\ boots' = boots + 1
    /\ signedIn' = FALSE /\ list' = <<>> /\ loaded' = NoContact
    /\ UNCHANGED <<serverVars, vaultVars, active, unread, mapped, devices, jobs, opens,
                   faults, crossed>>

-----------------------------------------------------------------------------
(***************************************************************************)
(* The server, as the client sees it.                                      *)
(***************************************************************************)

Serve(m) ==
    /\ m \in emitted \ stored /\ stored' = stored \cup {m}
    /\ UNCHANGED <<emitted, confirmed, delivered, vaultVars, screenVars, jobs, boundVars>>

\* resolveLocalMessageId.
LocalId(m) == IF m \in mapped THEN "temp" ELSE "server"

ConfirmArrives(m) ==
    /\ m \in stored \ confirmed /\ confirmed' = confirmed \cup {m}
    /\ mapped' = mapped \cup {m}
    /\ Starts([kind |-> "confirm", of |-> m, step |-> "vault"])
    /\ UNCHANGED <<emitted, stored, delivered, vaultVars, signedIn, active, list, unread,
                   devices, boundVars>>

StatusArrives(m) ==
    /\ m \in stored \ delivered /\ delivered' = delivered \cup {m}
    /\ Starts([kind |-> "status", of |-> m, id |-> LocalId(m), step |-> "vault"])
    /\ UNCHANGED <<emitted, stored, confirmed, vaultVars, screenVars, boundVars>>

\* Once: the ratchet does not open it a second time.
MessageArrives(i, c) ==
    /\ signedIn /\ got[i] = NoContact /\ ~ \E j \in jobs : j.kind = "in" /\ j.of = i
    /\ Starts([kind |-> "in", of |-> i, at |-> c, step |-> "vault"])
    /\ UNCHANGED <<serverVars, vaultVars, screenVars, boundVars>>

-----------------------------------------------------------------------------
(***************************************************************************)
(* useChat: the handlers of what arrives.                                  *)
(***************************************************************************)

\* A faulty reconcileTempMessageId that leaves the row its temporary id.
ReconciledStatus(m) ==
    IF row[m].at = NoContact THEN row ELSE [row EXCEPT ![m].st = "sent"]

\* reconcileTempMessageId: by either id, where the row is.
Reconciled(m) ==
    IF row[m].at = NoContact THEN row
    ELSE [row EXCEPT ![m].id = "server", ![m].st = "sent"]

ConfirmVault(j) ==
    /\ j.kind = "confirm" /\ j.step = "vault" /\ Becomes(j, "list")
    /\ \/ row' = Reconciled(j.of) /\ UNCHANGED faults
       \/ Fault /\ UNCHANGED row
    /\ UNCHANGED <<serverVars, got, event, screenVars, opens, boots, loaded,
                   crossed>>

ConfirmList(j) ==
    /\ j.kind = "confirm" /\ j.step = "list" /\ Ends(j)
    /\ list' = [k \in DOMAIN list |->
                  IF list[k].of = j.of /\ list[k].id = "temp"
                  THEN [list[k] EXCEPT !.id = "server", !.st = "sent"] ELSE list[k]]
    /\ UNCHANGED <<serverVars, vaultVars, signedIn, active, unread, mapped,
                   devices, boundVars>>

\* updateMessageStatus: by the id it is given.
StatusVault(j) ==
    /\ j.kind = "status" /\ j.step = "vault" /\ Becomes(j, "list")
    /\ \/ /\ row' = IF row[j.of].at # NoContact /\ row[j.of].id = j.id
                    THEN [row EXCEPT ![j.of].st = "delivered"] ELSE row
          /\ UNCHANGED faults
       \/ Fault /\ UNCHANGED row
    /\ UNCHANGED <<serverVars, got, event, screenVars, opens, boots, loaded,
                   crossed>>

StatusList(j) ==
    /\ j.kind = "status" /\ j.step = "list" /\ Ends(j)
    /\ list' = [k \in DOMAIN list |->
                  IF list[k].of = j.of /\ list[k].id \in {j.id, "server"}
                  THEN [list[k] EXCEPT !.st = "delivered"] ELSE list[k]]
    /\ UNCHANGED <<serverVars, vaultVars, signedIn, active, unread, mapped,
                   devices, boundVars>>

\* A message that cannot be saved is not acknowledged and not counted.
InVault(j) ==
    /\ j.kind = "in" /\ j.step = "vault"
    /\ \/ got' = [got EXCEPT ![j.of] = j.at] /\ Becomes(j, "count") /\ UNCHANGED faults
       \/ Fault /\ Ends(j) /\ UNCHANGED got
    /\ UNCHANGED <<serverVars, row, event, screenVars, opens, boots, loaded,
                   crossed>>

\* The handlers' reference to the active contact is never set: a message is
\* counted as unread, not shown, also in the open conversation.
InCount(j) ==
    /\ j.kind = "in" /\ j.step = "count" /\ Ends(j)
    /\ unread' = [unread EXCEPT ![j.at] = @ + 1]
    /\ UNCHANGED <<serverVars, vaultVars, signedIn, active, list, mapped, devices,
                   boundVars>>

-----------------------------------------------------------------------------
(***************************************************************************)
(* ChatArena: sending, editing and deleting.                               *)
(***************************************************************************)

Composer == signedIn /\ active # NoContact
CanReach == active \in devices
Begun(kinds, m) == \E j \in jobs : j.kind \in kinds /\ j.of = m

\* A faulty sendMessage that sends before it saves.
SendUnsaved(m) ==
    /\ Composer /\ CanReach /\ ~ Works({"edit"})
    /\ row[m].at = NoContact /\ m \notin emitted /\ ~ Begun({"send"}, m)
    /\ Starts([kind |-> "send", of |-> m, at |-> active, step |-> "emit"])
    /\ crossed' = (crossed \/ Works({"load"}))
    /\ UNCHANGED <<serverVars, vaultVars, screenVars, opens, boots, faults, loaded>>

\* sendMessage up to the vault.  Nothing keeps a second one from starting before
\* the first is done.
Send(m) ==
    /\ Composer /\ CanReach /\ ~ Works({"edit"})
    /\ row[m].at = NoContact /\ m \notin emitted /\ ~ Begun({"send"}, m)
    /\ Starts([kind |-> "send", of |-> m, at |-> active, step |-> "vault"])
    /\ crossed' = (crossed \/ Works({"load"}))
    /\ UNCHANGED <<serverVars, vaultVars, screenVars, opens, boots, faults, loaded>>

\* The row is saved first; when that fails the message is sent all the same.
\* What fails before it ends the handler.
SendVault(j) ==
    /\ j.kind = "send" /\ j.step = "vault"
    /\ \/ /\ row' = [row EXCEPT ![j.of] = [at |-> j.at, id |-> "temp", st |-> "sending"]]
          /\ Becomes(j, "emit") /\ UNCHANGED faults
       \/ Fault /\ UNCHANGED row /\ (Becomes(j, "emit") \/ Ends(j))
    /\ UNCHANGED <<serverVars, got, event, screenVars, opens, boots, loaded, crossed>>

\* Appended to whatever list is there by now.
SendEmit(j) ==
    /\ j.kind = "send" /\ j.step = "emit" /\ Ends(j)
    /\ emitted' = emitted \cup {j.of}
    /\ list' = Append(list, [of |-> j.of, id |-> "temp", st |-> "sending", changed |-> FALSE])
    /\ UNCHANGED <<stored, confirmed, delivered, vaultVars, signedIn, active, unread, mapped,
                   devices, boundVars>>

\* An entry of the list whose menu one may use: the handler keeps the entry of
\* that moment, with its id.
Menu(k) ==
    /\ Composer /\ list[k].of \in Msg /\ ~ list[k].changed
    /\ event[list[k].of] = "none" /\ ~ Begun({"edit", "delete"}, list[k].of)

\* setEditingMsg: one at a time.
Edit(k) ==
    /\ Menu(k) /\ ~ Works({"edit"})
    /\ Starts([kind |-> "edit", of |-> list[k].of, id |-> list[k].id, step |-> "typed"])
    /\ UNCHANGED <<serverVars, vaultVars, screenVars, boundVars>>

CancelEdit(j) ==
    /\ j.kind = "edit" /\ j.step = "typed" /\ Ends(j)
    /\ UNCHANGED <<serverVars, vaultVars, screenVars, boundVars>>

\* sendEvent returns at once when the active contact of now has no device.
SubmitEdit(j) ==
    /\ Composer /\ j.kind = "edit" /\ j.step = "typed"
    /\ Becomes(j, IF CanReach THEN "emit" ELSE "list")
    /\ UNCHANGED <<serverVars, vaultVars, screenVars, boundVars>>

Delete(k) ==
    /\ Menu(k)
    /\ Starts([kind |-> "delete", of |-> list[k].of, id |-> list[k].id,
               step |-> IF CanReach THEN "emit" ELSE "list"])
    /\ UNCHANGED <<serverVars, vaultVars, screenVars, boundVars>>

\* sendEvent: the frame first, its row afterwards; a failure is swallowed.
EventEmit(j) ==
    /\ j.kind \in {"edit", "delete"} /\ j.step = "emit"
    /\ \/ Becomes(j, "vault") /\ UNCHANGED faults
       \/ Fault /\ Becomes(j, "list")
    /\ UNCHANGED <<serverVars, vaultVars, screenVars, opens, boots, loaded, crossed>>

EventVault(j) ==
    /\ j.kind \in {"edit", "delete"} /\ j.step = "vault" /\ Becomes(j, "list")
    /\ \/ event' = [event EXCEPT ![j.of] = j.id] /\ UNCHANGED faults
       \/ Fault /\ UNCHANGED event
    /\ UNCHANGED <<serverVars, row, got, screenVars, opens, boots, loaded, crossed>>

\* By the id of that moment, and also when the event did not go out.
EventList(j) ==
    /\ j.kind \in {"edit", "delete"} /\ j.step = "list" /\ Ends(j)
    /\ list' = [k \in DOMAIN list |->
                  IF list[k].of = j.of /\ list[k].id = j.id
                  THEN [list[k] EXCEPT !.changed = TRUE] ELSE list[k]]
    /\ UNCHANGED <<serverVars, vaultVars, signedIn, active, unread, mapped, devices, boundVars>>

-----------------------------------------------------------------------------
(***************************************************************************)
(* useChatWorkflows.startChat.                                             *)
(***************************************************************************)

Open(c) ==
    /\ signedIn /\ opens < MaxOpens /\ opens' = opens + 1
    /\ active' = c /\ unread' = [unread EXCEPT ![c] = 0]
    /\ Starts([kind |-> "load", at |-> c, no |-> opens', step |-> "select",
                           rows |-> {}])
    /\ crossed' = Works({"load", "send"})
    /\ UNCHANGED <<serverVars, vaultVars, signedIn, list, mapped, devices,
                   boots, faults, loaded>>

\* A faulty history that leaves out what was not confirmed.
ConfirmedOnly(c) ==
    {[of |-> m, id |-> row[m].id, st |-> row[m].st, changed |-> event[m] = row[m].id] :
        m \in {n \in Msg : row[n].at = c /\ row[n].id = "server"}}
    \cup {[of |-> i, id |-> "server", st |-> "received", changed |-> FALSE] :
            i \in {n \in In : got[n] = c}}

\* getMessages: an edit shows where its row names the message's id of today.
History(c) ==
    {[of |-> m, id |-> row[m].id, st |-> row[m].st, changed |-> event[m] = row[m].id] :
        m \in {n \in Msg : row[n].at = c}}
    \cup {[of |-> i, id |-> "server", st |-> "received", changed |-> FALSE] :
            i \in {n \in In : got[n] = c}}

Select(j) ==
    /\ j.kind = "load" /\ j.step = "select"
    /\ jobs' = (jobs \ {j}) \cup {[j EXCEPT !.step = "show", !.rows = History(j.at)]}
    /\ UNCHANGED <<serverVars, vaultVars, screenVars, boundVars>>

\* A faulty startChat that clears the badge with the list.
ShowAndClear(j) ==
    /\ j.kind = "load" /\ j.step = "show" /\ Becomes(j, "keys")
    /\ list' = SetToSeq(j.rows) /\ loaded' = j.at /\ unread' = [unread EXCEPT ![j.at] = 0]
    /\ UNCHANGED <<serverVars, vaultVars, signedIn, active, mapped,
                   devices, opens, boots, faults, crossed>>

\* Whoever is the active contact by now.
Show(j) ==
    /\ j.kind = "load" /\ j.step = "show" /\ Becomes(j, "keys")
    /\ \/ list' = SetToSeq(j.rows) /\ loaded' = j.at /\ UNCHANGED faults
       \/ Fault /\ list' = <<>> /\ loaded' = NoContact
    /\ UNCHANGED <<serverVars, vaultVars, signedIn, active, unread, mapped,
                   devices, opens, boots, crossed>>

Keys(j) ==
    /\ j.kind = "load" /\ j.step = "keys" /\ Ends(j)
    /\ \/ devices' = devices \cup {j.at} /\ UNCHANGED faults
       \/ Fault /\ UNCHANGED devices
    /\ UNCHANGED <<serverVars, vaultVars, signedIn, active, list, unread, mapped,
                   opens, boots, loaded, crossed>>

-----------------------------------------------------------------------------

\* The process ends and is started again: the vault is what is left.
Restart ==
    /\ boots < MaxBoots /\ boots' = boots + 1
    /\ signedIn' = FALSE /\ active' = NoContact /\ list' = <<>>
    /\ unread' = [c \in Contact |-> 0] /\ mapped' = {} /\ devices' = {}
    /\ jobs' = {} /\ loaded' = NoContact /\ crossed' = FALSE
    /\ UNCHANGED <<serverVars, vaultVars, opens, faults>>

Arrival == \/ \E m \in Msg : Serve(m) \/ ConfirmArrives(m) \/ StatusArrives(m)
           \/ \E i \in In, c \in Contact : MessageArrives(i, c)

Handler(j) == \/ ConfirmVault(j) \/ ConfirmList(j) \/ StatusVault(j) \/ StatusList(j)
              \/ InVault(j) \/ InCount(j) \/ SendVault(j) \/ SendEmit(j)
              \/ SubmitEdit(j) \/ CancelEdit(j)
              \/ EventEmit(j) \/ EventVault(j) \/ EventList(j)
              \/ Select(j) \/ Show(j) \/ Keys(j)

Next ==
    \/ Arrival
    \/ \E j \in jobs : Handler(j)
    \/ \E m \in Msg : Send(m)
    \/ \E k \in DOMAIN list : Edit(k) \/ Delete(k)
    \/ \E c \in Contact : Open(c)
    \/ SignIn \/ SignOut \/ Restart

Spec == Init /\ [][Next]_vars

-----------------------------------------------------------------------------
(***************************************************************************)
(* Properties.                                                             *)
(***************************************************************************)

\* Every variable has its type; the events about a message follow its storage.
TypeOK ==
    /\ confirmed \cup delivered \subseteq stored /\ stored \subseteq emitted
    /\ emitted \subseteq Msg /\ mapped \subseteq confirmed
    /\ row \in [Msg -> [at : Contact \cup {NoContact}, id : {"temp", "server"},
                        st : {"sending", "sent", "delivered"}]]
    /\ got \in [In -> Contact \cup {NoContact}]
    /\ event \in [Msg -> {"none", "temp", "server"}]
    /\ active \in Contact \cup {NoContact} /\ unread \in [Contact -> 0 .. Cardinality(In)]
    /\ \A k \in DOMAIN list : list[k].of \in Msg \cup In
    /\ Cardinality(jobs) <= MaxJobs

\* What the server has of this client, this client has: ends of the process
\* included, only a vault that failed can be without the row.
StoredIsKept == faults = 0 =>
    \A m \in stored : row[m].at # NoContact

Settled == jobs = {} /\ ~ crossed /\ faults = 0 /\ loaded = active /\ active # NoContact
Times(x) == Cardinality({k \in DOMAIN list : list[k].of = x})

\* In an open conversation every message of one's own is there, once, provided
\* that its list was loaded while nothing else worked on the list.
OwnShownOnce ==
    Settled => \A m \in Msg : Times(m) = IF row[m].at = active THEN 1 ELSE 0

\* A message in the open conversation that is not on the screen is counted in
\* the badge, wherever it came in between the load's steps.
NothingUnseen ==
    Settled => unread[active] >= Cardinality({i \in In : got[i] = active /\ Times(i) = 0})

\* An edit or a deletion recorded under the server's id of a message finds the
\* row of that message, however the confirmation and the menu fall together.
EventFindsRow ==
    faults = 0 => \A m \in Msg : event[m] = "server" => row[m].id = "server"

===============================================================================
