-------------------------------- MODULE Socket --------------------------------
(***************************************************************************)
(* TrustlineSocket, the client's one object for the connection to the      *)
(* server: the queue it keeps while there is none, the reconnects, and the *)
(* WebSockets of the browser behind it.  A WebSocket lives on, with its    *)
(* handlers, when connect puts another one in this.ws; its events still    *)
(* act on the object.                                                      *)
(*                                                                         *)
(* A frame is the number of the call of send that made it.  Delays, the    *)
(* back-off and the heartbeat are left out: they change nothing but time.  *)
(***************************************************************************)
EXTENDS Integers, Sequences, FiniteSets, SequencesExt

CONSTANTS
    MaxAuths,   \* bound: calls of handleAuthenticated
    MaxSends    \* bound: calls of send

ASSUME SocketAssumption == MaxAuths \in Nat /\ MaxSends \in Nat

\* A call of handleAuthenticated may leave one more socket behind, never two.
Conn == 1 .. MaxAuths
NoConn == 0

VARIABLES
    net,        \* the browser's sockets
    inflight,   \* frames written to a socket and not yet at the server
    ws,         \* this.ws
    timer,      \* reconnectTimer is set
    disabled, queue, state,
    asked, auths

vars == <<net, inflight, ws, timer, disabled, queue, state, asked, auths>>

Init ==
    /\ net = [c \in Conn |-> "none"] /\ inflight = [c \in Conn |-> <<>>]
    /\ ws = NoConn /\ timer = FALSE /\ disabled = FALSE /\ queue = <<>>
    /\ state = "DISCONNECTED" /\ asked = 0 /\ auths = 0

IsOpen == ws # NoConn /\ net[ws] = "open"

-----------------------------------------------------------------------------

Send ==
    /\ asked < MaxSends /\ asked' = asked + 1
    /\ IF IsOpen
       THEN inflight' = [inflight EXCEPT ![ws] = Append(@, asked')] /\ UNCHANGED queue
       ELSE queue' = Append(queue, asked') /\ UNCHANGED inflight
    /\ UNCHANGED <<net, ws, timer, disabled, state, auths>>

\* A faulty connect that lets a timer run.
ConnectsTimer ==
    LET c == CHOOSE d \in Conn : net[d] = "none" IN
    /\ net' = [net EXCEPT ![c] = "opening"] /\ ws' = c
    /\ timer' = timer /\ disabled' = FALSE /\ state' = "CONNECTING"

\* connect replaces this.ws without closing it.
Connects ==
    LET c == CHOOSE d \in Conn : net[d] = "none" IN
    /\ net' = [net EXCEPT ![c] = "opening"] /\ ws' = c
    /\ timer' = FALSE /\ disabled' = FALSE /\ state' = "CONNECTING"

\* A faulty flushQueue that takes the newest frame first.
FlushedBackwards(c) ==
    IF c = ws THEN inflight' = [inflight EXCEPT ![c] = @ \o Reverse(queue)] /\ queue' = <<>>
    ELSE UNCHANGED <<inflight, queue>>

Flushed(c) ==
    IF c = ws THEN inflight' = [inflight EXCEPT ![c] = @ \o queue] /\ queue' = <<>>
    ELSE UNCHANGED <<inflight, queue>>

\* onopen acts on this.ws, also when the event is of another socket: when that
\* one is being opened the send of AUTH throws, when there is none nothing is
\* sent.
Opened(c) ==
    /\ net[c] = "opening" /\ net' = [net EXCEPT ![c] = "open"]
    /\ state' = IF c = ws \/ ws = NoConn \/ net[ws] = "open" THEN "CONNECTED" ELSE state
    /\ Flushed(c)
    /\ UNCHANGED <<ws, timer, disabled, asked, auths>>

\* The server reads the next frame of a connection.
Serve(c) ==
    /\ net[c] = "open" /\ inflight[c] # <<>>
    /\ inflight' = [inflight EXCEPT ![c] = Tail(@)]
    /\ UNCHANGED <<net, ws, timer, disabled, queue, state, asked, auths>>

\* A faulty onclose that schedules a reconnect for the socket in this.ws only.
CloseOther(c) ==
    /\ net[c] # "none" /\ net' = [net EXCEPT ![c] = "none"]
    /\ inflight' = [inflight EXCEPT ![c] = <<>>]
    /\ ws' = NoConn
    /\ timer' = (timer \/ (c = ws /\ ~ disabled))
    /\ state' = IF disabled \/ timer THEN state ELSE "RECONNECTING"
    /\ UNCHANGED <<disabled, queue, asked, auths>>

\* onclose of any socket, replaced or not, forgets this.ws and schedules a
\* reconnect.
Close(c) ==
    /\ net[c] # "none" /\ net' = [net EXCEPT ![c] = "none"]
    /\ inflight' = [inflight EXCEPT ![c] = <<>>]
    /\ ws' = NoConn
    /\ timer' = (timer \/ ~ disabled)
    /\ state' = IF disabled \/ timer THEN state ELSE "RECONNECTING"
    /\ UNCHANGED <<disabled, queue, asked, auths>>

Reconnect ==
    /\ timer /\ Connects
    /\ UNCHANGED <<inflight, queue, asked, auths>>

\* handleAuthenticated: at a login, and again when the wizard is done.
Authenticated ==
    /\ auths < MaxAuths /\ auths' = auths + 1 /\ Connects
    /\ UNCHANGED <<inflight, queue, asked>>

\* A faulty destroy that lets the timer run.
DestroyTimer ==
    /\ auths > 0
    /\ disabled' = TRUE /\ queue' = <<>> /\ ws' = NoConn /\ state' = "DISCONNECTED"
    /\ net' = [c \in Conn |-> IF c = ws THEN "none" ELSE net[c]]
    /\ inflight' = [c \in Conn |-> IF c = ws THEN <<>> ELSE inflight[c]]
    /\ UNCHANGED <<timer, asked, auths>>

\* destroy closes the socket in this.ws and takes its handlers away.
Destroy ==
    /\ auths > 0
    /\ disabled' = TRUE /\ timer' = FALSE /\ queue' = <<>> /\ ws' = NoConn
    /\ state' = "DISCONNECTED"
    /\ net' = [c \in Conn |-> IF c = ws THEN "none" ELSE net[c]]
    /\ inflight' = [c \in Conn |-> IF c = ws THEN <<>> ELSE inflight[c]]
    /\ UNCHANGED <<asked, auths>>

Next ==
    \/ Send \/ Reconnect \/ Authenticated \/ Destroy
    \/ \E c \in Conn : Opened(c) \/ Close(c) \/ Serve(c)

\* A timer goes off, and a client that tries again and again is let in some time.
Fairness == WF_vars(Reconnect) /\ SF_vars(ws # NoConn /\ Opened(ws))

Spec == Init /\ [][Next]_vars /\ Fairness

-----------------------------------------------------------------------------
(***************************************************************************)
(* Properties.                                                             *)
(***************************************************************************)

\* Every variable has its type, and this.ws is a socket that exists.
TypeOK ==
    /\ net \in [Conn -> {"none", "opening", "open"}]
    /\ ws \in Conn \cup {NoConn} /\ (ws # NoConn => net[ws] # "none")
    /\ \A c \in Conn : net[c] # "open" => inflight[c] = <<>>
    /\ state \in {"DISCONNECTED", "CONNECTING", "CONNECTED", "RECONNECTING"}
    /\ {timer, disabled} \subseteq BOOLEAN
    /\ asked \in 0 .. MaxSends /\ auths \in 0 .. MaxAuths

\* Frames leave in the order of the calls of send, whether they went through
\* the queue or not, and however often this.ws was replaced.
Increasing(s) == \A a, b \in DOMAIN s : a < b => s[a] < s[b]
WireInOrder ==
    /\ Increasing(IF ws = NoConn THEN queue ELSE inflight[ws] \o queue)
    /\ \A c \in Conn : Increasing(inflight[c])

\* The sockets of the client, the one the timer will make included, are never
\* more than its sign-ins: closes and reconnects leave none behind.  After a
\* single sign-in the state shown is therefore that of the connection.
NoStraySocket ==
    /\ Cardinality({c \in Conn : net[c] # "none"}) + (IF timer THEN 1 ELSE 0) <= auths
    /\ auths = 1 => /\ state = "CONNECTED" <=> IsOpen
                    /\ \A c \in Conn : net[c] # "none" => c = ws

\* After a logout the client makes no connection of its own accord, even though
\* sockets left behind go on closing.
StaysOut ==
    [][disabled /\ auths' = auths =>
         \A c \in Conn : net'[c] = "opening" => net[c] = "opening"]_vars

\* A queued frame does not wait for ever while the client is signed in, though
\* the events of sockets left behind keep making the object forget the one that
\* works.
QueueDrains == (queue # <<>> /\ auths > 0 /\ ~ disabled) ~> (queue = <<>> \/ disabled)
===============================================================================
