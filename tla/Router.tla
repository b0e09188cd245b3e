------------------------------ MODULE Router ------------------------------
(***************************************************************************)
(* The message router of crates/backend/src/ws.rs: any number of backend   *)
(* instances that share the database and a NATS broker, and the clients'   *)
(* sockets.  A connection is one run of handle_socket; its steps are cut   *)
(* at the code's await points, which is where other connections, the       *)
(* revocation handlers and a dying socket can come in between.             *)
(*                                                                         *)
(* Frames and events in a socket are kept as sets: the order inside one    *)
(* socket is not told apart here (RatchetPair lets messages arrive in any  *)
(* order), and a second copy of an event that is already waiting for the   *)
(* client is the same to it, which opens a message once.                   *)
(***************************************************************************)
EXTENDS Naturals, FiniteSets

CONSTANTS
    Node,        \* backend instances
    Device,      \* client devices
    Conn,        \* connection slots: a slot is reused once it is closed
    Msg,         \* the messages that will be composed
    Owner, Host, \* Owner[c], Host[c]: the device and the instance of slot c
    From, To,    \* From[m], To[m]: the devices m is between
    Revocable,   \* devices an administrator may revoke
    Fragile,     \* devices whose sockets may die
    MaxDrops,    \* bound: sockets that die
    MaxAgain,    \* bound: sign-ins of a client that has a socket
    MaxFaults,   \* bound: failing queries and clients, lost publishes
    MaxTroubles, \* bound: all of these together
    NoConn, NoMsg

ASSUME RouterAssumption ==
    /\ Owner \in [Conn -> Device] /\ Host \in [Conn -> Node]
    /\ From \in [Msg -> Device] /\ To \in [Msg -> Device]
    /\ Revocable \subseteq Device /\ Fragile \subseteq Device
    /\ MaxDrops \in Nat /\ MaxFaults \in Nat /\ MaxAgain \in Nat
    /\ MaxTroubles \in Nat
    /\ NoConn \notin Conn /\ NoMsg \notin Msg

VARIABLES
    \* the shared database
    active,      \* devices with is_active = TRUE
    stored,      \* rows of encrypted_messages
    delivered,   \* rows with delivered_at set
    readRows,    \* rows with read_at set
    \* the instances
    registry,    \* registry[n][d]: the connection instance n has for d
    phase,       \* phase[c]: how far handle_socket got on c
    work,        \* work[c]: the envelope recv_task of c is handling
    revoking,    \* <<n, d>>: n committed d's revocation, its registry is next
    nats,        \* events published and not yet handed to subscribers
    \* the sockets
    alive,       \* connections whose socket works
    up, down,    \* up[c], down[c]: frames to the server, events to the client
    \* the clients
    ws,          \* ws[d]: this.ws, the socket the client writes to
    again,       \* sign-ins of clients that had a socket
    outq,        \* outq[d]: outboundQueue of the client socket
    begun,       \* messages composed
    confirmed,   \* messages the sender has a MESSAGE_CONFIRM for
    seen,        \* messages the recipient has decrypted and saved
    \* the environment's budget, and history
    drops, faults,
    posted,      \* messages that were given a server id
    missed       \* missed[c]: messages an abort or a fault kept from c

dbVars     == <<active, stored, delivered, readRows>>
nodeVars   == <<registry, phase, work, revoking, nats>>
netVars    == <<alive, up, down>>
clientVars == <<ws, again, outq, begun, confirmed, seen>>
envVars    == <<drops, faults, posted, missed>>
vars == <<dbVars, nodeVars, netVars, clientVars, envVars>>

-----------------------------------------------------------------------------

Frame == [type : {"send", "ack", "read"}, msg : Msg]
Event == [type : {"receive", "confirm", "delivered", "read"}, msg : Msg]
         \cup [type : {"close"}, msg : {NoMsg}]
WorkStep == {"insert", "message", "delivered", "read"}
Phase == {"closed", "preauth", "rejected", "checked", "registered",
          "flushed", "running", "closing"}

Frm(type, m) == [type |-> type, msg |-> m]
Idle == Frm("idle", NoMsg)

\* The device an event about a message goes to.
Target(e) == IF e.type = "receive" THEN To[e.msg] ELSE From[e.msg]

\* The instance's registry entry for a device; sender_context is this
\* look-up for the device of the connection an envelope came in on.
Entry(n, d) == registry[n][d]
SenderKnown(c) == Entry(Host[c], Owner[c]) # NoConn

\* conn.tx.send(..): the receiving end is gone once the tasks were aborted.
Pushed(q, c, e) ==
    IF phase[c] \in {"closing", "closed"} THEN q ELSE [q EXCEPT ![c] = @ \cup {e}]

\* A faulty delivery that skips connections which are still being set up.
DeliverToRunning(n, q, e) ==
    LET c == Entry(n, Target(e)) IN
    IF c # NoConn /\ phase[c] = "running"
    THEN down' = Pushed(q, c, e) /\ UNCHANGED nats
    ELSE down' = q /\ nats' = nats \cup {e}

\* deliver_event_to_device, on top of the queues q: the local connection if
\* the registry has one, else the device's NATS subject (a spawned task that
\* nobody waits for).
DeliverEvent(n, q, e) ==
    LET c == Entry(n, Target(e)) IN
    IF c # NoConn
    THEN down' = Pushed(q, c, e) /\ UNCHANGED nats
    ELSE down' = q /\ nats' = nats \cup {e}

Init ==
    /\ active = Device /\ stored = {} /\ delivered = {} /\ readRows = {}
    /\ registry = [n \in Node |-> [d \in Device |-> NoConn]]
    /\ phase = [c \in Conn |-> "closed"]
    /\ work = [c \in Conn |-> Idle]
    /\ revoking = {} /\ nats = {}
    /\ alive = {}
    /\ up = [c \in Conn |-> {}] /\ down = [c \in Conn |-> {}]
    /\ ws = [d \in Device |-> NoConn] /\ again = 0
    /\ outq = [d \in Device |-> {}]
    /\ begun = {} /\ confirmed = {} /\ seen = {}
    /\ drops = 0 /\ faults = 0 /\ posted = {}
    /\ missed = [c \in Conn |-> {}]

-----------------------------------------------------------------------------
(***************************************************************************)
(* The client: infrastructure/socket.ts and features/chat/useChat.ts.      *)
(***************************************************************************)

\* One more dead socket, fault or second sign-in is within the bounds.
WithinBounds(n, max) == n < max /\ drops + faults + again < MaxTroubles

\* A query fails, a publish is lost, a client cannot decrypt or save.
Fault == WithinBounds(faults, MaxFaults) /\ faults' = faults + 1

\* socket.send: onto the socket in this.ws, or into the outbound queue.
Emit(d, frames) ==
    IF ws[d] # NoConn
    THEN up' = [up EXCEPT ![ws[d]] = @ \cup frames] /\ UNCHANGED outq
    ELSE outq' = [outq EXCEPT ![d] = @ \cup frames] /\ UNCHANGED up

\* TrustlineSocket.connect puts a new socket in this.ws; one that is there
\* already is neither closed nor loses its handlers.  onopen sends AUTH (the
\* "preauth" phase stands for it) and flushes the queue; that another socket
\* may close before it comes is in Socket.
Connect(c) ==
    LET d == Owner[c] IN
    /\ phase[c] = "closed"
    /\ alive' = alive \cup {c}
    /\ ws' = [ws EXCEPT ![d] = c]
    /\ phase' = [phase EXCEPT ![c] = "preauth"]
    /\ up' = [up EXCEPT ![c] = outq[d]]
    /\ down' = [down EXCEPT ![c] = {}]
    /\ outq' = [outq EXCEPT ![d] = {}]
    /\ missed' = [missed EXCEPT ![c] = {}]
    /\ UNCHANGED <<dbVars, registry, work, revoking, nats, begun, confirmed, seen,
                   drops, faults, posted>>

\* The first sign-in, and the timer that every onclose sets.
Reconnect(c) == ws[Owner[c]] = NoConn /\ Connect(c) /\ UNCHANGED again

\* handleAuthenticated once more: from here on the client has one socket more
\* than it writes to.
SignInAgain(c) ==
    /\ ws[Owner[c]] # NoConn /\ WithinBounds(again, MaxAgain)
    /\ Connect(c)
    /\ again' = again + 1

\* onclose, of the socket in this.ws or of one left behind: this.ws is
\* forgotten, whichever socket it holds.
OnClose(c) ==
    /\ alive' = alive \ {c}
    /\ ws' = IF c \in alive THEN [ws EXCEPT ![Owner[c]] = NoConn] ELSE ws

\* The user sends m: encrypted, saved, and MESSAGE_SEND on the socket.
Compose(m) ==
    /\ m \notin begun
    /\ begun' = begun \cup {m}
    /\ Emit(From[m], {Frm("send", m)})
    /\ UNCHANGED <<dbVars, nodeVars, alive, down, ws, again, confirmed, seen, envVars>>

\* handleIncomingMessage: a message that decrypts and is saved is acknowledged,
\* and reported read when its conversation is the open one; one that was
\* decrypted before does not decrypt again, and then nothing is sent; nor is
\* it when the vault or the keys fail the client.
TakeMessage(c, m) ==
    \/ /\ m \in seen
       /\ UNCHANGED <<seen, up, outq, faults, missed>>
    \/ /\ m \notin seen
       /\ seen' = seen \cup {m}
       /\ Emit(To[m], {Frm("ack", m)}) \/ Emit(To[m], {Frm("ack", m), Frm("read", m)})
       /\ UNCHANGED <<faults, missed>>
    \/ /\ m \notin seen /\ Fault
       /\ missed' = [missed EXCEPT ![c] = @ \cup {m}]
       /\ UNCHANGED <<seen, up, outq>>

\* The client takes an event off its socket: a message, a confirmation, a
\* status, or the close frame a revocation sends.
ClientReceive(c, e) ==
    /\ c \in alive /\ e \in down[c]
    /\ down' = [down EXCEPT ![c] = @ \ {e}]
    /\ IF e.type = "receive" THEN TakeMessage(c, e.msg)
       ELSE UNCHANGED <<seen, up, outq, faults, missed>>
    /\ confirmed' = IF e.type = "confirm" THEN confirmed \cup {e.msg} ELSE confirmed
    /\ IF e.type = "close" THEN OnClose(c) ELSE UNCHANGED <<alive, ws>>
    /\ UNCHANGED <<dbVars, nodeVars, again, begun, drops, posted>>

\* The network or the machine at the other end goes away.  The client knows
\* (onclose), the instance finds out later.
Drop(c) ==
    /\ c \in alive /\ Owner[c] \in Fragile /\ WithinBounds(drops, MaxDrops)
    /\ OnClose(c)
    /\ drops' = drops + 1
    /\ UNCHANGED <<dbVars, nodeVars, up, down, again, outq, begun, confirmed, seen,
                   faults, posted, missed>>

-----------------------------------------------------------------------------
(***************************************************************************)
(* handle_socket: authentication, registration, the offline flush.         *)
(***************************************************************************)

\* The AUTH frame: the session and the device are looked up, and anything
\* but two rows leaves the loop waiting for another AUTH.
Authenticate(c) ==
    /\ phase[c] = "preauth"
    /\ \/ /\ Owner[c] \in active
          /\ phase' = [phase EXCEPT ![c] = "checked"]
          /\ UNCHANGED faults
       \/ /\ Owner[c] \notin active
          /\ phase' = [phase EXCEPT ![c] = "rejected"]
          /\ UNCHANGED faults
       \/ /\ Fault
          /\ phase' = [phase EXCEPT ![c] = "rejected"]
    /\ UNCHANGED <<dbVars, registry, work, revoking, nats, netVars, clientVars,
                   drops, posted, missed>>

\* The socket ends before an AUTH frame came out of it.
Unauthenticated(c) ==
    /\ phase[c] = "preauth" /\ c \notin alive
    /\ phase' = [phase EXCEPT ![c] = "closed"]
    /\ UNCHANGED <<dbVars, registry, work, revoking, nats, netVars, clientVars, envVars>>

\* Still in that loop: every other frame is read and answered with an ERROR
\* that nothing sends; the loop ends when the socket does.
PreAuthFrame(c) ==
    /\ phase[c] = "rejected"
    /\ \/ /\ up[c] # {}
          /\ up' = [up EXCEPT ![c] = {}]
          /\ UNCHANGED phase
       \/ /\ up[c] = {} /\ c \notin alive
          /\ phase' = [phase EXCEPT ![c] = "closed"]
          /\ UNCHANGED up
    /\ UNCHANGED <<dbVars, registry, work, revoking, nats, alive, down, clientVars, envVars>>

\* connections.insert: replaces whatever the registry had for the device.
Register(c) ==
    /\ phase[c] = "checked"
    /\ registry' = [registry EXCEPT ![Host[c]][Owner[c]] = c]
    /\ phase' = [phase EXCEPT ![c] = "registered"]
    /\ UNCHANGED <<dbVars, work, revoking, nats, netVars, clientVars, envVars>>

Pending(d) == { m \in stored \ delivered : To[m] = d }
Receives(ms) == { Frm("receive", m) : m \in ms }

\* A faulty flush that marks what it sends as delivered.
FlushMarking(c) ==
    /\ phase[c] = "registered"
    /\ phase' = [phase EXCEPT ![c] = "flushed"]
    /\ down' = [down EXCEPT ![c] = @ \cup Receives(Pending(Owner[c]))]
    /\ delivered' = delivered \cup Pending(Owner[c])
    /\ UNCHANGED <<active, stored, readRows, registry, work, revoking, nats, alive, up,
                   clientVars, envVars>>

\* The offline flush: every row not yet delivered, none of them marked.  A
\* query that fails counts as no rows (unwrap_or_default).
Flush(c) ==
    /\ phase[c] = "registered"
    /\ phase' = [phase EXCEPT ![c] = "flushed"]
    /\ \/ /\ down' = [down EXCEPT ![c] = @ \cup Receives(Pending(Owner[c]))]
          /\ missed' = [missed EXCEPT ![c] = {}]
          /\ UNCHANGED faults
       \/ /\ Fault
          /\ missed' = [missed EXCEPT ![c] = Pending(Owner[c])]
          /\ UNCHANGED down
    /\ UNCHANGED <<dbVars, registry, work, revoking, nats, alive, up, clientVars, drops, posted>>

\* The NATS subscription, then the send, receive and forwarding tasks start.
Subscribe(c) ==
    /\ phase[c] = "flushed"
    /\ phase' = [phase EXCEPT ![c] = "running"]
    /\ UNCHANGED <<dbVars, registry, work, revoking, nats, netVars, clientVars, envVars>>

-----------------------------------------------------------------------------
(***************************************************************************)
(* recv_task: one envelope at a time (handle_envelope).                    *)
(***************************************************************************)

Reading(c) == phase[c] = "running" /\ work[c] = Idle

\* The next frame of c's socket, and the step its handler goes on with: Idle
\* when it returned early.
Take(c, f, next) ==
    /\ Reading(c) /\ f \in up[c]
    /\ up' = [up EXCEPT ![c] = @ \ {f}]
    /\ work' = [work EXCEPT ![c] = next]

\* MESSAGE_SEND up to the insert: the sender must be in the registry and the
\* recipient active, or the frame is answered with an ERROR and forgotten.
HandleSend(c, m) ==
    /\ \/ /\ SenderKnown(c) /\ To[m] \in active
          /\ Take(c, Frm("send", m), Frm("insert", m))
          /\ UNCHANGED faults
       \/ /\ ~ (SenderKnown(c) /\ To[m] \in active)
          /\ Take(c, Frm("send", m), Idle)
          /\ UNCHANGED faults
       \/ /\ Take(c, Frm("send", m), Idle)
          /\ Fault
    /\ UNCHANGED <<dbVars, registry, phase, revoking, nats, alive, down, clientVars,
                   drops, posted, missed>>

\* The INSERT, which may fail: `persisted` is only logged, so the handler
\* goes on the same way.
Persist(c) ==
    LET m == work[c].msg IN
    /\ phase[c] = "running" /\ work[c].type = "insert"
    /\ work' = [work EXCEPT ![c] = Frm("message", m)]
    /\ posted' = posted \cup {m}
    /\ \/ stored' = stored \cup {m} /\ UNCHANGED faults
       \/ Fault /\ UNCHANGED stored
    /\ UNCHANGED <<active, delivered, readRows, registry, phase, revoking, nats, netVars,
                   clientVars, drops, missed>>

\* MESSAGE_CONFIRM to the sender, then the message to its recipient: no await
\* in between, so nothing else runs.
RouteMessage(c) ==
    LET m == work[c].msg
        s == Entry(Host[c], Owner[c])
        q == IF s # NoConn THEN Pushed(down, s, Frm("confirm", m)) ELSE down
    IN
    /\ phase[c] = "running" /\ work[c].type = "message"
    /\ DeliverEvent(Host[c], q, Frm("receive", m))
    /\ work' = [work EXCEPT ![c] = Idle]
    /\ UNCHANGED <<dbVars, registry, phase, revoking, alive, up, clientVars, envVars>>

\* MESSAGE_STATUS to the device that sent the message.
RouteStatus(c) ==
    /\ phase[c] = "running" /\ work[c].type \in {"delivered", "read"}
    /\ DeliverEvent(Host[c], down, work[c])
    /\ work' = [work EXCEPT ![c] = Idle]
    /\ UNCHANGED <<dbVars, registry, phase, revoking, alive, up, clientVars, envVars>>

\* A receipt is taken from a registered device, for a row addressed to it.
ReceiptAllowed(c, m) == SenderKnown(c) /\ m \in stored /\ To[m] = Owner[c]

\* A receipt that is refused, or one of whose queries fails, changes nothing.
RefuseReceipt(c, f) ==
    /\ Take(c, f, Idle)
    /\ IF ReceiptAllowed(c, f.msg) THEN Fault ELSE UNCHANGED faults
    /\ UNCHANGED <<delivered, readRows>>

\* MESSAGE_ACK: delivered_at is set, once (COALESCE).
HandleAck(c, m) ==
    /\ \/ /\ ReceiptAllowed(c, m)
          /\ Take(c, Frm("ack", m), Frm("delivered", m))
          /\ delivered' = delivered \cup {m}
          /\ UNCHANGED <<readRows, faults>>
       \/ RefuseReceipt(c, Frm("ack", m))
    /\ UNCHANGED <<active, stored, registry, phase, revoking, nats, alive, down, clientVars,
                   drops, posted, missed>>

\* MESSAGE_READ: read_at and delivered_at are set, each once.
HandleRead(c, m) ==
    /\ \/ /\ ReceiptAllowed(c, m)
          /\ Take(c, Frm("read", m), Frm("read", m))
          /\ delivered' = delivered \cup {m}
          /\ readRows' = readRows \cup {m}
          /\ UNCHANGED faults
       \/ RefuseReceipt(c, Frm("read", m))
    /\ UNCHANGED <<active, stored, registry, phase, revoking, nats, alive, down, clientVars,
                   drops, posted, missed>>

-----------------------------------------------------------------------------
(***************************************************************************)
(* NATS: core publish and subscribe, no acknowledgement and no replay.     *)
(***************************************************************************)

\* Every connection of the target that has subscribed gets the event; with
\* none there, it is gone.
NatsDeliver(e) ==
    LET subscribed == { c \in Conn : Owner[c] = Target(e) /\ phase[c] = "running" } IN
    /\ e \in nats
    /\ nats' = nats \ {e}
    /\ down' = [c \in Conn |-> IF c \in subscribed THEN down[c] \cup {e} ELSE down[c]]
    /\ UNCHANGED <<dbVars, registry, phase, work, revoking, alive, up, clientVars, envVars>>

\* The publish fails, or the broker drops it; a subscriber that should have
\* had it has missed it.
NatsLose(e) ==
    /\ e \in nats /\ Fault
    /\ nats' = nats \ {e}
    /\ missed' = IF e.type = "receive"
                 THEN [c \in Conn |-> IF Owner[c] = To[e.msg] THEN missed[c] \cup {e.msg}
                                      ELSE missed[c]]
                 ELSE missed
    /\ UNCHANGED <<dbVars, registry, phase, work, revoking, netVars, clientVars, drops, posted>>

-----------------------------------------------------------------------------
(***************************************************************************)
(* The end of a connection.                                                *)
(***************************************************************************)

\* A faulty teardown that leaves the handler's step in place.
EndTasksKeepingWork(c) ==
    /\ phase' = [phase EXCEPT ![c] = "closing"]
    /\ UNCHANGED <<work, missed>>

\* One task finished and the others are aborted: a handler in progress ends
\* at its await, and nobody reads or writes the socket any more.  A message
\* that was inserted and not yet routed is now up to the next flush.
EndTasks(c) ==
    /\ phase' = [phase EXCEPT ![c] = "closing"]
    /\ work' = [work EXCEPT ![c] = Idle]
    /\ missed' = IF work[c].type = "message"
                 THEN [r \in Conn |-> IF Owner[r] = To[work[c].msg]
                                      THEN missed[r] \cup {work[c].msg} ELSE missed[r]]
                 ELSE missed

\* recv_task comes to the end of a dead socket.
NoticeRecv(c) ==
    /\ Reading(c) /\ c \notin alive /\ up[c] = {}
    /\ EndTasks(c)
    /\ UNCHANGED <<dbVars, registry, revoking, nats, netVars, clientVars, drops, faults, posted>>

\* send_task fails to write to a dead socket, whatever recv_task is doing.
NoticeSend(c) ==
    /\ phase[c] = "running" /\ c \notin alive
    /\ EndTasks(c)
    /\ UNCHANGED <<dbVars, registry, revoking, nats, netVars, clientVars, drops, faults, posted>>

\* A faulty heartbeat that does not end a connection without an entry.
HeartbeatPatient(c) ==
    LET r == Entry(Host[c], Owner[c]) IN
    /\ Reading(c)
    /\ r \in Conn /\ phase[r] = "closing"
    /\ EndTasks(c)
    /\ UNCHANGED <<dbVars, registry, revoking, nats, netVars, clientVars, drops, faults, posted>>

\* The 30 s tick: a connection ends when its device has no entry, or one
\* whose channel is closed; that the entry is its own is not asked.
Heartbeat(c) ==
    LET r == Entry(Host[c], Owner[c]) IN
    /\ Reading(c)
    /\ r \in Conn => phase[r] = "closing"
    /\ EndTasks(c)
    /\ UNCHANGED <<dbVars, registry, revoking, nats, netVars, clientVars, drops, faults, posted>>

\* A faulty cleanup that leaves the entry in the registry.
CleanupKeepingEntry(c) ==
    /\ phase[c] = "closing"
    /\ phase' = [phase EXCEPT ![c] = "closed"]
    /\ OnClose(c)
    /\ up' = [up EXCEPT ![c] = {}]
    /\ UNCHANGED <<dbVars, registry, work, revoking, nats, down, again, outq, begun,
                   confirmed, seen, envVars>>

\* connections.remove(&device_id), whichever connection the entry is for.
\* handle_socket gets here without another await and returns, which closes
\* the socket, frames in it unread, and is an onclose at the client unless its
\* end had gone already.
Cleanup(c) ==
    /\ phase[c] = "closing"
    /\ phase' = [phase EXCEPT ![c] = "closed"]
    /\ registry' = [registry EXCEPT ![Host[c]][Owner[c]] = NoConn]
    /\ OnClose(c)
    /\ up' = [up EXCEPT ![c] = {}]
    /\ UNCHANGED <<dbVars, work, revoking, nats, down, again, outq, begun, confirmed, seen,
                   envVars>>

\* Revocation at instance n, first half: the transaction (is_active = FALSE,
\* the device's sessions deleted).  Bound: a device is revoked once.
RevokeCommit(n, d) ==
    /\ d \in Revocable \cap active
    /\ active' = active \ {d}
    /\ revoking' = revoking \cup {<<n, d>>}
    /\ UNCHANGED <<stored, delivered, readRows, registry, phase, work, nats, netVars,
                   clientVars, envVars>>

\* Second half, after the purge's await: the instance's own entry is removed
\* and its connection told to close.
RevokeCut(n, d) ==
    LET c == Entry(n, d) IN
    /\ <<n, d>> \in revoking
    /\ revoking' = revoking \ {<<n, d>>}
    /\ registry' = [registry EXCEPT ![n][d] = NoConn]
    /\ down' = IF c # NoConn THEN Pushed(down, c, Frm("close", NoMsg)) ELSE down
    /\ UNCHANGED <<dbVars, phase, work, nats, alive, up, clientVars, envVars>>

-----------------------------------------------------------------------------

HandleFrame(c) == \E m \in Msg : HandleSend(c, m) \/ HandleAck(c, m) \/ HandleRead(c, m)
Receive(c) == \E e \in Event : ClientReceive(c, e)

\* A connection's tasks: handle_socket itself, before and after its select, and
\* recv_task; of send_task only the end is a step of its own (NoticeSend).
HandleSocket(c) ==
    \/ Authenticate(c) \/ Unauthenticated(c) \/ PreAuthFrame(c)
    \/ Register(c) \/ Flush(c) \/ Subscribe(c) \/ Cleanup(c)
RecvTask(c) ==
    \/ HandleFrame(c) \/ Persist(c) \/ RouteMessage(c) \/ RouteStatus(c)
    \/ Heartbeat(c) \/ NoticeRecv(c)

Next ==
    \/ \E c \in Conn :
         \/ Reconnect(c) \/ SignInAgain(c) \/ Drop(c) \/ Receive(c)
         \/ HandleSocket(c) \/ RecvTask(c) \/ NoticeSend(c)
    \/ \E m \in Msg : Compose(m)
    \/ \E e \in Event : NatsDeliver(e) \/ NatsLose(e)
    \/ \E n \in Node, d \in Device : RevokeCommit(n, d) \/ RevokeCut(n, d)

\* The runtime schedules a connection that can go on, whichever of its tasks it
\* is, and the client's timer goes off.  A client reads its sockets, and gets to
\* read some time when the server ends one connection after the other with an
\* event for it.  Nobody has to write a message, revoke a device, sign in again,
\* or keep a socket up.
Fairness ==
    /\ \A c \in Conn : WF_vars(HandleSocket(c) \/ RecvTask(c))
    /\ \A d \in Device :
         /\ WF_vars(\E c \in Conn : Owner[c] = d /\ Reconnect(c))
         /\ SF_vars(\E c \in Conn : Owner[c] = d /\ Receive(c))
    /\ WF_vars(\E e \in Event : NatsDeliver(e))
    /\ WF_vars(\E n \in Node, d \in Device : RevokeCut(n, d))

Spec == Init /\ [][Next]_vars /\ Fairness

-----------------------------------------------------------------------------
(***************************************************************************)
(* What the router promises.                                               *)
(***************************************************************************)

\* Every variable in its range; a handler is under way only on a connection
\* whose receive task runs.
TypeOK ==
    /\ active \subseteq Device
    /\ stored \subseteq Msg /\ delivered \subseteq Msg /\ readRows \subseteq Msg
    /\ registry \in [Node -> [Device -> Conn \cup {NoConn}]]
    /\ phase \in [Conn -> Phase]
    /\ work \in [Conn -> [type : WorkStep, msg : Msg] \cup {Idle}]
    /\ revoking \subseteq Node \X Device
    /\ nats \subseteq Event
    /\ alive \subseteq Conn
    /\ up \in [Conn -> SUBSET Frame] /\ down \in [Conn -> SUBSET Event]
    /\ ws \in [Device -> Conn \cup {NoConn}]
    /\ again \in 0 .. MaxAgain
    /\ outq \in [Device -> SUBSET Frame]
    /\ begun \subseteq Msg /\ confirmed \subseteq Msg /\ seen \subseteq Msg
    /\ drops \in 0 .. MaxDrops /\ faults \in 0 .. MaxFaults
    /\ posted \subseteq Msg
    /\ missed \in [Conn -> SUBSET Msg]
    /\ \A c \in Conn : work[c] # Idle => phase[c] = "running"

\* delivered_at says the recipient has decrypted the message ("Do NOT mark as
\* delivered here - wait for client MESSAGE_ACK after successful decrypt"),
\* and nobody decrypts what the router has not given an id; through any number
\* of dropped sockets, replays and repeated receipts.
DeliveredOnlyAfterDecrypt == delivered \subseteq seen /\ seen \subseteq posted

\* The registry never holds a connection that is gone, or another device's:
\* an entry always has a handler behind it that will still clean it up.
NoDanglingEntry ==
    \A n \in Node, d \in Device :
      LET c == Entry(n, d) IN
      c # NoConn =>
        /\ Host[c] = n /\ Owner[c] = d
        /\ phase[c] \in {"registered", "flushed", "running", "closing"}

\* m is on its way to c, or about to be routed.
Underway(c, m) ==
    \/ Frm("receive", m) \in down[c]
    \/ Frm("receive", m) \in nats
    \/ \E s \in Conn : work[s] = Frm("message", m)

\* A running connection that is its device's entry is owed nothing: every
\* undelivered message to the device has reached the client, is under way, or
\* was kept from it by an abort or a fault.  Persisting before routing and
\* registering before the flush are what closes the gap between the two.
NoGap ==
    \A c \in Conn :
      phase[c] = "running" /\ c \in alive /\ Entry(Host[c], Owner[c]) = c =>
        \A m \in Pending(Owner[c]) \ (seen \cup missed[c]) : Underway(c, m)

\* One-to-one messages keep the mailbox contract.
Box == INSTANCE Mailbox WITH taken <- seen, receipted <- delivered
ImplementsMailbox == Box!MailboxSpec

\* A stored message reaches its recipient, over as many reconnects as it
\* takes, unless the device was revoked or an abort left it to a flush that
\* has not happened since.
EventuallySeen ==
    \A m \in Msg :
      (m \in stored) ~> \/ m \in seen
                        \/ To[m] \notin active
                        \/ \E c \in Conn : m \in missed[c]

\* c is cut off: its registry entry is not its own (another connection's cleanup
\* took it), nor that of another socket of the client.  A client with two
\* sockets may have one that is no entry and stays, for the heartbeat takes the
\* other one's entry for its own.
Stranded(c) == /\ phase[c] = "running" /\ Entry(Host[c], Owner[c]) # c
               /\ Entry(Host[c], Owner[c]) \notin alive

\* No connection stays stranded, though every clean-up may strand another one:
\* it ends, or its client registers a new one, and again and again there is a
\* moment when none is.
StrandedConnectionHeals == []<>(\A c \in Conn : ~ Stranded(c))

=============================================================================
