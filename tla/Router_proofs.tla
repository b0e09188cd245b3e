--------------------------- MODULE Router_proofs ---------------------------
(***************************************************************************)
(* Theorems about Router, for any devices, connections, instances,         *)
(* messages and bounds.                                                    *)
(***************************************************************************)
EXTENDS Router, TLAPS

-----------------------------------------------------------------------------
(***************************************************************************)
(* Types.                                                                  *)
(***************************************************************************)

\* The facts about frames and events that every type step needs.
LEMMA FrameTypes ==
    /\ \A m \in Msg : \A t \in {"send", "ack", "read"} : Frm(t, m) \in Frame
    /\ \A m \in Msg : \A t \in {"receive", "confirm", "delivered", "read"} :
         Frm(t, m) \in Event
    /\ Frm("close", NoMsg) \in Event
    /\ \A m \in Msg : \A t \in WorkStep :
         Frm(t, m) \in [type : WorkStep, msg : Msg] /\ Frm(t, m) # Idle
    /\ \A f \in Frame : f.msg \in Msg
  BY DEF Frm, Frame, Event, WorkStep, Idle

\* Adding frames to a client's socket or queue keeps both typed.
LEMMA EmitType ==
  ASSUME TypeOK, NEW d \in Device, NEW fs \in SUBSET Frame, Emit(d, fs)
  PROVE  up' \in [Conn -> SUBSET Frame] /\ outq' \in [Device -> SUBSET Frame]
  BY DEF TypeOK, Emit

\* A fault, a second sign-in or a dead socket stays within its bound.
LEMMA WithinBoundsType ==
  ASSUME NEW n \in Nat, NEW max \in Nat, WithinBounds(n, max)
  PROVE  n + 1 \in 0 .. max
  BY DEF WithinBounds

\* A new socket of the client, whichever sign-in or timer it is for.
LEMMA ConnectType ==
  ASSUME TypeOK, NEW c \in Conn, Connect(c), again' \in 0 .. MaxAgain
  PROVE  TypeOK'
<1>1. /\ up' \in [Conn -> SUBSET Frame] /\ outq' \in [Device -> SUBSET Frame]
      /\ ws' \in [Device -> Conn \cup {NoConn}] /\ alive' \subseteq Conn
  BY RouterAssumption DEF Connect, TypeOK
<1>2. phase' \in [Conn -> Phase] /\ \A k \in Conn : work[k] # Idle => phase'[k] = "running"
  BY DEF Connect, TypeOK, Phase
<1>3. down' \in [Conn -> SUBSET Event] /\ missed' \in [Conn -> SUBSET Msg]
  BY DEF Connect, TypeOK
<1> QED
  BY <1>1, <1>2, <1>3 DEF Connect, TypeOK, dbVars

\* Routing an event on top of typed queues gives typed queues.
LEMMA DeliverType ==
  ASSUME TypeOK, NEW n \in Node, NEW e \in Event,
         NEW q \in [Conn -> SUBSET Event], DeliverEvent(n, q, e)
  PROVE  down' \in [Conn -> SUBSET Event] /\ nats' \in SUBSET Event
  BY DEF TypeOK, DeliverEvent, Pushed

\* Taking a frame leaves c's receive task busy with a step it may be busy
\* with, and nobody else's.
LEMMA TakeType ==
  ASSUME TypeOK, NEW c \in Conn, NEW f, phase' = phase,
         NEW next \in [type : WorkStep, msg : Msg] \cup {Idle}, Take(c, f, next)
  PROVE  /\ up' \in [Conn -> SUBSET Frame]
         /\ work' \in [Conn -> [type : WorkStep, msg : Msg] \cup {Idle}]
         /\ \A k \in Conn : work'[k] # Idle => phase'[k] = "running"
<1>1. up' \in [Conn -> SUBSET Frame]
  BY DEF TypeOK, Take
<1>2. work' \in [Conn -> [type : WorkStep, msg : Msg] \cup {Idle}]
  BY DEF TypeOK, Take
<1>3. ASSUME NEW k \in Conn, work'[k] # Idle PROVE phase'[k] = "running"
  BY <1>3 DEF TypeOK, Take, Reading
<1> QED
  BY <1>1, <1>2, <1>3

\* The client's reaction to a message.
LEMMA TakeMessageType ==
  ASSUME TypeOK, NEW c \in Conn, NEW m \in Msg, TakeMessage(c, m)
  PROVE  /\ up' \in [Conn -> SUBSET Frame] /\ outq' \in [Device -> SUBSET Frame]
         /\ seen' \in SUBSET Msg
         /\ faults' \in 0 .. MaxFaults /\ missed' \in [Conn -> SUBSET Msg]
<1>1. /\ To[m] \in Device
      /\ {Frm("ack", m)} \in SUBSET Frame
      /\ {Frm("ack", m), Frm("read", m)} \in SUBSET Frame
  BY FrameTypes, RouterAssumption
<1>2. CASE UNCHANGED <<seen, up, outq, faults, missed>>
  BY <1>2 DEF TypeOK
<1>3. CASE /\ seen' = seen \cup {m} /\ UNCHANGED <<faults, missed>>
           /\ Emit(To[m], {Frm("ack", m)}) \/ Emit(To[m], {Frm("ack", m), Frm("read", m)})
  <2>1. up' \in [Conn -> SUBSET Frame] /\ outq' \in [Device -> SUBSET Frame]
    BY <1>1, <1>3, EmitType
  <2> QED
    BY <1>3, <2>1 DEF TypeOK
<1>4. CASE /\ Fault /\ missed' = [missed EXCEPT ![c] = @ \cup {m}]
           /\ UNCHANGED <<seen, up, outq>>
  BY <1>4, RouterAssumption DEF Fault, WithinBounds, TypeOK
<1> QED
  BY <1>2, <1>3, <1>4 DEF TakeMessage

LEMMA InitType == Init => TypeOK
  BY RouterAssumption DEF Init, TypeOK, Phase, Idle

LEMMA StepType == TypeOK /\ [Next]_vars => TypeOK'
<1> SUFFICES ASSUME TypeOK, [Next]_vars PROVE TypeOK'
  OBVIOUS
<1> USE RouterAssumption
<1>1. ASSUME NEW c \in Conn, Reconnect(c) \/ SignInAgain(c) PROVE TypeOK'
  <2>1. again' \in 0 .. MaxAgain
    BY <1>1, WithinBoundsType DEF Reconnect, SignInAgain, TypeOK
  <2> QED
    BY <1>1, <2>1, ConnectType DEF Reconnect, SignInAgain
<1>2. ASSUME NEW m \in Msg, Compose(m) PROVE TypeOK'
  <2>1. Frm("send", m) \in Frame
    BY FrameTypes
  <2>2. up' \in [Conn -> SUBSET Frame] /\ outq' \in [Device -> SUBSET Frame]
    BY <1>2, <2>1, EmitType DEF Compose
  <2> QED
    BY <1>2, <2>2 DEF Compose, TypeOK, dbVars, nodeVars, envVars
<1>3. ASSUME NEW c \in Conn, NEW e \in Event, ClientReceive(c, e) PROVE TypeOK'
  <2>1. CASE e.type = "receive"
    <3>1. e.msg \in Msg
      BY <2>1 DEF Event
    <3>2. TakeMessage(c, e.msg)
      BY <1>3, <2>1 DEF ClientReceive
    <3>3. /\ up' \in [Conn -> SUBSET Frame] /\ outq' \in [Device -> SUBSET Frame]
          /\ seen' \in SUBSET Msg
          /\ faults' \in 0 .. MaxFaults /\ missed' \in [Conn -> SUBSET Msg]
      BY <3>1, <3>2, TakeMessageType
    <3> QED
      BY <1>3, <2>1, <3>3 DEF ClientReceive, TypeOK, dbVars, nodeVars
  <2>2. CASE e.type # "receive"
    <3>1. e.type = "confirm" => e.msg \in Msg
      BY DEF Event
    <3> QED
      BY <1>3, <2>2, <3>1 DEF ClientReceive, OnClose, TypeOK, dbVars, nodeVars
  <2> QED
    BY <2>1, <2>2
<1>4. ASSUME NEW c \in Conn, Drop(c) PROVE TypeOK'
  BY <1>4 DEF Drop, WithinBounds, OnClose, TypeOK, dbVars, nodeVars, clientVars
<1>5. ASSUME NEW c \in Conn, Authenticate(c) PROVE TypeOK'
  BY <1>5, WithinBoundsType DEF Authenticate, Fault, TypeOK, Phase, dbVars, netVars, clientVars
<1>6. ASSUME NEW c \in Conn, Unauthenticated(c) PROVE TypeOK'
  BY <1>6 DEF Unauthenticated, TypeOK, Phase, dbVars, netVars, clientVars, envVars
<1>7. ASSUME NEW c \in Conn, PreAuthFrame(c) PROVE TypeOK'
  BY <1>7 DEF PreAuthFrame, TypeOK, Phase, dbVars, clientVars, envVars
<1>8. ASSUME NEW c \in Conn, Register(c) PROVE TypeOK'
  BY <1>8 DEF Register, TypeOK, Phase, dbVars, netVars, clientVars, envVars
<1>9. ASSUME NEW c \in Conn, Flush(c) PROVE TypeOK'
  <2>1. Pending(Owner[c]) \subseteq Msg /\ Receives(Pending(Owner[c])) \subseteq Event
    BY FrameTypes DEF Pending, Receives, TypeOK
  <2>2. /\ down' \in [Conn -> SUBSET Event] /\ missed' \in [Conn -> SUBSET Msg]
        /\ faults' \in 0 .. MaxFaults
    <3>1. CASE UNCHANGED faults /\ missed' = [missed EXCEPT ![c] = {}]
                /\ down' = [down EXCEPT ![c] = @ \cup Receives(Pending(Owner[c]))]
      BY <2>1, <3>1 DEF TypeOK
    <3>2. CASE Fault /\ missed' = [missed EXCEPT ![c] = Pending(Owner[c])]
                /\ UNCHANGED down
      BY <2>1, <3>2 DEF Fault, WithinBounds, TypeOK
    <3> QED
      BY <1>9, <3>1, <3>2 DEF Flush
  <2>3. \A k \in Conn : work[k] # Idle => phase'[k] = "running"
    BY <1>9 DEF Flush, TypeOK
  <2> QED
    BY <1>9, <2>2, <2>3 DEF Flush, TypeOK, Phase, dbVars, clientVars
<1>10. ASSUME NEW c \in Conn, Subscribe(c) PROVE TypeOK'
  BY <1>10 DEF Subscribe, TypeOK, Phase, dbVars, netVars, clientVars, envVars
<1>11. ASSUME NEW c \in Conn, NEW m \in Msg, HandleSend(c, m) PROVE TypeOK'
  <2>1. PICK next \in {Idle, Frm("insert", m)} : Take(c, Frm("send", m), next)
    BY <1>11 DEF HandleSend
  <2>2. next \in [type : WorkStep, msg : Msg] \cup {Idle}
    BY FrameTypes DEF WorkStep
  <2>3. phase' = phase /\ faults' \in 0 .. MaxFaults
    BY <1>11 DEF HandleSend, Fault, WithinBounds, TypeOK
  <2>4. /\ up' \in [Conn -> SUBSET Frame]
        /\ work' \in [Conn -> [type : WorkStep, msg : Msg] \cup {Idle}]
        /\ \A k \in Conn : work'[k] # Idle => phase'[k] = "running"
    BY <2>1, <2>2, <2>3, TakeType
  <2> QED
    BY <1>11, <2>3, <2>4 DEF HandleSend, TypeOK, dbVars, clientVars
<1>12. ASSUME NEW c \in Conn, NEW m \in Msg, HandleAck(c, m) \/ HandleRead(c, m)
       PROVE TypeOK'
  <2>1. PICK f \in Frame, next \in {Idle, Frm("delivered", m), Frm("read", m)} :
          Take(c, f, next)
    BY <1>12, FrameTypes DEF HandleAck, HandleRead, RefuseReceipt
  <2>2. next \in [type : WorkStep, msg : Msg] \cup {Idle}
    BY FrameTypes DEF WorkStep
  <2>3. /\ phase' = phase /\ faults' \in 0 .. MaxFaults
        /\ delivered' \subseteq Msg /\ readRows' \subseteq Msg
    BY <1>12 DEF HandleAck, HandleRead, RefuseReceipt, Fault, WithinBounds, TypeOK
  <2>4. /\ up' \in [Conn -> SUBSET Frame]
        /\ work' \in [Conn -> [type : WorkStep, msg : Msg] \cup {Idle}]
        /\ \A k \in Conn : work'[k] # Idle => phase'[k] = "running"
    BY <2>1, <2>2, <2>3, TakeType
  <2> QED
    BY <1>12, <2>3, <2>4 DEF HandleAck, HandleRead, TypeOK, clientVars
<1>13. ASSUME NEW c \in Conn, Persist(c) PROVE TypeOK'
  <2>1. work[c].msg \in Msg /\ work[c] # Idle
    BY <1>13 DEF Persist, TypeOK, Idle, Frm
  <2>2. Frm("message", work[c].msg) \in [type : WorkStep, msg : Msg]
    BY <2>1, FrameTypes DEF WorkStep
  <2>3. stored' \subseteq Msg /\ faults' \in 0 .. MaxFaults
    BY <1>13, <2>1 DEF Persist, Fault, WithinBounds, TypeOK
  <2> QED
    BY <1>13, <2>1, <2>2, <2>3 DEF Persist, TypeOK, netVars, clientVars
<1>14. ASSUME NEW c \in Conn, RouteMessage(c) PROVE TypeOK'
  <2> DEFINE s == Entry(Host[c], Owner[c])
             q == IF s # NoConn THEN Pushed(down, s, Frm("confirm", work[c].msg)) ELSE down
  <2>1. work[c].msg \in Msg /\ Host[c] \in Node
    BY <1>14 DEF RouteMessage, TypeOK, Idle, Frm
  <2>2. Frm("confirm", work[c].msg) \in Event /\ Frm("receive", work[c].msg) \in Event
    BY <2>1, FrameTypes
  <2>3. q \in [Conn -> SUBSET Event]
    BY <2>2 DEF TypeOK, Pushed, Entry
  <2>4. DeliverEvent(Host[c], q, Frm("receive", work[c].msg))
    BY <1>14 DEF RouteMessage
  <2>5. down' \in [Conn -> SUBSET Event] /\ nats' \in SUBSET Event
    BY <2>1, <2>2, <2>3, <2>4, DeliverType
  <2> QED
    BY <1>14, <2>5 DEF RouteMessage, TypeOK, dbVars, clientVars, envVars
<1>15. ASSUME NEW c \in Conn, RouteStatus(c) PROVE TypeOK'
  <2>1. work[c] \in Event /\ Host[c] \in Node
    BY <1>15 DEF RouteStatus, TypeOK, Idle, Frm, Event
  <2>2. down' \in [Conn -> SUBSET Event] /\ nats' \in SUBSET Event
    BY <1>15, <2>1, DeliverType DEF RouteStatus, TypeOK
  <2> QED
    BY <1>15, <2>2 DEF RouteStatus, TypeOK, dbVars, clientVars, envVars
<1>16. ASSUME NEW e \in Event, NatsDeliver(e) PROVE TypeOK'
  BY <1>16 DEF NatsDeliver, TypeOK, dbVars, clientVars, envVars
<1>17. ASSUME NEW e \in Event, NatsLose(e) PROVE TypeOK'
  <2>1. missed' \in [Conn -> SUBSET Msg]
    BY <1>17 DEF NatsLose, TypeOK, Event
  <2> QED
    BY <1>17, <2>1 DEF NatsLose, Fault, WithinBounds, TypeOK, dbVars, netVars, clientVars
<1>18. ASSUME NEW c \in Conn, NoticeRecv(c) \/ NoticeSend(c) \/ Heartbeat(c) PROVE TypeOK'
  <2>1. work[c].type = "message" => work[c].msg \in Msg
    BY DEF TypeOK, Idle, Frm
  <2>2. EndTasks(c)
    BY <1>18 DEF NoticeRecv, NoticeSend, Heartbeat
  <2>3. missed' \in [Conn -> SUBSET Msg]
    BY <2>1, <2>2 DEF EndTasks, TypeOK
  <2>4. phase' \in [Conn -> Phase]
    BY <2>2 DEF EndTasks, TypeOK, Phase
  <2>5. /\ work' \in [Conn -> [type : WorkStep, msg : Msg] \cup {Idle}]
        /\ \A k \in Conn : work'[k] # Idle => phase'[k] = "running"
    BY <2>2 DEF EndTasks, TypeOK
  <2> QED
    BY <1>18, <2>3, <2>4, <2>5
    DEF NoticeRecv, NoticeSend, Heartbeat, TypeOK, dbVars, netVars, clientVars
<1>19. ASSUME NEW c \in Conn, Cleanup(c) PROVE TypeOK'
  BY <1>19 DEF Cleanup, OnClose, TypeOK, Phase, dbVars, clientVars, envVars
<1>20. ASSUME NEW n \in Node, NEW d \in Device, RevokeCommit(n, d) PROVE TypeOK'
  BY <1>20 DEF RevokeCommit, TypeOK, netVars, clientVars, envVars
<1>21. ASSUME NEW n \in Node, NEW d \in Device, RevokeCut(n, d) PROVE TypeOK'
  <2>1. down' \in [Conn -> SUBSET Event]
    BY <1>21, FrameTypes DEF RevokeCut, TypeOK, Pushed, Entry
  <2> QED
    BY <1>21, <2>1 DEF RevokeCut, TypeOK, dbVars, clientVars, envVars
<1>22. CASE UNCHANGED vars
  BY <1>22 DEF TypeOK, vars, dbVars, nodeVars, netVars, clientVars, envVars
<1> QED
  BY <1>1, <1>2, <1>3, <1>4, <1>5, <1>6, <1>7, <1>8, <1>9, <1>10, <1>11, <1>12, <1>13,
     <1>14, <1>15, <1>16, <1>17, <1>18, <1>19, <1>20, <1>21, <1>22
  DEF Next, HandleSocket, RecvTask, HandleFrame, Receive

\* Every reachable state is well typed; in particular, no handler outlives the
\* receive task it runs in.
THEOREM TypeCorrect == Spec => []TypeOK
  BY InitType, StepType, PTL DEF Spec

-----------------------------------------------------------------------------
(***************************************************************************)
(* Receipts.  delivered_at is set from a client's frame, long after and    *)
(* over any number of sockets; what makes it true is where the frames and  *)
(* the events in every queue came from.                                    *)
(***************************************************************************)

IsReceipt(f) == f.type \in {"ack", "read"}
ReceiptsOfSeen(q) == \A f \in q : IsReceipt(f) => f.msg \in seen
ReceivesOfPosted(q) == \A e \in q : e.type = "receive" => e.msg \in posted

\* A receipt under way is for a message that was decrypted; a message under
\* way, in a queue, in NATS, in the table or in a handler, has an id.
Sourced ==
    /\ \A c \in Conn : ReceiptsOfSeen(up[c])
    /\ \A d \in Device : ReceiptsOfSeen(outq[d])
    /\ \A c \in Conn : ReceivesOfPosted(down[c])
    /\ ReceivesOfPosted(nats)
    /\ \A c \in Conn : work[c].type = "message" => work[c].msg \in posted
    /\ stored \subseteq posted

ReceiptInv == TypeOK /\ Sourced /\ DeliveredOnlyAfterDecrypt

LEMMA InitReceipt == Init => Sourced /\ DeliveredOnlyAfterDecrypt
  BY RouterAssumption
  DEF Init, Sourced, DeliveredOnlyAfterDecrypt, ReceiptsOfSeen, ReceivesOfPosted, Idle, Frm

\* Frames that are no receipts, or receipts of what has been seen by the end
\* of the step, may be added anywhere.
LEMMA EmitSourced ==
  ASSUME TypeOK, Sourced, NEW d \in Device, NEW fs, Emit(d, fs), seen \subseteq seen',
         \A f \in fs : IsReceipt(f) => f.msg \in seen'
  PROVE  /\ \A c \in Conn : ReceiptsOfSeen(up[c])'
         /\ \A k \in Device : ReceiptsOfSeen(outq[k])'
<1>1. CASE ws[d] # NoConn
  BY <1>1 DEF TypeOK, Sourced, Emit, ReceiptsOfSeen
<1>2. CASE ws[d] = NoConn
  BY <1>2 DEF TypeOK, Sourced, Emit, ReceiptsOfSeen
<1> QED
  BY <1>1, <1>2

\* Routing a message that has an id, or anything else.
LEMMA DeliverSourced ==
  ASSUME TypeOK, Sourced, NEW n \in Node, NEW e \in Event, NEW q, UNCHANGED posted,
         q \in [Conn -> SUBSET Event], \A c \in Conn : ReceivesOfPosted(q[c]),
         e.type = "receive" => e.msg \in posted, DeliverEvent(n, q, e)
  PROVE  /\ \A c \in Conn : ReceivesOfPosted(down[c])'
         /\ ReceivesOfPosted(nats)'
  BY DEF TypeOK, Sourced, DeliverEvent, Pushed, ReceivesOfPosted

LEMMA StepReceipt ==
  ReceiptInv /\ [Next]_vars => Sourced' /\ DeliveredOnlyAfterDecrypt'
<1> SUFFICES ASSUME ReceiptInv, [Next]_vars PROVE Sourced' /\ DeliveredOnlyAfterDecrypt'
  OBVIOUS
<1> USE RouterAssumption DEF ReceiptInv
<1> DEFINE Goal == Sourced' /\ DeliveredOnlyAfterDecrypt'
<1>1. ASSUME NEW c \in Conn, Reconnect(c) \/ SignInAgain(c) PROVE Goal
  <2>1. Connect(c)
    BY <1>1 DEF Reconnect, SignInAgain
  <2>2. /\ \A k \in Conn : ReceiptsOfSeen(up[k])'
        /\ \A d \in Device : ReceiptsOfSeen(outq[d])'
    BY <2>1 DEF Connect, TypeOK, Sourced, ReceiptsOfSeen
  <2>3. \A k \in Conn : ReceivesOfPosted(down[k])'
    BY <2>1 DEF Connect, TypeOK, Sourced, ReceivesOfPosted
  <2> QED
    BY <2>1, <2>2, <2>3 DEF Connect, Sourced, DeliveredOnlyAfterDecrypt, ReceivesOfPosted, dbVars
<1>2. ASSUME NEW m \in Msg, Compose(m) PROVE Goal
  <2>1. ~ IsReceipt(Frm("send", m))
    BY DEF IsReceipt, Frm
  <2>2. /\ \A c \in Conn : ReceiptsOfSeen(up[c])'
        /\ \A k \in Device : ReceiptsOfSeen(outq[k])'
    BY <1>2, <2>1, EmitSourced DEF Compose
  <2> QED
    BY <1>2, <2>2 DEF Compose, Sourced, DeliveredOnlyAfterDecrypt, ReceivesOfPosted,
                      dbVars, nodeVars, envVars
<1>3. ASSUME NEW c \in Conn, NEW e \in Event, ClientReceive(c, e) PROVE Goal
  <2>1. \A k \in Conn : ReceivesOfPosted(down[k])'
    BY <1>3 DEF ClientReceive, TypeOK, Sourced, ReceivesOfPosted
  <2>2. CASE e.type = "receive"
    <3>1. e.msg \in Msg /\ e.msg \in posted /\ To[e.msg] \in Device /\ TakeMessage(c, e.msg)
      BY <1>3, <2>2 DEF ClientReceive, Event, Sourced, ReceivesOfPosted
    <3>2. seen \subseteq seen' /\ seen' \subseteq seen \cup {e.msg}
      BY <3>1 DEF TakeMessage
    <3>3. /\ \A k \in Conn : ReceiptsOfSeen(up[k])'
          /\ \A k \in Device : ReceiptsOfSeen(outq[k])'
      <4>1. CASE UNCHANGED <<up, outq>>
        BY <3>2, <4>1 DEF Sourced, ReceiptsOfSeen
      <4>2. CASE /\ seen' = seen \cup {e.msg}
                 /\ \/ Emit(To[e.msg], {Frm("ack", e.msg)})
                    \/ Emit(To[e.msg], {Frm("ack", e.msg), Frm("read", e.msg)})
        <5>1. \A f \in {Frm("ack", e.msg), Frm("read", e.msg)} : f.msg \in seen'
          BY <4>2 DEF Frm
        <5> QED
          BY <3>1, <3>2, <4>2, <5>1, EmitSourced
      <4> QED
        BY <3>1, <4>1, <4>2 DEF TakeMessage
    <3> QED
      BY <1>3, <2>1, <3>1, <3>2, <3>3
      DEF ClientReceive, Sourced, DeliveredOnlyAfterDecrypt, ReceivesOfPosted,
          dbVars, nodeVars
  <2>3. CASE e.type # "receive"
    BY <1>3, <2>1, <2>3
    DEF ClientReceive, Sourced, DeliveredOnlyAfterDecrypt, ReceiptsOfSeen, ReceivesOfPosted,
        dbVars, nodeVars, envVars
  <2> QED
    BY <2>2, <2>3
<1>4. ASSUME NEW c \in Conn,
             Drop(c) \/ Authenticate(c) \/ Unauthenticated(c) \/ Register(c) \/ Subscribe(c)
      PROVE Goal
  BY <1>4 DEF Drop, OnClose, Authenticate, Unauthenticated, Register, Subscribe, Sourced,
              DeliveredOnlyAfterDecrypt, ReceiptsOfSeen, ReceivesOfPosted,
              dbVars, nodeVars, netVars, clientVars, envVars
<1>5. ASSUME NEW c \in Conn, PreAuthFrame(c) PROVE Goal
  BY <1>5 DEF PreAuthFrame, TypeOK, Sourced, DeliveredOnlyAfterDecrypt, ReceiptsOfSeen,
              ReceivesOfPosted, dbVars, clientVars, envVars
<1>6. ASSUME NEW c \in Conn, Flush(c) PROVE Goal
  <2>1. ReceivesOfPosted(Receives(Pending(Owner[c])))
    BY DEF ReceivesOfPosted, Receives, Pending, Frm, Sourced
  <2>2. \A k \in Conn : ReceivesOfPosted(down[k])'
    BY <1>6, <2>1 DEF Flush, TypeOK, Sourced, ReceivesOfPosted
  <2> QED
    BY <1>6, <2>2 DEF Flush, Sourced, DeliveredOnlyAfterDecrypt, ReceiptsOfSeen,
                      ReceivesOfPosted, dbVars, clientVars
<1>7. ASSUME NEW c \in Conn, NEW m \in Msg,
             HandleSend(c, m) \/ HandleAck(c, m) \/ HandleRead(c, m)
      PROVE Goal
  <2>1. PICK f \in Frame, next \in {Idle, Frm("insert", m), Frm("delivered", m), Frm("read", m)} :
          Take(c, f, next)
    BY <1>7, FrameTypes DEF HandleSend, HandleAck, HandleRead, RefuseReceipt
  <2>2. \A k \in Conn : ReceiptsOfSeen(up[k])'
    BY <1>7, <2>1 DEF Take, TypeOK, Sourced, ReceiptsOfSeen, HandleSend, HandleAck,
                      HandleRead, clientVars
  <2>3. \A k \in Conn : work'[k].type = "message" => work'[k].msg \in posted
    BY <2>1 DEF Take, TypeOK, Sourced, Idle, Frm
  <2>4. delivered' \subseteq seen
    <3>1. CASE Take(c, Frm("ack", m), Frm("delivered", m)) \/ Take(c, Frm("read", m), Frm("read", m))
      <4>1. m \in seen
        BY <3>1 DEF Take, Sourced, ReceiptsOfSeen, IsReceipt, Frm
      <4> QED
        BY <1>7, <4>1 DEF HandleSend, HandleAck, HandleRead, RefuseReceipt,
                          DeliveredOnlyAfterDecrypt, dbVars
    <3>2. CASE delivered' = delivered
      BY <3>2 DEF DeliveredOnlyAfterDecrypt
    <3> QED
      BY <1>7, <3>1, <3>2 DEF HandleSend, HandleAck, HandleRead, RefuseReceipt, dbVars
  <2> QED
    BY <1>7, <2>2, <2>3, <2>4
    DEF HandleSend, HandleAck, HandleRead, Sourced, DeliveredOnlyAfterDecrypt,
        ReceiptsOfSeen, ReceivesOfPosted, dbVars, clientVars
<1>8. ASSUME NEW c \in Conn, Persist(c) PROVE Goal
  <2>1. \A k \in Conn : work'[k].type = "message" => work'[k].msg \in posted'
    BY <1>8 DEF Persist, TypeOK, Sourced, Frm
  <2> QED
    BY <1>8, <2>1 DEF Persist, Sourced, DeliveredOnlyAfterDecrypt, ReceiptsOfSeen,
                      ReceivesOfPosted, netVars, clientVars
<1>9. ASSUME NEW c \in Conn, RouteMessage(c) PROVE Goal
  <2> DEFINE s == Entry(Host[c], Owner[c])
             q == IF s # NoConn THEN Pushed(down, s, Frm("confirm", work[c].msg)) ELSE down
  <2>1. work[c].msg \in Msg /\ Host[c] \in Node /\ work[c].msg \in posted
    BY <1>9 DEF RouteMessage, TypeOK, Idle, Frm, Sourced
  <2>2. Frm("confirm", work[c].msg) \in Event /\ Frm("receive", work[c].msg) \in Event
    BY <2>1, FrameTypes
  <2>3. q \in [Conn -> SUBSET Event]
    BY <2>2 DEF TypeOK, Pushed, Entry
  <2>4. \A k \in Conn : ReceivesOfPosted(q[k])
    BY <2>2 DEF TypeOK, Pushed, Entry, Sourced, ReceivesOfPosted, Frm
  <2>5. DeliverEvent(Host[c], q, Frm("receive", work[c].msg)) /\ UNCHANGED posted
    BY <1>9 DEF RouteMessage, envVars
  <2>6. (\A k \in Conn : ReceivesOfPosted(down[k])') /\ ReceivesOfPosted(nats)'
    <3> HIDE DEF q
    <3>1. Frm("receive", work[c].msg).msg \in posted
      BY <2>1 DEF Frm
    <3> QED
      BY <2>1, <2>2, <2>3, <2>4, <2>5, <3>1, DeliverSourced
  <2> QED
    BY <1>9, <2>6 DEF RouteMessage, TypeOK, Sourced, DeliveredOnlyAfterDecrypt,
                      ReceiptsOfSeen, Idle, Frm, dbVars, clientVars, envVars
<1>10. ASSUME NEW c \in Conn, RouteStatus(c) PROVE Goal
  <2>1. work[c] \in Event /\ Host[c] \in Node /\ work[c].type # "receive"
    BY <1>10 DEF RouteStatus, TypeOK, Idle, Frm, Event
  <2>2. (\A k \in Conn : ReceivesOfPosted(down[k])') /\ ReceivesOfPosted(nats)'
    BY <1>10, <2>1, DeliverSourced DEF RouteStatus, TypeOK, Sourced, envVars
  <2> QED
    BY <1>10, <2>2 DEF RouteStatus, TypeOK, Sourced, DeliveredOnlyAfterDecrypt,
                       ReceiptsOfSeen, Idle, Frm, dbVars, clientVars, envVars
<1>11. ASSUME NEW e \in Event, NatsDeliver(e) \/ NatsLose(e) PROVE Goal
  BY <1>11 DEF NatsDeliver, NatsLose, TypeOK, Sourced, DeliveredOnlyAfterDecrypt,
               ReceiptsOfSeen, ReceivesOfPosted, dbVars, netVars, clientVars, envVars
<1>12. ASSUME NEW c \in Conn, NoticeRecv(c) \/ NoticeSend(c) \/ Heartbeat(c) PROVE Goal
  <2>1. \A k \in Conn : work'[k].type = "message" => work'[k].msg \in posted
    <3>1. work' = [work EXCEPT ![c] = Idle]
      BY <1>12 DEF NoticeRecv, NoticeSend, Heartbeat, EndTasks
    <3> QED
      BY <3>1 DEF TypeOK, Sourced, Idle, Frm
  <2> QED
    BY <1>12, <2>1 DEF NoticeRecv, NoticeSend, Heartbeat, Sourced, DeliveredOnlyAfterDecrypt,
                       ReceiptsOfSeen, ReceivesOfPosted, dbVars, netVars, clientVars
<1>13. ASSUME NEW c \in Conn, Cleanup(c) PROVE Goal
  BY <1>13 DEF Cleanup, OnClose, TypeOK, Sourced, DeliveredOnlyAfterDecrypt, ReceiptsOfSeen,
               ReceivesOfPosted, dbVars, clientVars, envVars
<1>14. ASSUME NEW n \in Node, NEW d \in Device, RevokeCommit(n, d) PROVE Goal
  BY <1>14 DEF RevokeCommit, Sourced, DeliveredOnlyAfterDecrypt, ReceiptsOfSeen,
               ReceivesOfPosted, netVars, clientVars, envVars
<1>15. ASSUME NEW n \in Node, NEW d \in Device, RevokeCut(n, d) PROVE Goal
  <2>1. \A k \in Conn : ReceivesOfPosted(down[k])'
    BY <1>15 DEF RevokeCut, TypeOK, Sourced, ReceivesOfPosted, Pushed, Entry, Frm, envVars
  <2> QED
    BY <1>15, <2>1 DEF RevokeCut, Sourced, DeliveredOnlyAfterDecrypt, ReceiptsOfSeen,
                       ReceivesOfPosted, dbVars, clientVars, envVars
<1>16. CASE UNCHANGED vars
  BY <1>16 DEF Sourced, DeliveredOnlyAfterDecrypt, ReceiptsOfSeen, ReceivesOfPosted,
               vars, dbVars, nodeVars, netVars, clientVars, envVars
<1> QED
  BY <1>1, <1>2, <1>3, <1>4, <1>5, <1>6, <1>7, <1>8, <1>9, <1>10, <1>11, <1>12, <1>13,
     <1>14, <1>15, <1>16
  DEF Next, HandleSocket, RecvTask, HandleFrame, Receive

LEMMA ReceiptInvariant == Spec => []ReceiptInv
<1>1. Init => ReceiptInv
  BY InitType, InitReceipt DEF ReceiptInv
<1>2. ReceiptInv /\ [Next]_vars => ReceiptInv'
  BY StepType, StepReceipt DEF ReceiptInv
<1> QED
  BY <1>1, <1>2, PTL DEF Spec

\* delivered_at is set only for messages the recipient has decrypted, and only
\* messages with an id are decrypted, whatever is lost, replayed, reordered or
\* cut off in between.
THEOREM DeliveryIsTrue == Spec => []DeliveredOnlyAfterDecrypt
  BY ReceiptInvariant, PTL DEF ReceiptInv

-----------------------------------------------------------------------------
(***************************************************************************)
(* The router implements the mailbox: each of its steps is one step of the *)
(* mailbox, or leaves the mailbox as it is.                                *)
(***************************************************************************)

LEMMA StepMailbox == ReceiptInv /\ [Next]_vars => [Box!MailboxNext]_(Box!mailboxVars)
<1> SUFFICES ASSUME ReceiptInv, [Next]_vars
             PROVE  [Box!MailboxNext]_(Box!mailboxVars)
  OBVIOUS
<1> USE RouterAssumption DEF ReceiptInv
<1> DEFINE Goal == [Box!MailboxNext]_(Box!mailboxVars)
\* Persist gives an id, unless the message had one.
<1>1. ASSUME NEW c \in Conn, Persist(c) PROVE Goal
  <2>1. work[c].msg \in Msg
    BY <1>1 DEF Persist, TypeOK, Idle, Frm
  <2>2. posted' = posted \cup {work[c].msg} /\ UNCHANGED <<seen, delivered>>
    BY <1>1 DEF Persist, clientVars
  <2>3. CASE work[c].msg \in posted
    <3>1. posted' = posted
      BY <2>2, <2>3
    <3> QED
      BY <2>2, <3>1 DEF Box!mailboxVars
  <2>4. CASE work[c].msg \notin posted
    <3>1. Box!Post(work[c].msg)
      BY <2>2, <2>4 DEF Box!Post
    <3> QED
      BY <2>1, <3>1 DEF Box!MailboxNext
  <2> QED
    BY <2>3, <2>4
\* The client takes a message, or receives something else or the same again.
<1>2. ASSUME NEW c \in Conn, NEW e \in Event, ClientReceive(c, e) PROVE Goal
  <2>1. UNCHANGED <<posted, delivered>>
    BY <1>2 DEF ClientReceive, dbVars
  <2>2. CASE e.type = "receive" /\ e.msg \notin seen
    <3>1. e.msg \in Msg /\ e.msg \in posted /\ seen' \in {seen, seen \cup {e.msg}}
      BY <1>2, <2>2 DEF ClientReceive, TakeMessage, Event, Sourced, ReceivesOfPosted
    <3>2. seen' = seen \/ Box!Take(e.msg)
      BY <2>1, <2>2, <3>1 DEF Box!Take
    <3> QED
      BY <2>1, <3>1, <3>2 DEF Box!MailboxNext, Box!mailboxVars
  <2>3. CASE e.type # "receive" \/ e.msg \in seen
    <3>1. seen' = seen
      BY <1>2, <2>3 DEF ClientReceive, TakeMessage
    <3> QED
      BY <2>1, <3>1 DEF Box!mailboxVars
  <2> QED
    BY <2>2, <2>3
\* A receipt that is accepted is the mailbox's, the first time.
<1>3. ASSUME NEW c \in Conn, NEW m \in Msg, HandleAck(c, m) \/ HandleRead(c, m)
      PROVE Goal
  <2>1. UNCHANGED <<posted, seen>>
    BY <1>3 DEF HandleAck, HandleRead, clientVars
  <2>2. CASE delivered' = delivered
    BY <2>1, <2>2 DEF Box!mailboxVars
  <2>3. CASE delivered' # delivered
    <3>1. /\ Take(c, Frm("ack", m), Frm("delivered", m)) \/ Take(c, Frm("read", m), Frm("read", m))
          /\ delivered' = delivered \cup {m}
      BY <1>3, <2>3 DEF HandleAck, HandleRead, RefuseReceipt
    <3>2. m \in seen
      BY <3>1 DEF Take, Sourced, ReceiptsOfSeen, IsReceipt, Frm
    <3>3. Box!Receipt(m)
      BY <2>1, <2>3, <3>1, <3>2 DEF Box!Receipt
    <3> QED
      BY <3>3 DEF Box!MailboxNext
  <2> QED
    BY <2>2, <2>3
\* Every other step leaves the three sets alone.
<1>4. ASSUME UNCHANGED <<posted, seen, delivered>> PROVE Goal
  BY <1>4 DEF Box!mailboxVars
<1>5. ASSUME NEW c \in Conn,
             \/ Reconnect(c) \/ SignInAgain(c) \/ Drop(c) \/ Authenticate(c)
             \/ Unauthenticated(c) \/ PreAuthFrame(c) \/ Register(c) \/ Flush(c) \/ Subscribe(c)
             \/ RouteMessage(c) \/ RouteStatus(c) \/ NoticeRecv(c) \/ NoticeSend(c)
             \/ Heartbeat(c) \/ Cleanup(c) \/ \E m \in Msg : HandleSend(c, m)
      PROVE UNCHANGED <<posted, seen, delivered>>
  BY <1>5 DEF Reconnect, SignInAgain, Connect, Drop, Authenticate, Unauthenticated, PreAuthFrame, Register, Flush,
              Subscribe, RouteMessage, RouteStatus, NoticeRecv, NoticeSend, Heartbeat,
              Cleanup, HandleSend, dbVars, clientVars, envVars
<1>6. ASSUME \/ \E m \in Msg : Compose(m)
             \/ \E e \in Event : NatsDeliver(e) \/ NatsLose(e)
             \/ \E n \in Node, d \in Device : RevokeCommit(n, d) \/ RevokeCut(n, d)
             \/ UNCHANGED vars
      PROVE UNCHANGED <<posted, seen, delivered>>
  BY <1>6 DEF Compose, NatsDeliver, NatsLose, RevokeCommit, RevokeCut, vars, dbVars,
              clientVars, envVars
<1> QED
  BY <1>1, <1>2, <1>3, <1>4, <1>5, <1>6 DEF Next, HandleSocket, RecvTask, HandleFrame, Receive

\* The router, with every socket, instance, replay and fault in it, keeps the
\* mailbox contract for each message.
THEOREM RouterImplementsMailbox == Spec => ImplementsMailbox
<1>1. Init => Box!MailboxInit
  BY DEF Init, Box!MailboxInit
<1> QED
  BY <1>1, ReceiptInvariant, StepMailbox, PTL DEF Spec, ImplementsMailbox, Box!MailboxSpec

-----------------------------------------------------------------------------
(***************************************************************************)
(* The registry.                                                           *)
(***************************************************************************)

LEMMA StepDangling == TypeOK /\ NoDanglingEntry /\ [Next]_vars => NoDanglingEntry'
<1> SUFFICES ASSUME TypeOK, NoDanglingEntry, [Next]_vars PROVE NoDanglingEntry'
  OBVIOUS
<1> USE RouterAssumption
\* Phases move on, and a registered connection stays registered or closes.
<1>1. ASSUME UNCHANGED registry,
             \A c \in Conn : phase[c] \in {"registered", "flushed", "running", "closing"}
               => phase'[c] \in {"registered", "flushed", "running", "closing"}
      PROVE NoDanglingEntry'
  BY <1>1 DEF NoDanglingEntry, Entry, TypeOK
<1>2. ASSUME NEW c \in Conn,
             \/ Reconnect(c) \/ SignInAgain(c) \/ Authenticate(c) \/ Unauthenticated(c)
             \/ PreAuthFrame(c) \/ Flush(c) \/ Subscribe(c) \/ NoticeRecv(c) \/ NoticeSend(c) \/ Heartbeat(c)
      PROVE NoDanglingEntry'
  BY <1>1, <1>2 DEF Reconnect, SignInAgain, Connect, Authenticate, Unauthenticated, PreAuthFrame, Flush, Subscribe,
                    NoticeRecv, NoticeSend, Heartbeat, EndTasks, Reading, TypeOK
<1>3. ASSUME NEW c \in Conn, Register(c) PROVE NoDanglingEntry'
  BY <1>3 DEF Register, NoDanglingEntry, Entry, TypeOK
<1>4. ASSUME NEW c \in Conn, Cleanup(c) PROVE NoDanglingEntry'
  BY <1>4 DEF Cleanup, OnClose, NoDanglingEntry, Entry, TypeOK
<1>5. ASSUME NEW n \in Node, NEW d \in Device, RevokeCut(n, d) PROVE NoDanglingEntry'
  BY <1>5 DEF RevokeCut, NoDanglingEntry, Entry, TypeOK
<1>6. ASSUME NEW c \in Conn,
             \/ Drop(c) \/ Receive(c) \/ HandleFrame(c) \/ Persist(c)
             \/ RouteMessage(c) \/ RouteStatus(c)
      PROVE UNCHANGED <<registry, phase>>
  BY <1>6 DEF Drop, Receive, ClientReceive, HandleFrame, HandleSend, HandleAck, HandleRead,
              Persist, RouteMessage, RouteStatus, nodeVars
<1>7. ASSUME \/ \E m \in Msg : Compose(m)
             \/ \E e \in Event : NatsDeliver(e) \/ NatsLose(e)
             \/ \E n \in Node, d \in Device : RevokeCommit(n, d)
             \/ UNCHANGED vars
      PROVE UNCHANGED <<registry, phase>>
  BY <1>7 DEF Compose, NatsDeliver, NatsLose, RevokeCommit, vars, nodeVars
<1> QED
  BY <1>1, <1>2, <1>3, <1>4, <1>5, <1>6, <1>7 DEF Next, HandleSocket, RecvTask

LEMMA DanglingInvariant == Spec => [](TypeOK /\ NoDanglingEntry)
<1>1. Init => NoDanglingEntry
  BY DEF Init, NoDanglingEntry, Entry
<1>2. TypeOK /\ NoDanglingEntry /\ [Next]_vars => (TypeOK /\ NoDanglingEntry)'
  BY StepType, StepDangling
<1> QED
  BY <1>1, <1>2, InitType, PTL DEF Spec

\* However connections of a device overlap, an entry has a live handler behind
\* it, of that device and on that instance.
THEOREM RegistrySound == Spec => []NoDanglingEntry
  BY DanglingInvariant, PTL

-----------------------------------------------------------------------------
(***************************************************************************)
(* No gap between the flush and live delivery, on one instance.            *)
(***************************************************************************)

\* m is in c's queue, or a handler is about to route it.
OnItsWay(c, m) ==
    \/ Frm("receive", m) \in down[c]
    \/ \E s \in Conn : work[s] = Frm("message", m)

\* The gap is closed from the flush on, and without any help from NATS.
GapInv ==
    \A c \in Conn :
      phase[c] \in {"flushed", "running"} /\ Entry(Host[c], Owner[c]) = c =>
        \A m \in Pending(Owner[c]) \ (seen \cup missed[c]) : OnItsWay(c, m)

LEMMA GapInvSuffices == GapInv => NoGap
  BY DEF GapInv, NoGap, OnItsWay, Underway

LEMMA StepGap ==
  ASSUME \A n1, n2 \in Node : n1 = n2, TypeOK, GapInv, [Next]_vars
  PROVE  GapInv'
<1> USE RouterAssumption
\* It is enough to look at one connection and one message at a time.
<1> SUFFICES ASSUME NEW c \in Conn, phase'[c] \in {"flushed", "running"},
                    Entry(Host[c], Owner[c])' = c,
                    NEW m \in Pending(Owner[c])' \ (seen' \cup missed'[c])
             PROVE  OnItsWay(c, m)'
  BY DEF GapInv
<1>0. /\ m \in Msg /\ m \in stored' /\ m \notin delivered' /\ To[m] = Owner[c]
      /\ m \notin seen' /\ m \notin missed'[c]
  <2>1. TypeOK'
    BY StepType
  <2> QED
    BY <2>1 DEF Pending, TypeOK
<1> DEFINE Routing(w) == \E s \in Conn : w[s] = Frm("message", m)
\* A step after which c is registered as before, m was owed before, and m is
\* still in c's queue or with a handler if it was.
<1>1. ASSUME phase[c] \in {"flushed", "running"}, Entry(Host[c], Owner[c]) = c,
             m \in stored, delivered \subseteq delivered', seen \subseteq seen',
             missed[c] \subseteq missed'[c],
             Frm("receive", m) \in down[c] => Frm("receive", m) \in down'[c],
             Routing(work) => Routing(work') \/ Frm("receive", m) \in down'[c]
      PROVE  OnItsWay(c, m)'
  <2>1. m \in Pending(Owner[c]) \ (seen \cup missed[c])
    BY <1>0, <1>1 DEF Pending
  <2> QED
    BY <1>1, <2>1 DEF GapInv, OnItsWay
<1>2. ASSUME NEW k \in Conn, Reconnect(k) \/ SignInAgain(k) PROVE OnItsWay(c, m)'
  <2>1. k # c
    BY <1>2 DEF Reconnect, SignInAgain, Connect, TypeOK
  <2> QED
    BY <1>0, <1>1, <1>2, <2>1 DEF Reconnect, SignInAgain, Connect, TypeOK, Entry, dbVars
<1>3. ASSUME NEW k \in Conn,
             \/ Drop(k) \/ Authenticate(k) \/ Unauthenticated(k) \/ PreAuthFrame(k)
             \/ Subscribe(k)
      PROVE  OnItsWay(c, m)'
  <2>1. /\ phase[c] \in {"flushed", "running"}
        /\ UNCHANGED <<registry, work, stored, delivered, seen, missed, down>>
    BY <1>3 DEF Drop, OnClose, Authenticate, Unauthenticated, PreAuthFrame, Subscribe, TypeOK,
                dbVars, nodeVars, netVars, clientVars, envVars
  <2> QED
    BY <1>0, <1>1, <2>1 DEF Entry
<1>4. ASSUME NEW k \in Conn, Register(k) PROVE OnItsWay(c, m)'
  <2>1. k # c
    BY <1>4 DEF Register, TypeOK
  <2>2. phase'[c] = phase[c] /\ Entry(Host[c], Owner[c]) = c
    BY <1>4, <2>1 DEF Register, TypeOK, Entry
  <2> QED
    BY <1>0, <1>1, <1>4, <2>2 DEF Register, dbVars, netVars, clientVars, envVars
<1>5. ASSUME NEW k \in Conn, Flush(k) PROVE OnItsWay(c, m)'
  <2>1. CASE k = c
    <3>1. m \in Pending(Owner[c])
      BY <1>0, <1>5 DEF Flush, Pending, dbVars
    <3>2. down'[c] = down[c] \cup Receives(Pending(Owner[c]))
      BY <1>0, <1>5, <2>1, <3>1 DEF Flush, TypeOK
    <3> QED
      BY <3>1, <3>2 DEF OnItsWay, Receives
  <2>2. CASE k # c
    <3>1. /\ phase'[c] = phase[c] /\ missed'[c] = missed[c] /\ down'[c] = down[c]
          /\ UNCHANGED <<registry, work, stored, delivered, seen>>
      BY <1>5, <2>2 DEF Flush, TypeOK, dbVars, clientVars
    <3> QED
      BY <1>0, <1>1, <3>1 DEF Entry
  <2> QED
    BY <2>1, <2>2
<1>6. ASSUME NEW k \in Conn, NEW x \in Msg,
             HandleSend(k, x) \/ HandleAck(k, x) \/ HandleRead(k, x)
      PROVE  OnItsWay(c, m)'
  <2>1. /\ UNCHANGED <<registry, phase, stored, seen, missed, down>>
        /\ delivered \subseteq delivered'
    BY <1>6 DEF HandleSend, HandleAck, HandleRead, RefuseReceipt, dbVars, clientVars
  <2>2. work[k] = Idle /\ \A s \in Conn \ {k} : work'[s] = work[s]
    BY <1>6 DEF HandleSend, HandleAck, HandleRead, RefuseReceipt, Take, Reading, TypeOK
  <2>3. Frm("message", m) # Idle
    BY DEF Idle, Frm
  <2> QED
    BY <1>0, <1>1, <2>1, <2>2, <2>3 DEF Entry
\* The insert: what it adds to the table is with the handler.
<1>7. ASSUME NEW k \in Conn, Persist(k) PROVE OnItsWay(c, m)'
  <2>1. /\ UNCHANGED <<registry, phase, delivered, seen, missed, down>>
        /\ \A s \in Conn \ {k} : work'[s] = work[s]
        /\ work'[k] = Frm("message", work[k].msg)
        /\ work[k].type = "insert" /\ stored' \subseteq stored \cup {work[k].msg}
    BY <1>7 DEF Persist, TypeOK, netVars, clientVars
  <2>2. CASE m = work[k].msg
    BY <2>1, <2>2 DEF OnItsWay
  <2>3. CASE m # work[k].msg
    <3>1. m \in stored /\ work[k] # Frm("message", m)
      BY <1>0, <2>1, <2>3 DEF Frm
    <3> QED
      BY <1>0, <1>1, <2>1, <3>1 DEF Entry
  <2> QED
    BY <2>2, <2>3
\* Routing: with one instance, the entry the handler finds is c.
<1>8. ASSUME NEW k \in Conn, RouteMessage(k) PROVE OnItsWay(c, m)'
  <2> DEFINE x == work[k].msg
             s == Entry(Host[k], Owner[k])
             q == IF s # NoConn THEN Pushed(down, s, Frm("confirm", x)) ELSE down
  <2>1. /\ UNCHANGED <<registry, phase, stored, delivered, seen, missed>>
        /\ \A r \in Conn \ {k} : work'[r] = work[r]
        /\ DeliverEvent(Host[k], q, Frm("receive", x)) /\ Host[k] = Host[c]
    BY <1>8 DEF RouteMessage, TypeOK, dbVars, clientVars, envVars
  <2>2. q \in [Conn -> SUBSET (Event \cup {Frm("confirm", x)})] /\ down[c] \subseteq q[c]
    BY DEF TypeOK, Pushed, Entry
  <2>3. down[c] \subseteq down'[c]
    <3> HIDE DEF q
    <3> QED
      BY <2>1, <2>2 DEF DeliverEvent, Pushed
  <2>4. CASE work[k] = Frm("message", m)
    <3>1. Entry(Host[k], Target(Frm("receive", x))) = c /\ x = m
      BY <1>0, <2>1, <2>4 DEF Target, Frm, Entry
    <3>2. phase[c] \notin {"closing", "closed"} /\ c # NoConn
      BY <2>1
    <3>3. Frm("receive", m) \in down'[c]
      <4> HIDE DEF q
      <4> QED
        BY <2>1, <2>2, <3>1, <3>2 DEF DeliverEvent, Pushed
    <3> QED
      BY <3>3 DEF OnItsWay
  <2>5. CASE work[k] # Frm("message", m)
    BY <1>0, <1>1, <2>1, <2>3, <2>5 DEF Entry
  <2> QED
    BY <2>4, <2>5
<1>9. ASSUME NEW k \in Conn, RouteStatus(k) PROVE OnItsWay(c, m)'
  <2>1. /\ UNCHANGED <<registry, phase, stored, delivered, seen, missed>>
        /\ \A r \in Conn \ {k} : work'[r] = work[r]
        /\ work[k] # Frm("message", m) /\ down[c] \subseteq down'[c]
    BY <1>9 DEF RouteStatus, DeliverEvent, Pushed, TypeOK, Frm, dbVars, clientVars, envVars
  <2> QED
    BY <1>0, <1>1, <2>1 DEF Entry
<1>10. ASSUME NEW e \in Event, NatsDeliver(e) \/ NatsLose(e) PROVE OnItsWay(c, m)'
  <2>1. /\ UNCHANGED <<registry, phase, work, stored, delivered, seen>>
        /\ missed[c] \subseteq missed'[c] /\ down[c] \subseteq down'[c]
    BY <1>10 DEF NatsDeliver, NatsLose, TypeOK, dbVars, netVars, clientVars, envVars
  <2> QED
    BY <1>0, <1>1, <2>1 DEF Entry
\* What leaves c's queue has been seen, or was missed.
<1>11. ASSUME NEW k \in Conn, NEW e \in Event, ClientReceive(k, e) PROVE OnItsWay(c, m)'
  <2>1. UNCHANGED <<registry, phase, work, stored, delivered>>
    BY <1>11 DEF ClientReceive, dbVars, nodeVars
  <2>2. /\ seen \subseteq seen' /\ missed[c] \subseteq missed'[c]
        /\ k = c /\ e = Frm("receive", m) => m \in seen' \cup missed'[c]
    BY <1>11 DEF ClientReceive, TakeMessage, TypeOK, Frm
  <2>3. Frm("receive", m) \in down[c] => Frm("receive", m) \in down'[c]
    BY <1>0, <1>11, <2>2 DEF ClientReceive, TypeOK
  <2> QED
    BY <1>0, <1>1, <2>1, <2>2, <2>3 DEF Entry
\* An abort: a message it kept from c is recorded as missed.
<1>12. ASSUME NEW k \in Conn, NoticeRecv(k) \/ NoticeSend(k) \/ Heartbeat(k)
       PROVE OnItsWay(c, m)'
  <2>1. EndTasks(k) /\ UNCHANGED <<registry, stored, delivered, seen, down>>
    BY <1>12 DEF NoticeRecv, NoticeSend, Heartbeat, dbVars, netVars, clientVars
  <2>2. k # c /\ phase'[c] = phase[c]
    BY <2>1 DEF EndTasks, TypeOK
  <2>3. missed[c] \subseteq missed'[c] /\ work[k] # Frm("message", m)
    BY <1>0, <2>1 DEF EndTasks, TypeOK, Frm
  <2>4. \A r \in Conn \ {k} : work'[r] = work[r]
    BY <2>1 DEF EndTasks, TypeOK
  <2> QED
    BY <1>0, <1>1, <2>1, <2>2, <2>3, <2>4 DEF Entry
<1>13. ASSUME NEW k \in Conn, Cleanup(k) PROVE OnItsWay(c, m)'
  <2>1. /\ phase'[c] = phase[c] /\ Entry(Host[c], Owner[c]) = c
        /\ UNCHANGED <<work, stored, delivered, seen, missed, down>>
    BY <1>13 DEF Cleanup, OnClose, TypeOK, Entry, dbVars, clientVars, envVars
  <2> QED
    BY <1>0, <1>1, <2>1
<1>14. ASSUME NEW n \in Node, NEW d \in Device, RevokeCommit(n, d) \/ RevokeCut(n, d)
       PROVE OnItsWay(c, m)'
  <2>1. /\ UNCHANGED <<phase, work, stored, delivered, seen, missed>>
        /\ down[c] \subseteq down'[c]
    BY <1>14 DEF RevokeCommit, RevokeCut, Pushed, Entry, TypeOK, dbVars, netVars, clientVars,
                 envVars
  <2>2. Entry(Host[c], Owner[c]) = c
    BY <1>14 DEF RevokeCommit, RevokeCut, Entry, TypeOK
  <2> QED
    BY <1>0, <1>1, <2>1, <2>2
<1>15. ASSUME (\E x \in Msg : Compose(x)) \/ UNCHANGED vars PROVE OnItsWay(c, m)'
  <2>1. UNCHANGED <<registry, phase, work, stored, delivered, seen, missed, down>>
    BY <1>15 DEF Compose, vars, dbVars, nodeVars, netVars, clientVars, envVars
  <2> QED
    BY <1>0, <1>1, <2>1 DEF Entry
<1> QED
  BY <1>2, <1>3, <1>4, <1>5, <1>6, <1>7, <1>8, <1>9, <1>10, <1>11, <1>12, <1>13, <1>14, <1>15
  DEF Next, HandleSocket, RecvTask, HandleFrame, Receive

\* With a single instance, a running connection that is its device's entry is
\* owed nothing it will not get, whatever overlaps with it.
THEOREM NoGapOnOneInstance ==
  ASSUME \A n1, n2 \in Node : n1 = n2
  PROVE  Spec => []NoGap
<1>1. Init => GapInv
  BY DEF Init, GapInv
<1>2. TypeOK /\ GapInv /\ [Next]_vars => (TypeOK /\ GapInv)'
  BY StepType, StepGap
<1> QED
  BY <1>1, <1>2, InitType, GapInvSuffices, PTL DEF Spec
=============================================================================
