------------------------- MODULE SocketConsole_proofs -------------------------
(***************************************************************************)
(* Proofs about Socket and Console, the two objects of the desktop client  *)
(* that share nothing with each other.  Socket, for any number of sign-ins *)
(* and of frames: a logout is final, reconnects leave no socket behind,    *)
(* frames keep their order.  Console, for any users, devices and handlers: *)
(* what the settled panel shows is true, and it breaks only when crossed.  *)
(***************************************************************************)
EXTENDS Socket, Console, FiniteSetTheorems, TLAPS

-----------------------------------------------------------------------------
(***************************************************************************)
(* Socket: the invariant.                                                  *)
(***************************************************************************)


Used == {c \in Conn : net[c] # "none"}

\* Types, what a closed socket holds, and what a logout takes away.
Typed ==
    /\ net \in [Conn -> {"none", "opening", "open"}]
    /\ inflight \in [Conn -> Seq(Nat)]
    /\ ws \in Conn \cup {NoConn}
    /\ timer \in BOOLEAN /\ disabled \in BOOLEAN
    /\ queue \in Seq(Nat) /\ asked \in Nat /\ auths \in 0 .. MaxAuths
    /\ ws # NoConn => net[ws] # "none"
    /\ \A c \in Conn : net[c] # "open" => inflight[c] = <<>>
    /\ disabled => ~ timer /\ ws = NoConn

Counted == Cardinality(Used) + (IF timer THEN 1 ELSE 0) <= auths

\* While at most one sign-in was made, what is shown is the one connection.
Single ==
    auths <= 1 => /\ state = "CONNECTED" <=> IsOpen
                  /\ \A c \in Conn : net[c] # "none" => c = ws

\* An open socket leaves nothing in the queue; frames are numbered by the calls.
Ordered ==
    /\ IsOpen => queue = <<>>
    /\ Increasing(queue)
    /\ \A a \in DOMAIN queue : queue[a] <= asked
    /\ \A c \in Conn : /\ Increasing(inflight[c])
                       /\ \A a \in DOMAIN inflight[c] : inflight[c][a] <= asked

IInv == Typed /\ Counted /\ Single /\ Ordered

-----------------------------------------------------------------------------

LEMMA ConnFinite == IsFiniteSet(Conn) /\ Cardinality(Conn) = MaxAuths
  BY SocketAssumption, FS_Interval DEF Conn

LEMMA UsedFinite == IsFiniteSet(Used) /\ Cardinality(Used) \in Nat
  BY ConnFinite, FS_Subset, FS_CardinalityType DEF Used

\* There is a socket to be made as long as fewer are used than sign-ins allowed.
LEMMA SocketFree ==
  ASSUME Cardinality(Used) < MaxAuths
  PROVE  \E d \in Conn : net[d] = "none"
<1>1. SUFFICES ASSUME \A d \in Conn : net[d] # "none" PROVE FALSE
  OBVIOUS
<1>2. Used = Conn
  BY <1>1 DEF Used
<1> QED
  BY <1>2, ConnFinite, SocketAssumption

\* What connect does when there is a socket to be made.
LEMMA ConnectsOne ==
  ASSUME Typed, Counted, Connects, timer \/ auths < MaxAuths
  PROVE  \E c \in Conn :
           /\ net[c] = "none" /\ net' = [net EXCEPT ![c] = "opening"]
           /\ ws' = c /\ timer' = FALSE /\ disabled' = FALSE /\ state' = "CONNECTING"
<1>1. Cardinality(Used) < MaxAuths
  BY UsedFinite, SocketAssumption DEF Typed, Counted
<1>2. PICK d \in Conn : net[d] = "none"
  BY <1>1, SocketFree
<1> DEFINE c == CHOOSE x \in Conn : net[x] = "none"
<1>3. c \in Conn /\ net[c] = "none"
  BY <1>2
<1>4. /\ net' = [net EXCEPT ![c] = "opening"]
      /\ ws' = c /\ timer' = FALSE /\ disabled' = FALSE /\ state' = "CONNECTING"
  BY DEF Connects
<1> HIDE DEF c
<1> QED
  BY <1>3, <1>4

-----------------------------------------------------------------------------

LEMMA TypedStep ==
  ASSUME Typed, Counted, [Next]_vars
  PROVE  Typed'
<1> USE SocketAssumption
<1>0. NoConn \notin Conn
  BY DEF NoConn, Conn
<1>1. CASE UNCHANGED vars
  BY <1>1 DEF vars, Typed
<1>2. CASE Send
  <2>1. asked' \in Nat
    BY <1>2 DEF Send, Typed
  <2>2. CASE IsOpen
    <3>1. inflight' = [inflight EXCEPT ![ws] = Append(inflight[ws], asked')] /\ queue' = queue
      BY <1>2, <2>2 DEF Send
    <3>2. ws \in Conn /\ net[ws] = "open"
      BY <2>2 DEF IsOpen, Typed
    <3>3. inflight' \in [Conn -> Seq(Nat)]
      BY <2>1, <3>1, <3>2 DEF Typed
    <3> QED
      BY <1>2, <2>1, <3>1, <3>2, <3>3 DEF Send, Typed
  <2>3. CASE ~ IsOpen
    <3>1. queue' = Append(queue, asked') /\ inflight' = inflight
      BY <1>2, <2>3 DEF Send
    <3> QED
      BY <1>2, <2>1, <3>1 DEF Send, Typed
  <2> QED
    BY <2>2, <2>3
<1>3. CASE Reconnect
  <2>1. PICK c \in Conn :
           /\ net[c] = "none" /\ net' = [net EXCEPT ![c] = "opening"]
           /\ ws' = c /\ timer' = FALSE /\ disabled' = FALSE
    BY <1>3, ConnectsOne DEF Reconnect
  <2> QED
    BY <1>3, <2>1 DEF Reconnect, Typed
<1>4. CASE Authenticated
  <2>1. auths < MaxAuths /\ auths' = auths + 1 /\ auths' \in 0 .. MaxAuths
    BY <1>4 DEF Authenticated, Typed
  <2>2. PICK c \in Conn :
           /\ net[c] = "none" /\ net' = [net EXCEPT ![c] = "opening"]
           /\ ws' = c /\ timer' = FALSE /\ disabled' = FALSE
    BY <1>4, <2>1, ConnectsOne DEF Authenticated
  <2> QED
    BY <1>4, <2>1, <2>2 DEF Authenticated, Typed
<1>5. CASE Destroy
  <2>1. inflight' \in [Conn -> Seq(Nat)] /\ queue' \in Seq(Nat)
    BY <1>5 DEF Destroy, Typed
  <2> QED
    BY <1>5, <2>1 DEF Destroy, Typed
<1>6. ASSUME NEW c \in Conn, Opened(c) PROVE Typed'
  <2>1. net[c] = "opening" /\ inflight[c] = <<>> /\ net' = [net EXCEPT ![c] = "open"]
    BY <1>6 DEF Opened, Typed
  <2>2. CASE c = ws
    <3>1. inflight' = [inflight EXCEPT ![c] = inflight[c] \o queue] /\ queue' = <<>>
      BY <1>6, <2>2 DEF Opened, Flushed
    <3>2. inflight' \in [Conn -> Seq(Nat)] /\ queue' \in Seq(Nat)
      BY <3>1 DEF Typed
    <3> QED
      BY <1>6, <2>1, <3>1, <3>2 DEF Opened, Typed
  <2>3. CASE c # ws
    BY <1>6, <2>1, <2>3 DEF Opened, Flushed, Typed
  <2> QED
    BY <2>2, <2>3
<1>7. ASSUME NEW c \in Conn, Close(c) PROVE Typed'
  BY <1>0, <1>7 DEF Close, Typed
<1>8. ASSUME NEW c \in Conn, Serve(c) PROVE Typed'
  <2>1. inflight' \in [Conn -> Seq(Nat)]
    BY <1>8 DEF Serve, Typed
  <2> QED
    BY <1>8, <2>1 DEF Serve, Typed
<1> QED
  BY <1>1, <1>2, <1>3, <1>4, <1>5, <1>6, <1>7, <1>8 DEF Next

LEMMA CountedStep ==
  ASSUME Typed, Counted, [Next]_vars
  PROVE  Counted'
<1>0. /\ IsFiniteSet(Used) /\ Cardinality(Used) \in Nat
      /\ IsFiniteSet(Used') /\ Cardinality(Used)' \in Nat
      /\ auths \in Nat /\ timer \in BOOLEAN /\ timer' \in BOOLEAN
  <2>1. Typed'
    BY TypedStep
  <2>2. IsFiniteSet(Used') /\ Cardinality(Used)' \in Nat
    BY ConnFinite, FS_Subset, FS_CardinalityType DEF Used
  <2> QED
    BY <2>1, <2>2, UsedFinite, SocketAssumption DEF Typed
<1>1. ASSUME NEW c \in Conn, net[c] = "none", net' = [net EXCEPT ![c] = "opening"]
      PROVE  Cardinality(Used)' = Cardinality(Used) + 1
  <2>1. Used' = Used \cup {c} /\ c \notin Used
    BY <1>1 DEF Used, Typed
  <2> QED
    BY <1>0, <2>1, FS_AddElement
<1>2. ASSUME Used' \subseteq Used PROVE Cardinality(Used)' <= Cardinality(Used)
  BY <1>0, <1>2, FS_Subset
<1>3. CASE UNCHANGED vars
  BY <1>3 DEF vars, Counted, Used
<1>4. CASE Send
  BY <1>4 DEF Send, Counted, Used
<1>5. CASE Reconnect
  <2>1. PICK c \in Conn : net[c] = "none" /\ net' = [net EXCEPT ![c] = "opening"] /\ timer' = FALSE
    BY <1>5, ConnectsOne DEF Reconnect
  <2>2. timer /\ auths' = auths
    BY <1>5 DEF Reconnect
  <2>3. Cardinality(Used)' = Cardinality(Used) + 1
    BY <1>1, <2>1
  <2>4. Cardinality(Used)' <= auths'
    BY <1>0, <2>2, <2>3 DEF Counted
  <2>5. ~ timer'
    BY <2>1
  <2> QED
    BY <1>0, <2>4, <2>5 DEF Counted
<1>6. CASE Authenticated
  <2>1. auths' = auths + 1 /\ auths < MaxAuths /\ Connects
    BY <1>6 DEF Authenticated
  <2>2. PICK c \in Conn : net[c] = "none" /\ net' = [net EXCEPT ![c] = "opening"] /\ timer' = FALSE
    BY <2>1, ConnectsOne
  <2>3. Cardinality(Used)' = Cardinality(Used) + 1
    BY <1>1, <2>2
  <2>4. Cardinality(Used)' <= auths'
    BY <1>0, <2>1, <2>3 DEF Counted
  <2>5. ~ timer'
    BY <2>2
  <2> QED
    BY <1>0, <2>4, <2>5 DEF Counted
<1>7. CASE Destroy
  <2>1. Used' \subseteq Used /\ timer' = FALSE /\ auths' = auths
    BY <1>7 DEF Destroy, Used, Typed
  <2> QED
    BY <1>0, <1>2, <2>1 DEF Counted
<1>8. ASSUME NEW c \in Conn, Opened(c) PROVE Counted'
  <2>1. Used' \subseteq Used /\ auths' = auths /\ (timer' <=> timer)
    BY <1>8 DEF Opened, Used, Typed
  <2>2. Cardinality(Used)' <= Cardinality(Used)
    BY <1>2, <2>1
  <2>3. CASE timer
    BY <1>0, <2>1, <2>2, <2>3 DEF Counted
  <2>4. CASE ~ timer
    BY <1>0, <2>1, <2>2, <2>4 DEF Counted
  <2> QED
    BY <2>3, <2>4
<1>9. ASSUME NEW c \in Conn, Close(c) PROVE Counted'
  <2>1. Used' = Used \ {c} /\ c \in Used /\ auths' = auths
    BY <1>9 DEF Close, Used, Typed
  <2>2. Cardinality(Used)' = Cardinality(Used) - 1
    BY <1>0, <2>1, FS_RemoveElement
  <2>3. Cardinality(Used)' + 1 <= auths'
    BY <1>0, <2>1, <2>2 DEF Counted
  <2>4. CASE timer'
    BY <1>0, <2>3, <2>4 DEF Counted
  <2>5. CASE ~ timer'
    BY <1>0, <2>1, <2>3, <2>5 DEF Counted
  <2> QED
    BY <2>4, <2>5
<1>10. ASSUME NEW c \in Conn, Serve(c) PROVE Counted'
  BY <1>10 DEF Serve, Counted, Used
<1> QED
  BY <1>3, <1>4, <1>5, <1>6, <1>7, <1>8, <1>9, <1>10 DEF Next

LEMMA SingleStep ==
  ASSUME Typed, Counted, Single, [Next]_vars
  PROVE  Single'
<1>0. NoConn \notin Conn
  BY DEF NoConn, Conn
<1>1. timer /\ auths <= 1 => \A c \in Conn : net[c] = "none"
  <2>1. SUFFICES ASSUME timer, auths <= 1 PROVE Used = {}
    BY DEF Used
  <2>2. Cardinality(Used) = 0
    BY <2>1, UsedFinite, SocketAssumption DEF Counted, Typed
  <2> QED
    BY <2>2, UsedFinite, FS_EmptySet
<1>2. auths = 0 => \A c \in Conn : net[c] = "none"
  <2>1. SUFFICES ASSUME auths = 0 PROVE Used = {}
    BY DEF Used
  <2>2. Cardinality(Used) = 0
    BY <2>1, UsedFinite DEF Counted, Typed
  <2> QED
    BY <2>2, UsedFinite, FS_EmptySet
<1>3. CASE UNCHANGED vars
  BY <1>3 DEF vars, Single, IsOpen
<1>4. CASE Send
  BY <1>4 DEF Send, Single, IsOpen
<1>5. CASE Reconnect
  <2>1. PICK c \in Conn :
           /\ net[c] = "none" /\ net' = [net EXCEPT ![c] = "opening"]
           /\ ws' = c /\ state' = "CONNECTING"
    BY <1>5, ConnectsOne DEF Reconnect
  <2>2. timer /\ auths' = auths
    BY <1>5 DEF Reconnect
  <2> QED
    BY <1>1, <2>1, <2>2 DEF Single, IsOpen, Typed
<1>6. CASE Authenticated
  <2>1. auths' = auths + 1 /\ auths < MaxAuths /\ Connects
    BY <1>6 DEF Authenticated
  <2>2. PICK c \in Conn :
           /\ net[c] = "none" /\ net' = [net EXCEPT ![c] = "opening"]
           /\ ws' = c /\ state' = "CONNECTING"
    BY <2>1, ConnectsOne
  <2>3. auths' <= 1 => \A d \in Conn : net[d] = "none"
    BY <1>2, <2>1, SocketAssumption DEF Typed
  <2> QED
    BY <2>2, <2>3 DEF Single, IsOpen, Typed
<1>7. CASE Destroy
  BY <1>0, <1>7 DEF Destroy, Single, IsOpen, Typed
<1>8. ASSUME NEW c \in Conn, Opened(c) PROVE Single'
  <2>1. SUFFICES ASSUME auths' <= 1 PROVE Single'
    BY DEF Single
  <2>2. auths' = auths /\ ws' = ws /\ net[c] = "opening" /\ net' = [net EXCEPT ![c] = "open"]
    BY <1>8 DEF Opened
  <2>3. c = ws /\ \A d \in Conn : net[d] # "none" => d = ws
    BY <2>1, <2>2 DEF Single
  <2>4. state' = "CONNECTED"
    BY <1>8, <2>3 DEF Opened
  <2> QED
    BY <1>0, <2>2, <2>3, <2>4 DEF Single, IsOpen, Typed
<1>9. ASSUME NEW c \in Conn, Close(c) PROVE Single'
  <2>1. SUFFICES ASSUME auths' <= 1 PROVE Single'
    BY DEF Single
  <2>2. /\ auths' = auths /\ ws' = NoConn /\ net[c] # "none"
        /\ net' = [net EXCEPT ![c] = "none"]
    BY <1>9 DEF Close
  <2>3. c = ws /\ \A d \in Conn : net[d] # "none" => d = ws
    BY <2>1, <2>2 DEF Single
  <2>4. ~ disabled /\ ~ timer
    BY <1>0, <1>1, <2>1, <2>2, <2>3 DEF Typed
  <2>5. state' = "RECONNECTING"
    BY <1>9, <2>4 DEF Close
  <2> QED
    BY <2>2, <2>3, <2>5 DEF Single, IsOpen, Typed
<1>10. ASSUME NEW c \in Conn, Serve(c) PROVE Single'
  BY <1>10 DEF Serve, Single, IsOpen
<1> QED
  BY <1>3, <1>4, <1>5, <1>6, <1>7, <1>8, <1>9, <1>10 DEF Next

-----------------------------------------------------------------------------

LEMMA OrderedStep ==
  ASSUME Typed, Counted, Ordered, [Next]_vars
  PROVE  Ordered'
<1>0. NoConn \notin Conn
  BY DEF NoConn, Conn
<1>1. CASE UNCHANGED vars
  BY <1>1 DEF vars, Ordered, IsOpen
<1>2. ASSUME NEW s \in Seq(Nat), Increasing(s), \A a \in DOMAIN s : s[a] <= asked
      PROVE  LET t == Append(s, asked + 1) IN
             Increasing(t) /\ \A a \in DOMAIN t : t[a] <= asked + 1
  <2> DEFINE t == Append(s, asked + 1)
  <2>1. asked \in Nat
    BY DEF Typed
  <2>2. /\ t \in Seq(Nat) /\ DOMAIN s = 1..Len(s) /\ DOMAIN t = 1..(Len(s) + 1)
        /\ Len(s) \in Nat /\ t[Len(s) + 1] = asked + 1
        /\ \A a \in 1..Len(s) : t[a] = s[a] /\ s[a] \in Nat
    BY <1>2, <2>1
  <2> HIDE DEF t
  <2>3. \A a \in DOMAIN t : t[a] <= asked + 1
    <3>1. \A a \in 1..Len(s) : t[a] <= asked /\ t[a] \in Nat
      BY <1>2, <2>2
    <3>2. \A a \in DOMAIN t : a \in 1..Len(s) \/ a = Len(s) + 1
      BY <2>2
    <3>3. ASSUME NEW a \in 1..Len(s) PROVE t[a] <= asked + 1
      BY <2>1, <3>1
    <3>4. t[Len(s) + 1] <= asked + 1
      BY <2>1, <2>2
    <3> QED
      BY <3>2, <3>3, <3>4
  <2>4. ASSUME NEW a \in DOMAIN t, NEW b \in DOMAIN t, a < b PROVE t[a] < t[b]
    <3>1. a \in 1..Len(s) /\ t[a] = s[a] /\ s[a] <= asked /\ s[a] \in Nat
      BY <1>2, <2>2, <2>4
    <3>2. CASE b = Len(s) + 1
      BY <2>1, <2>2, <3>1, <3>2
    <3>3. CASE b # Len(s) + 1
      <4>1. b \in 1..Len(s) /\ t[b] = s[b]
        BY <2>2, <2>4, <3>3
      <4> QED
        BY <1>2, <2>2, <2>4, <3>1, <4>1 DEF Increasing
    <3> QED
      BY <3>2, <3>3
  <2> QED
    BY <2>3, <2>4 DEF Increasing, t
<1>3. CASE Send
  <2>1. asked' = asked + 1 /\ asked \in Nat /\ IsOpen' = IsOpen
    BY <1>3 DEF Send, Typed, IsOpen
  <2>2. CASE IsOpen
    <3>1. /\ inflight' = [inflight EXCEPT ![ws] = Append(inflight[ws], asked + 1)]
          /\ queue' = queue /\ ws \in Conn
      BY <1>3, <2>1, <2>2 DEF Send, IsOpen, Typed
    <3>2. \A c \in Conn : c # ws => inflight'[c] = inflight[c]
      BY <3>1 DEF Typed
    <3>3. inflight'[ws] = Append(inflight[ws], asked + 1)
      BY <3>1 DEF Typed
    <3>4. Increasing(inflight'[ws]) /\ \A a \in DOMAIN inflight'[ws] : inflight'[ws][a] <= asked'
      BY <1>2, <2>1, <3>1, <3>3 DEF Ordered, Typed
    <3>5. \A c \in Conn : c # ws =>
            Increasing(inflight'[c]) /\ \A a \in DOMAIN inflight'[c] : inflight'[c][a] <= asked'
      BY <2>1, <3>2 DEF Ordered, Typed
    <3>6. queue' = <<>>
      BY <2>2, <3>1 DEF Ordered
    <3> QED
      BY <3>4, <3>5, <3>6 DEF Ordered, Increasing
  <2>3. CASE ~ IsOpen
    <3>1. queue' = Append(queue, asked + 1) /\ inflight' = inflight
      BY <1>3, <2>1, <2>3 DEF Send
    <3>2. Increasing(queue') /\ \A a \in DOMAIN queue' : queue'[a] <= asked'
      BY <1>2, <2>1, <3>1 DEF Ordered, Typed
    <3>3. \A c \in Conn :
            Increasing(inflight'[c]) /\ \A a \in DOMAIN inflight'[c] : inflight'[c][a] <= asked'
      BY <2>1, <3>1 DEF Ordered, Typed
    <3> QED
      BY <2>1, <2>3, <3>2, <3>3 DEF Ordered
  <2> QED
    BY <2>2, <2>3
<1>4. CASE Reconnect
  <2>1. PICK c \in Conn : net' = [net EXCEPT ![c] = "opening"] /\ ws' = c
    BY <1>4, ConnectsOne DEF Reconnect
  <2>2. ~ IsOpen'
    BY <2>1 DEF IsOpen, Typed
  <2> QED
    BY <1>4, <2>2 DEF Reconnect, Ordered
<1>5. CASE Authenticated
  <2>1. PICK c \in Conn : net' = [net EXCEPT ![c] = "opening"] /\ ws' = c
    BY <1>5, ConnectsOne DEF Authenticated
  <2>2. ~ IsOpen'
    BY <2>1 DEF IsOpen, Typed
  <2> QED
    BY <1>5, <2>2 DEF Authenticated, Ordered
<1>6. CASE Destroy
  BY <1>6 DEF Destroy, Ordered, Increasing, IsOpen, Typed
<1>7. ASSUME NEW c \in Conn, Opened(c) PROVE Ordered'
  <2>1. /\ net[c] = "opening" /\ inflight[c] = <<>> /\ asked' = asked /\ ws' = ws
        /\ net' = [net EXCEPT ![c] = "open"]
    BY <1>7 DEF Opened, Typed
  <2>2. CASE c = ws
    <3>1. inflight' = [inflight EXCEPT ![c] = inflight[c] \o queue] /\ queue' = <<>>
      BY <1>7, <2>2 DEF Opened, Flushed
    <3>2. inflight'[c] = queue /\ \A d \in Conn : d # c => inflight'[d] = inflight[d]
      BY <2>1, <3>1 DEF Typed
    <3> QED
      BY <2>1, <3>1, <3>2 DEF Ordered, Increasing
  <2>3. CASE c # ws
    <3>1. queue' = queue /\ inflight' = inflight /\ (IsOpen' => IsOpen)
      BY <1>7, <2>1, <2>3 DEF Opened, Flushed, IsOpen, Typed
    <3> QED
      BY <2>1, <3>1 DEF Ordered
  <2> QED
    BY <2>2, <2>3
<1>8. ASSUME NEW c \in Conn, Close(c) PROVE Ordered'
  BY <1>8 DEF Close, Ordered, Increasing, IsOpen, Typed
<1>9. ASSUME NEW c \in Conn, Serve(c) PROVE Ordered'
  <2>1. /\ inflight' = [inflight EXCEPT ![c] = Tail(inflight[c])] /\ inflight[c] # <<>>
        /\ queue' = queue /\ asked' = asked /\ IsOpen' = IsOpen
    BY <1>9 DEF Serve, IsOpen
  <2>2. inflight'[c] = Tail(inflight[c]) /\ inflight[c] \in Seq(Nat)
    BY <2>1 DEF Typed
  <2>3. ASSUME NEW s \in Seq(Nat), s # <<>>, Increasing(s), \A a \in DOMAIN s : s[a] <= asked
        PROVE  Increasing(Tail(s)) /\ \A a \in DOMAIN Tail(s) : Tail(s)[a] <= asked
    <3>1. \A a \in DOMAIN Tail(s) : a \in Nat /\ a + 1 \in DOMAIN s /\ Tail(s)[a] = s[a + 1]
      BY <2>3
    <3>2. \A a, b \in DOMAIN Tail(s) : a < b => a + 1 < b + 1
      BY <3>1
    <3> QED
      BY <2>3, <3>1, <3>2 DEF Increasing
  <2>5. Increasing(inflight[c]) /\ \A a \in DOMAIN inflight[c] : inflight[c][a] <= asked
    BY DEF Ordered
  <2>6. Increasing(inflight'[c]) /\ \A a \in DOMAIN inflight'[c] : inflight'[c][a] <= asked
    BY <2>1, <2>2, <2>3, <2>5
  <2>4. \A d \in Conn : d # c => inflight'[d] = inflight[d]
    BY <2>1 DEF Typed
  <2> QED
    BY <2>1, <2>4, <2>6 DEF Ordered
<1> QED
  BY <1>1, <1>3, <1>4, <1>5, <1>6, <1>7, <1>8, <1>9 DEF Next

-----------------------------------------------------------------------------

LEMMA Initially == Init => IInv
<1>1. SUFFICES ASSUME Init PROVE IInv
  OBVIOUS
<1>2. Used = {} /\ Cardinality(Used) = 0
  BY <1>1, FS_EmptySet DEF Init, Used
<1>3. Typed
  <2>1. inflight \in [Conn -> Seq(Nat)] /\ \A c \in Conn : inflight[c] = <<>>
    BY <1>1 DEF Init
  <2>2. net \in [Conn -> {"none", "opening", "open"}]
    BY <1>1 DEF Init
  <2>3. queue \in Seq(Nat) /\ asked \in Nat /\ auths \in 0 .. MaxAuths
    BY <1>1, SocketAssumption DEF Init
  <2> QED
    BY <1>1, <2>1, <2>2, <2>3 DEF Init, Typed
<1>4. Counted
  BY <1>1, <1>2 DEF Init, Counted
<1>5. Single
  BY <1>1 DEF Init, Single, IsOpen
<1>6. Ordered
  BY <1>1 DEF Init, Ordered, Increasing, IsOpen
<1> QED
  BY <1>3, <1>4, <1>5, <1>6 DEF IInv

LEMMA Inductive == IInv /\ [Next]_vars => IInv'
  BY TypedStep, CountedStep, SingleStep, OrderedStep DEF IInv

LEMMA Always == Spec => []IInv
  BY Initially, Inductive, PTL DEF Spec

\* For any number of sign-ins: the sockets of the client, with the one its timer
\* will make, are never more than its sign-ins, and after a single sign-in the
\* state it shows is that of its connection (connect and onclose, socket.ts).
THEOREM SocketsAreCounted == Spec => []NoStraySocket
<1>1. IInv => NoStraySocket
  BY DEF IInv, Counted, Single, NoStraySocket, Used
<1> QED
  BY <1>1, Always, PTL

\* For any number of frames and of sign-ins: frames leave in the order of the
\* calls of send, through the queue or not (send and flushQueue, socket.ts).
THEOREM FramesInOrder == Spec => []WireInOrder
<1>1. ASSUME IInv PROVE WireInOrder
  <2>1. CASE ws = NoConn
    BY <1>1, <2>1 DEF IInv, Ordered, WireInOrder
  <2>2. CASE ws # NoConn /\ net[ws] = "open"
    <3>1. queue = <<>> /\ ws \in Conn /\ inflight[ws] \in Seq(Nat)
      BY <1>1, <2>2 DEF IInv, Typed, Ordered, IsOpen
    <3>2. inflight[ws] \o queue = inflight[ws]
      BY <3>1
    <3> QED
      BY <1>1, <2>2, <3>1, <3>2 DEF IInv, Ordered, WireInOrder
  <2>3. CASE ws # NoConn /\ net[ws] # "open"
    <3>1. inflight[ws] = <<>> /\ queue \in Seq(Nat)
      BY <1>1, <2>3 DEF IInv, Typed
    <3>2. inflight[ws] \o queue = queue
      BY <3>1
    <3> QED
      BY <1>1, <2>3, <3>2 DEF IInv, Ordered, WireInOrder
  <2> QED
    BY <2>1, <2>2, <2>3
<1> QED
  BY <1>1, Always, PTL

\* After a logout the client opens no connection before the next sign-in: the
\* timer is off, and the closes of sockets left behind do not set it (destroy and
\* scheduleReconnect, socket.ts).
THEOREM LogoutIsFinal == Spec => StaysOut
<1>1. ASSUME IInv, [Next]_vars, disabled, auths' = auths, NEW c \in Conn, net'[c] = "opening"
      PROVE  net[c] = "opening"
  <2>1. ~ timer /\ auths \in Nat /\ net \in [Conn -> {"none", "opening", "open"}]
    BY <1>1, SocketAssumption DEF IInv, Typed
  <2>2. CASE UNCHANGED vars
    BY <1>1, <2>2 DEF vars
  <2>3. CASE Send
    BY <1>1, <2>3 DEF Send
  <2>4. CASE Reconnect
    BY <2>1, <2>4 DEF Reconnect
  <2>5. CASE Authenticated
    BY <1>1, <2>1, <2>5 DEF Authenticated
  <2>6. CASE Destroy
    BY <1>1, <2>1, <2>6 DEF Destroy
  <2>7. ASSUME NEW d \in Conn, Opened(d) PROVE net[c] = "opening"
    BY <1>1, <2>1, <2>7 DEF Opened
  <2>8. ASSUME NEW d \in Conn, Close(d) PROVE net[c] = "opening"
    BY <1>1, <2>1, <2>8 DEF Close
  <2>9. ASSUME NEW d \in Conn, Serve(d) PROVE net[c] = "opening"
    BY <1>1, <2>9 DEF Serve
  <2> QED
    BY <1>1, <2>2, <2>3, <2>4, <2>5, <2>6, <2>7, <2>8, <2>9 DEF Next
<1>2. IInv /\ [Next]_vars =>
        [disabled /\ auths' = auths => \A c \in Conn : net'[c] = "opening" => net[c] = "opening"]_vars
  BY <1>1
<1> QED
  BY <1>2, Always, PTL DEF Spec, StaysOut

-----------------------------------------------------------------------------
(***************************************************************************)
(* Console: the invariant.  A claim about the list or the drawer holds of  *)
(* the newest fetch and the newest request for devices, as long as         *)
(* "crossed" and "mixed" say that nothing came between.                    *)
(***************************************************************************)

Handlers(kind) == {j \in jobs : j.kind = kind}

\* A handler is a record of its kind.
Shape(j) ==
    \/ /\ j.kind = "fetch"
       /\ j \in [kind : {"fetch"}, of : Tab, step : {"asked", "read"}, got : {j.got}, no : {j.no}]
    \/ /\ j.kind = "info"
       /\ j \in [kind : {"info"}, of : User, step : {"keys"}, got : {j.got}, no : {j.no}]
    \/ /\ j.kind \in {"approve", "deny", "revoke", "event"}
       /\ j \in [kind : {j.kind}, of : User, step : {"keys", "act", "done", "sent"},
                 got : SUBSET Device, here : BOOLEAN]

Shaped ==
    /\ tab \in Tab /\ open \in BOOLEAN /\ broken \in BOOLEAN /\ (broken => open)
    /\ crossed \in BOOLEAN /\ mixed \in BOOLEAN
    /\ active \subseteq Device /\ selected \in User \cup {NoUser}
    /\ \A j \in jobs : Shape(j)

\* Behind a panel that is not mounted there are requests under way, of a panel
\* that was, and nothing else.
Behind(j) == j.kind \in {"approve", "deny", "revoke"} /\ j.step # "done" /\ ~ j.here
Unmounted == ~ open => \A j \in jobs : Behind(j)

\* As long as nothing has crossed the newest fetch, it is the only one: it is for
\* the tab that is open and will answer, or has answered, what the server holds.
ListHolds ==
    open /\ ~ crossed =>
        /\ ~ broken
        /\ \A i, j \in Handlers("fetch") : i = j
        /\ \A j \in Handlers("fetch") : j.of = tab /\ (j.step = "read" => j.got = Answer(tab))
        /\ Handlers("fetch") = {} => data = Answer(tab)

\* The same of the newest request for a user's devices.
DrawerHolds ==
    open /\ ~ mixed =>
        /\ \A i, j \in Handlers("info") : i = j
        /\ selected # NoUser =>
             /\ \A j \in Handlers("info") : j.of = selected
             /\ Handlers("info") = {} => \A d \in shown : Owner[d] = selected

ConsoleInv == Shaped /\ Unmounted /\ ListHolds /\ DrawerHolds

-----------------------------------------------------------------------------
(***************************************************************************)
(* Handlers and what the operators make of them.                           *)
(***************************************************************************)

\* Handlers that neither fetch nor ask for devices to show.
Plain == {"approve", "deny", "revoke", "event"}

LEMMA JobShape ==
  ASSUME NEW kind \in Plain, NEW u \in User, NEW step \in {"keys", "act", "done", "sent"}
  PROVE  /\ Shape(Job(kind, u, step))
         /\ Job(kind, u, step).kind = kind /\ Job(kind, u, step).step = step
  BY DEF Plain, Shape, Job

LEMMA PlainShape ==
  ASSUME NEW j, Shape(j), j.kind \in Plain
  PROVE  j \in [kind : {j.kind}, of : User, step : {"keys", "act", "done", "sent"},
                got : SUBSET Device, here : BOOLEAN]
  BY DEF Plain, Shape

\* What such a handler becomes at its next await is one again.
LEMMA PlainNext ==
  ASSUME NEW j, Shape(j), j.kind \in Plain,
         NEW step \in {"keys", "act", "done", "sent"}, NEW got \in SUBSET Device,
         NEW here \in BOOLEAN
  PROVE  /\ LET i == [j EXCEPT !.step = step] IN
              Shape(i) /\ i.kind = j.kind /\ i.step = step /\ i.here = j.here
         /\ LET i == [j EXCEPT !.step = step, !.got = got] IN
              Shape(i) /\ i.kind = j.kind /\ i.step = step /\ i.here = j.here
         /\ LET i == [j EXCEPT !.here = here] IN
              Shape(i) /\ i.kind = j.kind /\ i.step = j.step /\ i.here = here
<1>. DEFINE R == [kind : {j.kind}, of : User, step : {"keys", "act", "done", "sent"},
                  got : SUBSET Device, here : BOOLEAN]
<1>1. j \in R
  BY PlainShape
<1>2. ASSUME NEW i \in R PROVE Shape(i)
  BY <1>2 DEF Plain, Shape
<1>3. [j EXCEPT !.step = step] \in R /\ [j EXCEPT !.step = step, !.got = got] \in R
      /\ [j EXCEPT !.here = here] \in R
  BY <1>1
<1>. QED
  BY <1>1, <1>2, <1>3

\* A fetch that has its answer is still a fetch, for the same tab.
LEMMA ReadShape ==
  ASSUME NEW j, Shape(j), j.kind = "fetch", NEW got
  PROVE  LET i == [j EXCEPT !.step = "read", !.got = got] IN
           Shape(i) /\ i.kind = "fetch" /\ i.step = "read" /\ i.of = j.of /\ i.got = got
<1>. DEFINE S == [kind : {"fetch"}, of : Tab, step : {"asked", "read"}, got : {j.got, got},
                  no : {j.no}]
            i == [j EXCEPT !.step = "read", !.got = got]
<1>1. j \in S
  BY DEF Shape
<1>2. i \in S /\ i.step = "read" /\ i.of = j.of /\ i.got = got
  BY <1>1
<1>. HIDE DEF i
<1>3. i \in [kind : {"fetch"}, of : Tab, step : {"asked", "read"}, got : {i.got}, no : {i.no}]
  BY <1>2
<1>4. i.kind = "fetch"
  BY <1>3
<1>5. Shape(i)
  BY <1>3, <1>4 DEF Shape
<1>. QED
  BY <1>2, <1>4, <1>5 DEF i

\* What goes on when the panel is gone.
LEMMA LeftShape ==
  ASSUME NEW js, \A j \in js : Shape(j)
  PROVE  \A i \in Left(js) : Shape(i) /\ Behind(i)
<1>1. ASSUME NEW j \in js, j.kind \in {"approve", "deny", "revoke"}, j.step # "done"
      PROVE  Shape([j EXCEPT !.here = FALSE]) /\ Behind([j EXCEPT !.here = FALSE])
  BY <1>1, PlainNext DEF Plain, Behind
<1>. QED
  BY <1>1 DEF Left

\* A fetch that begins is the only one, or it is crossed.
LEMMA FetchBegins ==
  ASSUME NEW t \in Tab, NEW js, Fetch(t, js)
  PROVE  /\ crossed' \in BOOLEAN
         /\ crossed' \/ (t = tab' /\ \A j \in js : j.kind # "fetch")
         /\ \/ t = "POLICIES" /\ jobs' = js /\ data' = Nothing /\ loading' = FALSE
            \/ \E f : /\ Shape(f) /\ f.kind = "fetch" /\ f.of = t /\ f.step = "asked"
                      /\ jobs' = js \cup {f} /\ loading' = TRUE
<1>1. crossed' = (Works("fetch", js) \/ t # tab')
  BY DEF Fetch
<1>2. CASE t = "POLICIES"
  BY <1>1, <1>2, Zenon DEF Fetch, Works
<1>3. CASE t # "POLICIES"
  <2>. DEFINE f == [kind |-> "fetch", of |-> t, step |-> "asked", got |-> Nothing,
                    no |-> <<acts', elsewhere', faults'>>]
  <2>1. jobs' = js \cup {f} /\ loading' = TRUE
    BY <1>3, Zenon DEF Fetch
  <2>2. Shape(f) /\ f.kind = "fetch" /\ f.of = t /\ f.step = "asked"
    BY DEF Shape
  <2>. HIDE DEF f
  <2>. QED
    BY <1>1, <2>1, <2>2, Zenon DEF Works
<1>. QED
  BY <1>2, <1>3

\* A tab can draw what the server answers for it.
LEMMA AnswerFits ==
  ASSUME NEW t \in Tab
  PROVE  ~ Throws(t, Answer(t), FALSE)
<1>1. CASE t = "COMMAND"
  BY <1>1 DEF Answer, Throws
<1>2. CASE t = "ADMISSION"
  BY <1>2 DEF Answer, Throws, Fields, AdmissionQueue
<1>3. CASE t = "REGISTRY"
  BY <1>3 DEF Answer, Throws, Fields, EndpointRegistry
<1>4. CASE t = "LEDGER"
  BY <1>4 DEF Answer, Throws, Fields, SecurityLedger
<1>5. CASE t = "POLICIES"
  BY <1>5 DEF Answer, Throws, Nothing
<1>. QED
  BY <1>1, <1>2, <1>3, <1>4, <1>5 DEF Tab

LEMMA SameHandlers ==
  ASSUME NEW k,
         \A j \in jobs : j \notin jobs' => j.kind # k,
         \A j \in jobs' : j \notin jobs => j.kind # k
  PROVE  Handlers(k)' = Handlers(k)
  BY DEF Handlers

\* Steps that leave the list, its fetches and the database alone, or the drawer
\* and its requests.
LEMMA ListAside ==
  ASSUME ListHolds, Handlers("fetch")' = Handlers("fetch"),
         UNCHANGED <<dbVars, open, tab, data, broken, crossed>>
  PROVE  ListHolds'
<1>1. \A t : Answer(t)' = Answer(t)
  BY DEF dbVars, Answer
<1>. QED
  BY <1>1, Zenon DEF ListHolds, dbVars

LEMMA DrawerAside ==
  ASSUME DrawerHolds, Handlers("info")' = Handlers("info"), open' => open, mixed' = mixed,
         selected' = NoUser \/ (selected' = selected /\ shown' = shown)
  PROVE  DrawerHolds'
  BY DEF DrawerHolds

LEMMA FetchHolds ==
  ASSUME NEW t \in Tab, NEW js, Fetch(t, js), Drawn, ~ broken, open' \in BOOLEAN
  PROVE  /\ crossed' \in BOOLEAN /\ broken' \in BOOLEAN /\ (broken' => open')
         /\ \A j \in jobs' : j \notin js => Shape(j) /\ j.kind = "fetch"
         /\ js \subseteq jobs'
         /\ ListHolds'
<1>1. broken' = (open' /\ Throws(tab', data', loading'))
  BY DEF Drawn
<1>2. /\ crossed' \in BOOLEAN
      /\ crossed' \/ (t = tab' /\ \A j \in js : j.kind # "fetch")
  BY FetchBegins
<1>3. CASE t = "POLICIES" /\ jobs' = js /\ data' = Nothing /\ loading' = FALSE
  <2>1. ~ Throws(tab', data', loading')
    BY <1>3 DEF Throws, Nothing
  <2>2. Answer("POLICIES")' = Nothing
    BY DEF Answer
  <2>3. ListHolds'
    <3>1. SUFFICES ASSUME ~ crossed'
                   PROVE  /\ ~ broken' /\ Handlers("fetch")' = {} /\ data' = Answer(tab)'
      BY DEF ListHolds
    <3>2. t = tab' /\ \A j \in js : j.kind # "fetch"
      BY <1>2, <3>1
    <3>3. Handlers("fetch")' = {}
      BY <1>3, <3>2 DEF Handlers
    <3>4. data' = Answer(tab)'
      BY <1>3, <2>2, <3>2
    <3>. QED
      BY <1>1, <2>1, <3>3, <3>4
  <2>. QED
    BY <1>1, <1>2, <1>3, <2>1, <2>3
<1>4. ASSUME NEW f, Shape(f), f.kind = "fetch", f.of = t, f.step = "asked",
             jobs' = js \cup {f}, loading' = TRUE
      PROVE  /\ crossed' \in BOOLEAN /\ broken' \in BOOLEAN /\ (broken' => open')
             /\ \A j \in jobs' : j \notin js => Shape(j) /\ j.kind = "fetch"
             /\ js \subseteq jobs'
             /\ ListHolds'
  <2>1. ~ Throws(tab', data', loading')
    BY <1>4 DEF Throws
  <2>2. ~ broken'
    BY <1>1, <2>1
  <2>3. ListHolds'
    <3>1. SUFFICES ASSUME ~ crossed'
                   PROVE  Handlers("fetch")' = {f} /\ f.of = tab' /\ f.step # "read"
      BY <2>2 DEF ListHolds
    <3>2. t = tab' /\ \A j \in js : j.kind # "fetch"
      BY <1>2, <3>1
    <3>. QED
      BY <1>4, <3>2 DEF Handlers
  <2>4. \A j \in jobs' : j \notin js => j = f
    BY <1>4
  <2>5. \A j \in jobs' : j \notin js => Shape(j) /\ j.kind = "fetch"
    BY <1>4, <2>4, Zenon
  <2>6. js \subseteq jobs'
    BY <1>4
  <2>7. broken' \in BOOLEAN
    BY <1>1, Zenon
  <2>. QED
    BY <1>2, <2>2, <2>3, <2>5, <2>6, <2>7, Zenon
<1>5. \/ t = "POLICIES" /\ jobs' = js /\ data' = Nothing /\ loading' = FALSE
      \/ \E f : /\ Shape(f) /\ f.kind = "fetch" /\ f.of = t /\ f.step = "asked"
                /\ jobs' = js \cup {f} /\ loading' = TRUE
  BY FetchBegins
<1>. QED
  BY <1>3, <1>4, <1>5

-----------------------------------------------------------------------------
(***************************************************************************)
(* The steps.                                                              *)
(***************************************************************************)

\* A handler ends, or none does, and a fetch begins.
LEMMA FetchStep ==
  ASSUME ConsoleInv, open, ~ broken, NEW t \in Tab, NEW js, js \subseteq jobs,
         \A j \in jobs : j \notin js => j.kind \in Plain,
         Fetch(t, js), Drawn, tab' \in Tab, open' = open,
         active' = active, mixed' = mixed,
         selected' = NoUser \/ (selected' = selected /\ shown' = shown)
  PROVE  ConsoleInv'
<1>1. /\ crossed' \in BOOLEAN /\ broken' \in BOOLEAN /\ (broken' => open')
      /\ \A j \in jobs' : j \notin js => Shape(j) /\ j.kind = "fetch"
      /\ js \subseteq jobs'
      /\ ListHolds'
  BY FetchHolds DEF ConsoleInv, Shaped
<1>2. Shaped'
  BY <1>1 DEF ConsoleInv, Shaped
<1>3. Unmounted'
  BY DEF Unmounted
<1>4. Handlers("info")' = Handlers("info")
  <2>1. \A j \in jobs : j \notin jobs' => j.kind # "info"
    BY <1>1 DEF Plain
  <2>2. \A j \in jobs' : j \notin jobs => j.kind # "info"
    BY <1>1
  <2>. QED
    BY <2>1, <2>2, SameHandlers
<1>5. DrawerHolds'
  BY <1>4, DrawerAside DEF ConsoleInv
<1>. QED
  BY <1>1, <1>2, <1>3, <1>5 DEF ConsoleInv

\* A step after which the jobs are some of the former, and others that neither
\* fetch nor ask for devices, and the panel shows what it did; the database may
\* change if that is noted.
LEMMA PlainStep ==
  ASSUME ConsoleInv,
         \A j \in jobs : j \notin jobs' => j.kind \in Plain,
         \A j \in jobs' : j \notin jobs => /\ Shape(j) /\ j.kind \in Plain
                                           /\ ~ open => Behind(j),
         UNCHANGED <<listVars, mixed>>, active' \subseteq Device,
         crossed' \in BOOLEAN, crossed' \/ UNCHANGED <<dbVars, crossed>>,
         selected' = NoUser \/ (selected' = selected /\ shown' = shown)
  PROVE  ConsoleInv'
<1>1. Shaped'
  BY DEF ConsoleInv, Shaped, listVars
<1>2. Unmounted'
  BY DEF ConsoleInv, Unmounted, listVars
<1>3. ASSUME NEW k, k \notin Plain PROVE Handlers(k)' = Handlers(k)
  <2>1. \A j \in jobs : j \notin jobs' => j.kind # k
    BY <1>3
  <2>2. \A j \in jobs' : j \notin jobs => j.kind # k
    BY <1>3
  <2>. QED
    BY <2>1, <2>2, SameHandlers
<1>4. Handlers("fetch")' = Handlers("fetch") /\ Handlers("info")' = Handlers("info")
  BY <1>3 DEF Plain
<1>5. ListHolds'
  <2>1. CASE crossed'
    BY <2>1 DEF ListHolds
  <2>2. CASE UNCHANGED <<dbVars, crossed>>
    BY <1>4, <2>2, ListAside DEF ConsoleInv, listVars
  <2>. QED
    BY <2>1, <2>2
<1>6. DrawerHolds'
  BY <1>4, DrawerAside DEF ConsoleInv, listVars
<1>. QED
  BY <1>1, <1>2, <1>5, <1>6 DEF ConsoleInv

\* A request that ends in the server, and what is left of its handler.
LEMMA AnsweredPlain ==
  ASSUME ConsoleInv, NEW j \in jobs, j.kind \in Plain, Answered(j)
  PROVE  /\ \A i \in jobs : i \notin jobs' => i.kind \in Plain
         /\ \A i \in jobs' : i \notin jobs => /\ Shape(i) /\ i.kind \in Plain
                                              /\ ~ open => Behind(i)
<1>1. Shape(j) /\ (~ open => ~ j.here)
  BY DEF ConsoleInv, Shaped, Unmounted, Behind
<1>2. CASE j.here
  <2>1. jobs' = (jobs \ {j}) \cup {[j EXCEPT !.step = "done"]}
    BY <1>2 DEF Answered, Becomes
  <2>2. LET i == [j EXCEPT !.step = "done"] IN Shape(i) /\ i.kind = j.kind
    <3>1. "done" \in {"keys", "act", "done", "sent"} /\ {} \in SUBSET Device /\ FALSE \in BOOLEAN
      OBVIOUS
    <3>. QED
      BY <1>1, <3>1, PlainNext, Zenon
  <2>. QED
    BY <1>1, <1>2, <2>1, <2>2
<1>3. CASE ~ j.here
  BY <1>3 DEF Answered
<1>. QED
  BY <1>2, <1>3

LEMMA ServerStep ==
  ASSUME ConsoleInv, NEW j \in jobs, Approve(j) \/ Deny(j) \/ RevokeDevice(j) \/ RevokeFirst(j)
  PROVE  ConsoleInv'
<1>1. Shaped /\ Shape(j) /\ active \subseteq Device
  BY DEF ConsoleInv, Shaped
<1>2. CASE Approve(j)
  <2>1. j.kind \in Plain /\ (Answered(j) \/ jobs' = jobs \ {j})
    BY <1>2 DEF Approve, Plain
  <2>2. UNCHANGED <<listVars, detailVars, active>> /\ crossed' = TRUE
    BY <1>2 DEF Approve
  <2>. QED
    BY <1>1, <2>1, <2>2, AnsweredPlain, PlainStep DEF detailVars
<1>3. CASE Deny(j)
  <2>1. j.kind \in Plain /\ (Answered(j) \/ jobs' = jobs \ {j})
    BY <1>3 DEF Deny, Plain
  <2>2. UNCHANGED <<listVars, detailVars, active>>
    BY <1>3 DEF Deny
  <2>3. crossed' = TRUE \/ UNCHANGED <<dbVars, crossed>>
    BY <1>3 DEF Deny, dbVars
  <2>4. crossed' \in BOOLEAN
    BY <1>1, <2>3 DEF Shaped
  <2>. QED
    BY <1>1, <2>1, <2>2, <2>3, <2>4, AnsweredPlain, PlainStep DEF detailVars
<1>4. CASE RevokeDevice(j)
  <2>1. j.kind \in Plain /\ (Answered(j) \/ jobs' = jobs \ {j})
    BY <1>4 DEF RevokeDevice, Plain
  <2>2. UNCHANGED <<listVars, detailVars>> /\ crossed' = TRUE /\ active' \subseteq active
    BY <1>4 DEF RevokeDevice
  <2>. QED
    BY <1>1, <2>1, <2>2, AnsweredPlain, PlainStep DEF detailVars
<1>5. CASE RevokeFirst(j)
  <2>1. j.kind = "revoke" /\ UNCHANGED <<dbVars, listVars, detailVars, crossed>>
    BY <1>5 DEF RevokeFirst
  <2>2. ASSUME NEW d \in Devices(j.of), Becomes(j, [j EXCEPT !.step = "act", !.got = {d}])
        PROVE  /\ \A i \in jobs : i \notin jobs' => i.kind \in Plain
               /\ \A i \in jobs' : i \notin jobs => /\ Shape(i) /\ i.kind \in Plain
                                                    /\ ~ open => Behind(i)
    <3>. DEFINE n == [j EXCEPT !.step = "act", !.got = {d}]
                R == [kind : {j.kind}, of : User, step : {"keys", "act", "done", "sent"},
                      got : SUBSET Device, here : BOOLEAN]
    <3>1. {d} \in SUBSET Device /\ j.kind \in Plain
      BY <1>1, <2>1 DEF Devices, Plain
    <3>2. j \in R
      BY <1>1, <3>1, PlainShape
    <3>3. n \in R /\ n.kind = j.kind /\ n.step = "act" /\ n.here = j.here
      BY <3>1, <3>2
    <3>. HIDE DEF n
    <3>6. Shape(n)
      BY <3>1, <3>3 DEF Shape, Plain
    <3>4. jobs' = (jobs \ {j}) \cup {n}
      BY <2>2 DEF Becomes, n
    <3>5. ~ open => Behind(n)
      BY <2>1, <3>3 DEF ConsoleInv, Unmounted, Behind
    <3>. QED
      BY <3>1, <3>3, <3>4, <3>5, <3>6
  <2>3. /\ \A i \in jobs : i \notin jobs' => i.kind \in Plain
        /\ \A i \in jobs' : i \notin jobs => /\ Shape(i) /\ i.kind \in Plain
                                             /\ ~ open => Behind(i)
    <3>1. CASE jobs' = jobs \ {j}
      BY <2>1, <3>1 DEF Plain
    <3>. QED
      BY <1>5, <2>2, <3>1 DEF RevokeFirst
  <2>. QED
    BY <1>1, <2>1, <2>3, PlainStep DEF dbVars, detailVars, Shaped
<1>. QED
  BY <1>2, <1>3, <1>4, <1>5

LEMMA ClickStep ==
  ASSUME ConsoleInv,
         \/ CloseDetail \/ Revoke
         \/ \E u \in User : \/ Decide("approve", u) \/ Decide("deny", u)
                            \/ RequestAccess(u) \/ Other(u, "active") \/ Other(u, "denied")
  PROVE  ConsoleInv'
<1>1. Shaped /\ active \subseteq Device /\ crossed \in BOOLEAN
  BY DEF ConsoleInv, Shaped
<1>2. CASE CloseDetail
  BY <1>1, <1>2, PlainStep DEF CloseDetail, dbVars
<1>3. CASE Revoke
  <2>1. selected \in User /\ open /\ jobs' = jobs \cup {Job("revoke", selected, "keys")}
    BY <1>1, <1>3 DEF Revoke, Does, Shaped
  <2>2. Shape(Job("revoke", selected, "keys")) /\ Job("revoke", selected, "keys").kind \in Plain
    BY <2>1, JobShape DEF Plain
  <2>3. UNCHANGED <<dbVars, listVars, detailVars, crossed>>
    BY <1>3 DEF Revoke
  <2>. QED
    BY <1>1, <2>1, <2>2, <2>3, PlainStep DEF dbVars, detailVars
<1>4. ASSUME NEW u \in User, NEW kind \in {"approve", "deny"}, Decide(kind, u) PROVE ConsoleInv'
  <2>1. open /\ jobs' = jobs \cup {Job(kind, u, "act")}
    BY <1>4 DEF Decide, Does
  <2>2. Shape(Job(kind, u, "act")) /\ Job(kind, u, "act").kind \in Plain
    BY JobShape DEF Plain
  <2>3. UNCHANGED <<dbVars, listVars, detailVars, crossed>>
    BY <1>4 DEF Decide
  <2>. QED
    BY <1>1, <2>1, <2>2, <2>3, PlainStep DEF dbVars, detailVars
<1>5. ASSUME NEW u \in User, RequestAccess(u) PROVE ConsoleInv'
  <2>1. Shape(Job("event", u, "sent")) /\ Job("event", u, "sent").kind \in Plain
    BY JobShape DEF Plain
  <2>2. UNCHANGED <<active, listVars, detailVars>> /\ crossed' = TRUE
    BY <1>5 DEF RequestAccess
  <2>3. /\ \A i \in jobs : i \notin jobs' => i.kind \in Plain
        /\ \A i \in jobs' : i \notin jobs => /\ Shape(i) /\ i.kind \in Plain
                                             /\ ~ open => Behind(i)
    BY <1>5, <2>1 DEF RequestAccess
  <2>. QED
    BY <1>1, <2>2, <2>3, PlainStep DEF detailVars
<1>6. ASSUME NEW u \in User, NEW to, Other(u, to) PROVE ConsoleInv'
  BY <1>1, <1>6, PlainStep DEF Other, detailVars
<1>. QED
  BY <1>2, <1>3, <1>4, <1>5, <1>6

LEMMA FetchingStep ==
  ASSUME ConsoleInv,
         \/ \E t \in Tab : SetTab(t)
         \/ \E j \in jobs : Decided(j) \/ Revoked(j) \/ Refresh(j)
  PROVE  ConsoleInv'
<1>1. Shaped /\ tab \in Tab
  BY DEF ConsoleInv, Shaped
<1>2. ASSUME NEW t \in Tab, SetTab(t) PROVE ConsoleInv'
  <2>1. open /\ ~ broken /\ tab' = t /\ Fetch(t, jobs) /\ Drawn
    BY <1>2 DEF SetTab, Does
  <2>2. open' = open /\ UNCHANGED <<dbVars, detailVars>>
    BY <1>2 DEF SetTab
  <2>. QED
    BY <2>1, <2>2, FetchStep DEF dbVars, detailVars
<1>3. ASSUME NEW j \in jobs, Decided(j) PROVE ConsoleInv'
  <2>1. j.kind \in Plain /\ open /\ ~ broken
    BY <1>3 DEF Decided, ConsoleInv, Unmounted, Behind, Plain
  <2>2. Fetch("ADMISSION", jobs \ {j}) /\ Drawn /\ UNCHANGED <<open, tab, dbVars, detailVars>>
    BY <1>3 DEF Decided
  <2>3. "ADMISSION" \in Tab
    BY DEF Tab
  <2>. QED
    BY <1>1, <2>1, <2>2, <2>3, FetchStep DEF dbVars, detailVars
<1>4. ASSUME NEW j \in jobs, Revoked(j) PROVE ConsoleInv'
  <2>1. j.kind \in Plain /\ open /\ ~ broken
    BY <1>4 DEF Revoked, ConsoleInv, Unmounted, Behind, Plain
  <2>2. /\ Fetch("REGISTRY", jobs \ {j}) /\ Drawn
        /\ UNCHANGED <<open, tab, dbVars, mixed>> /\ selected' = NoUser
    BY <1>4 DEF Revoked
  <2>3. "REGISTRY" \in Tab
    BY DEF Tab
  <2>. QED
    BY <1>1, <2>1, <2>2, <2>3, FetchStep DEF dbVars
<1>5. ASSUME NEW j \in jobs, Refresh(j) PROVE ConsoleInv'
  <2>1. j.kind \in Plain /\ open /\ ~ broken
    BY <1>5 DEF Refresh, ConsoleInv, Unmounted, Behind, Plain
  <2>2. Fetch(tab, jobs \ {j}) /\ Drawn /\ UNCHANGED <<open, tab, dbVars, detailVars>>
    BY <1>5 DEF Refresh
  <2>. QED
    BY <1>1, <2>1, <2>2, FetchStep DEF dbVars, detailVars
<1>. QED
  BY <1>2, <1>3, <1>4, <1>5

LEMMA ReadStep ==
  ASSUME ConsoleInv, NEW j \in jobs, Read(j)
  PROVE  ConsoleInv'
<1>. DEFINE n == [j EXCEPT !.step = "read", !.got = Answer(j.of)]
<1>1. /\ j.kind = "fetch" /\ jobs' = (jobs \ {j}) \cup {n}
      /\ UNCHANGED <<dbVars, listVars, detailVars, crossed>>
  BY DEF Read, Becomes
<1>2. Shape(n) /\ n.kind = "fetch" /\ n.step = "read" /\ n.of = j.of /\ n.got = Answer(j.of)
  BY <1>1, ReadShape DEF ConsoleInv, Shaped
<1>. HIDE DEF n
<1>3. Shaped'
  BY <1>1, <1>2 DEF ConsoleInv, Shaped, dbVars, listVars, detailVars
<1>4. open
  BY <1>1 DEF ConsoleInv, Unmounted, Behind
<1>5. Unmounted'
  BY <1>1, <1>4 DEF Unmounted, listVars
<1>6. ListHolds'
  <2>1. SUFFICES ASSUME ~ crossed
                 PROVE  ~ broken /\ Handlers("fetch")' = {n} /\ n.of = tab /\ n.got = Answer(tab)'
    BY <1>1, <1>2 DEF ListHolds, listVars
  <2>2. ~ broken /\ Handlers("fetch") = {j} /\ j.of = tab
    BY <1>1, <1>4, <2>1 DEF ConsoleInv, ListHolds, Handlers
  <2>3. Handlers("fetch")' = {n}
    BY <1>1, <1>2, <2>2 DEF Handlers
  <2>4. Answer(tab)' = Answer(tab)
    BY <1>1 DEF Answer, dbVars, listVars
  <2>. QED
    BY <1>2, <2>2, <2>3, <2>4
<1>7. DrawerHolds'
  <2>1. Handlers("info")' = Handlers("info")
    BY <1>1, <1>2, SameHandlers
  <2>. QED
    BY <1>1, <2>1, DrawerAside DEF ConsoleInv, listVars, detailVars
<1>. QED
  BY <1>3, <1>5, <1>6, <1>7 DEF ConsoleInv

LEMMA FetchedStep ==
  ASSUME ConsoleInv, NEW j \in jobs, Fetched(j)
  PROVE  ConsoleInv'
<1>1. /\ j.kind = "fetch" /\ ~ broken /\ jobs' = jobs \ {j} /\ loading' = FALSE
      /\ UNCHANGED <<dbVars, detailVars, open, tab>> /\ Drawn
  BY DEF Fetched
<1>2. \/ j.step = "read" /\ data' = j.got /\ crossed' = crossed
      \/ crossed' = TRUE
  BY DEF Fetched
<1>3. open
  BY <1>1 DEF ConsoleInv, Unmounted, Behind
<1>4. broken' <=> Throws(tab, data', FALSE)
  BY <1>1, <1>3 DEF Drawn
<1>5. Shaped'
  <2>1. broken' \in BOOLEAN
    BY <1>1, Zenon DEF Drawn
  <2>2. crossed' \in BOOLEAN
    BY <1>2 DEF ConsoleInv, Shaped
  <2>. QED
    BY <1>1, <1>3, <2>1, <2>2 DEF ConsoleInv, Shaped, dbVars, detailVars
<1>6. Unmounted'
  BY <1>1, <1>3 DEF Unmounted
<1>7. ListHolds'
  <2>1. SUFFICES ASSUME ~ crossed'
                 PROVE  ~ broken' /\ Handlers("fetch")' = {} /\ data' = Answer(tab)'
    BY DEF ListHolds
  <2>2. ~ crossed /\ j.step = "read" /\ data' = j.got
    BY <1>2, <2>1
  <2>3. Handlers("fetch") = {j} /\ j.of = tab /\ j.got = Answer(tab)
    BY <1>1, <1>3, <2>2 DEF ConsoleInv, ListHolds, Handlers
  <2>4. Handlers("fetch")' = {}
    BY <1>1, <2>3 DEF Handlers
  <2>5. Answer(tab)' = Answer(tab)
    BY <1>1 DEF Answer, dbVars
  <2>6. ~ Throws(tab, Answer(tab), FALSE)
    BY AnswerFits DEF ConsoleInv, Shaped
  <2>7. ~ broken'
    BY <1>4, <2>2, <2>3, <2>6
  <2>. QED
    BY <2>2, <2>3, <2>4, <2>5, <2>7
<1>8. DrawerHolds'
  <2>1. Handlers("info")' = Handlers("info")
    BY <1>1, SameHandlers
  <2>. QED
    BY <1>1, <2>1, DrawerAside DEF ConsoleInv, detailVars
<1>. QED
  BY <1>5, <1>6, <1>7, <1>8 DEF ConsoleInv

LEMMA ShowInfoStep ==
  ASSUME ConsoleInv, NEW u \in User, ShowInfo(u)
  PROVE  ConsoleInv'
<1>. DEFINE n == [kind |-> "info", of |-> u, step |-> "keys", got |-> {}, no |-> acts']
<1>1. /\ open /\ selected' = u /\ jobs' = jobs \cup {n} /\ mixed' = Works("info", jobs)
      /\ UNCHANGED <<dbVars, listVars, shown, crossed>>
  BY DEF ShowInfo, Does
<1>2. Shape(n) /\ n.kind = "info" /\ n.of = u
  BY DEF Shape
<1>. HIDE DEF n
<1>3. Shaped'
  <2>1. mixed' \in BOOLEAN
    BY <1>1, Zenon DEF Works
  <2>. QED
    BY <1>1, <1>2, <2>1 DEF ConsoleInv, Shaped, dbVars, listVars
<1>4. Unmounted'
  BY <1>1 DEF Unmounted, listVars
<1>5. ListHolds'
  <2>1. Handlers("fetch")' = Handlers("fetch")
    BY <1>1, <1>2, SameHandlers
  <2>. QED
    BY <1>1, <2>1, ListAside DEF ConsoleInv, listVars
<1>6. DrawerHolds'
  <2>1. SUFFICES ASSUME ~ mixed' PROVE Handlers("info")' = {n} /\ n.of = selected'
    BY DEF DrawerHolds
  <2>2. \A j \in jobs : j.kind # "info"
    BY <1>1, <2>1 DEF Works
  <2>3. Handlers("info")' = {n}
    BY <1>1, <1>2, <2>2 DEF Handlers
  <2>. QED
    BY <1>1, <1>2, <2>3
<1>. QED
  BY <1>3, <1>4, <1>5, <1>6 DEF ConsoleInv

LEMMA InfoStep ==
  ASSUME ConsoleInv, NEW j \in jobs, Info(j)
  PROVE  ConsoleInv'
<1>1. /\ j.kind = "info" /\ jobs' = jobs \ {j} /\ (shown' = Devices(j.of) \/ shown' = {})
      /\ UNCHANGED <<dbVars, listVars, selected, mixed, crossed>>
  BY DEF Info
<1>2. Shaped'
  BY <1>1 DEF ConsoleInv, Shaped, dbVars, listVars
<1>3. open
  BY <1>1 DEF ConsoleInv, Unmounted, Behind
<1>4. Unmounted'
  BY <1>1, <1>3 DEF Unmounted, listVars
<1>5. ListHolds'
  <2>1. Handlers("fetch")' = Handlers("fetch")
    BY <1>1, SameHandlers
  <2>. QED
    BY <1>1, <2>1, ListAside DEF ConsoleInv, listVars
<1>6. DrawerHolds'
  <2>1. SUFFICES ASSUME ~ mixed
                 PROVE  /\ Handlers("info")' = {}
                        /\ selected # NoUser => \A d \in shown' : Owner[d] = selected
    BY <1>1 DEF DrawerHolds
  <2>2. Handlers("info") = {j} /\ (selected # NoUser => j.of = selected)
    BY <1>1, <1>3, <2>1 DEF ConsoleInv, DrawerHolds, Handlers
  <2>3. Handlers("info")' = {}
    BY <1>1, <2>2 DEF Handlers
  <2>4. \A d \in shown' : Owner[d] = j.of
    BY <1>1 DEF Devices
  <2>. QED
    BY <2>2, <2>3, <2>4
<1>. QED
  BY <1>2, <1>4, <1>5, <1>6 DEF ConsoleInv

LEMMA MountStep ==
  ASSUME ConsoleInv, Mount
  PROVE  ConsoleInv'
<1>. DEFINE n == [kind |-> "fetch", of |-> "COMMAND", step |-> "asked", got |-> Nothing,
                  no |-> <<acts', elsewhere, faults>>]
<1>1. /\ ~ open /\ open' = TRUE /\ tab' = "COMMAND" /\ selected' = NoUser /\ mixed' = FALSE
      /\ jobs' = jobs \cup {n} /\ broken' = FALSE /\ crossed' = FALSE /\ UNCHANGED dbVars
  BY DEF Mount
<1>2. Shape(n) /\ n.kind = "fetch" /\ n.of = "COMMAND" /\ n.step = "asked"
  BY DEF Shape, Tab
<1>. HIDE DEF n
<1>3. \A j \in jobs : j.kind # "fetch" /\ j.kind # "info"
  BY <1>1 DEF ConsoleInv, Unmounted, Behind
<1>4. Shaped'
  BY <1>1, <1>2 DEF ConsoleInv, Shaped, Tab, dbVars
<1>5. Unmounted'
  BY <1>1 DEF Unmounted
<1>6. Handlers("fetch")' = {n} /\ Handlers("info")' = {}
  BY <1>1, <1>2, <1>3 DEF Handlers
<1>7. ListHolds'
  BY <1>1, <1>2, <1>6 DEF ListHolds
<1>8. DrawerHolds'
  BY <1>1, <1>6 DEF DrawerHolds
<1>. QED
  BY <1>4, <1>5, <1>7, <1>8 DEF ConsoleInv

LEMMA LeaveStep ==
  ASSUME ConsoleInv, Exit \/ Reload
  PROVE  ConsoleInv'
<1>1. /\ open' = FALSE /\ broken' = FALSE /\ \A j \in jobs' : Shape(j) /\ Behind(j)
  <2>1. broken \in BOOLEAN /\ \A j \in jobs : Shape(j)
    BY DEF ConsoleInv, Shaped
  <2>2. CASE Exit
    BY <2>1, <2>2, LeftShape DEF Exit
  <2>3. CASE Reload
    <3>. DEFINE js == {j \in jobs : j.step = "act"}
    <3>1. jobs' = Left(js) /\ open' = FALSE /\ broken' = FALSE
      BY <2>3 DEF Reload
    <3>2. \A j \in js : Shape(j)
      BY <2>1
    <3>. HIDE DEF js
    <3>. QED
      BY <3>1, <3>2, LeftShape
  <2>. QED
    BY <2>2, <2>3
<1>2. UNCHANGED <<dbVars, detailVars, tab, crossed>>
  BY DEF Exit, Reload
<1>3. Shaped'
  BY <1>1, <1>2 DEF ConsoleInv, Shaped, dbVars, detailVars
<1>. QED
  BY <1>1, <1>3 DEF ConsoleInv, Unmounted, ListHolds, DrawerHolds

-----------------------------------------------------------------------------

LEMMA ConsoleInitially == ConsoleInit => ConsoleInv
<1>1. SUFFICES ASSUME ConsoleInit PROVE ConsoleInv
  OBVIOUS
<1>2. Shaped
  BY <1>1 DEF ConsoleInit, Shaped, Tab
<1>. QED
  BY <1>1, <1>2 DEF ConsoleInit, ConsoleInv, Unmounted, ListHolds, DrawerHolds

LEMMA ConsoleInductive == ConsoleInv /\ [ConsoleNext]_consoleVars => ConsoleInv'
<1>1. SUFFICES ASSUME ConsoleInv, [ConsoleNext]_consoleVars PROVE ConsoleInv'
  OBVIOUS
<1>2. CASE UNCHANGED consoleVars
  <2>1. UNCHANGED <<dbVars, listVars, detailVars, jobs, crossed>>
    BY <1>2 DEF consoleVars
  <2>2. active \subseteq Device /\ crossed \in BOOLEAN
    BY <1>1 DEF ConsoleInv, Shaped
  <2>. QED
    BY <1>1, <2>1, <2>2, PlainStep DEF dbVars, detailVars
<1>3. ASSUME NEW j \in jobs, Handler(j) PROVE ConsoleInv'
  BY <1>1, <1>3, ReadStep, FetchedStep, ServerStep, FetchingStep, InfoStep DEF Handler
<1>4. CASE Mount \/ Exit \/ Reload \/ CloseDetail \/ Revoke
  BY <1>1, <1>4, MountStep, LeaveStep, ClickStep
<1>5. ASSUME NEW t \in Tab, SetTab(t) PROVE ConsoleInv'
  BY <1>1, <1>5, FetchingStep
<1>6. ASSUME NEW u \in User,
             \/ Decide("approve", u) \/ Decide("deny", u) \/ ShowInfo(u)
             \/ RequestAccess(u) \/ Other(u, "active") \/ Other(u, "denied")
      PROVE  ConsoleInv'
  BY <1>1, <1>6, ClickStep, ShowInfoStep
<1>. QED
  BY <1>1, <1>2, <1>3, <1>4, <1>5, <1>6 DEF ConsoleNext

LEMMA ConsoleAlways == ConsoleSpec => []ConsoleInv
  BY ConsoleInitially, ConsoleInductive, PTL DEF ConsoleSpec

\* For any users, devices, clicks, failures and decisions of others, and any number of
\* handlers under way: what the settled console shows is what the server would
\* answer, and the drawer shows devices of the user who is selected, unless the
\* newest request for either was crossed (fetchData and handleShowInfo,
\* AdminPanel.tsx).
THEOREM SettledPanelIsTrue == ConsoleSpec => []SettledIsTrue
<1>1. ASSUME ConsoleInv PROVE SettledIsTrue
  <2>1. SUFFICES ASSUME Quiet
                 PROVE  /\ ~ crossed => data = Answer(tab)
                        /\ ~ mixed /\ selected # NoUser => \A d \in shown : Owner[d] = selected
    BY DEF SettledIsTrue
  <2>2. open /\ Handlers("fetch") = {} /\ Handlers("info") = {}
    BY <2>1 DEF Quiet, Handlers
  <2>. QED
    BY <1>1, <2>2 DEF ConsoleInv, ListHolds, DrawerHolds
<1>. QED
  BY <1>1, ConsoleAlways, PTL

\* The panel gives way to the ErrorBoundary's fallback only when the fetch it shows
\* was crossed: an entry a tab's component draws has the fields it reads
\* (AdminPanel.tsx and the components of dashboard).
THEOREM BreaksOnCrossing == ConsoleSpec => []BreaksOnlyCrossed
<1>1. ASSUME ConsoleInv PROVE BreaksOnlyCrossed
  BY <1>1 DEF ConsoleInv, Shaped, ListHolds, BreaksOnlyCrossed
<1>. QED
  BY <1>1, ConsoleAlways, PTL
===============================================================================
