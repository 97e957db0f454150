-------------------------- MODULE BridgeServiceProofs --------------------------
(***************************************************************************)
(* The plugin's socket, for any number of bridges and sockets and any      *)
(* order of their events.                                                  *)
(***************************************************************************)
EXTENDS BridgeService, TLAPS

Phases == {"free", "connecting", "open", "closing"}

(* CloseSocket and Connect keep the types of what they set.                *)
LEMMA WithoutTyped ==
    ASSUME NEW T, NEW f \in [Sockets -> T], NEW s, NEW blank \in T
    PROVE  Without(f, s, blank) \in [Sockets -> T]
BY DEF Without

LEMMA CloseTyped ==
    ASSUME TypeOK, CloseSocket
    PROVE  /\ socket' = None /\ timer' = FALSE
           /\ phase' \in [Sockets -> Phases]
           /\ peer' \in [Sockets -> Bridges \union {None}]
           /\ \A s \in Sockets : phase'[s] # "free" => peer'[s] \in Bridges
           /\ wire' \in [Sockets -> Seq(States)]
<1>1. <<>> \in Seq(States)
  OBVIOUS
<1>2. /\ phase' \in [Sockets -> Phases]
      /\ peer' \in [Sockets -> Bridges \union {None}]
      /\ wire' \in [Sockets -> Seq(States)]
  BY <1>1, WithoutTyped DEF CloseSocket, TypeOK, Phases
<1>3. \A s \in Sockets : phase'[s] # "free" => peer'[s] \in Bridges
  BY DEF CloseSocket, Without, TypeOK
<1> QED
  BY <1>2, <1>3 DEF CloseSocket

LEMMA ConnectTyped ==
    ASSUME TypeOK, NEW b \in Bridges, Connect(b)
    PROVE  /\ socket' \in Sockets /\ timer' = FALSE
           /\ phase' \in [Sockets -> Phases]
           /\ peer' \in [Sockets -> Bridges \union {None}]
           /\ \A s \in Sockets : phase'[s] # "free" => peer'[s] \in Bridges
           /\ wire' \in [Sockets -> Seq(States)]
<1>1. <<>> \in Seq(States)
  OBVIOUS
<1>2. /\ Without(phase, socket, "free") \in [Sockets -> Phases]
      /\ Without(peer, socket, None) \in [Sockets -> Bridges \union {None}]
      /\ Without(wire, socket, <<>>) \in [Sockets -> Seq(States)]
  BY <1>1, WithoutTyped DEF TypeOK, Phases
<1>3. PICK x \in Sockets :
        /\ socket' = x /\ timer' = FALSE
        /\ phase' = [Without(phase, socket, "free") EXCEPT ![x] = "connecting"]
        /\ peer' = [Without(peer, socket, None) EXCEPT ![x] = b]
        /\ wire' = Without(wire, socket, <<>>)
  BY DEF Connect
<1>4. \A s \in Sockets : phase'[s] # "free" => peer'[s] \in Bridges
  BY <1>3 DEF Without, TypeOK
<1> QED
  BY <1>2, <1>3, <1>4 DEF Phases

LEMMA ViewTyped ==
    ASSUME TypeOK
    PROVE  /\ UnavailableState \in States
           /\ \A candidate \in States : ApplyState(candidate) => view' \in States
BY LimitAssumption DEF TypeOK, ApplyState, UnavailableState, States

LEMMA TypeStep == TypeOK /\ [Next]_vars => TypeOK'
<1> SUFFICES ASSUME TypeOK, [Next]_vars PROVE TypeOK'
  OBVIOUS
<1> USE DEF manager, bridges, sockets
<1>1. CASE UNCHANGED vars
  BY <1>1 DEF vars, TypeOK
<1>2. ASSUME NEW b \in Bridges, ManagerReady(b) PROVE TypeOK'
  <2>1. CASE UNCHANGED sockets
    BY <1>2, <2>1 DEF ManagerReady, Manager!Ready, TypeOK, Statuses
  <2>2. CASE Connect(b)
    BY <1>2, <2>2, ConnectTyped DEF ManagerReady, Manager!Ready, TypeOK, Statuses, Phases
  <2> QED
    BY <1>2, <2>1, <2>2 DEF ManagerReady, OpenSocket
<1>3. CASE StartBegins \/ StartsInVain \/ StartFails
           \/ \E st \in {"stopped", "failed"} : ChildExits(st)
  <2>1. /\ UNCHANGED <<bridges, sockets, disposed, replies>>
        /\ status' \in Statuses /\ info' = None /\ starting' \in BOOLEAN
        /\ \E heard \in BOOLEAN : ForgetState(heard)
    BY <1>3 DEF StartBegins, StartsInVain, StartFails, ChildExits, TypeOK, Statuses,
       Manager!StartBegins, Manager!StartsInVain, Manager!StartFails, Manager!SpawnFails,
       Manager!ChildExits, Manager!Disconnected
  <2> QED
    BY <2>1, ViewTyped DEF ForgetState, TypeOK
<1>4. CASE Restart \/ Dispose
  <2>1. /\ CloseSocket /\ UNCHANGED <<bridges, replies>>
        /\ status' \in Statuses /\ info' = None /\ starting' = starting
        /\ disposed' \in BOOLEAN
        /\ \E heard \in BOOLEAN : ForgetState(heard)
    BY <1>4 DEF Restart, Dispose, TypeOK, Statuses, Manager!Stop, Manager!Disconnected
  <2> QED
    BY <2>1, CloseTyped, ViewTyped DEF ForgetState, TypeOK, Phases
<1>5. CASE TimerFires
  <2>1. CASE info # None /\ Connect(info)
    <3>1. info \in Bridges
      BY <2>1 DEF TypeOK
    <3> QED
      BY <1>5, <2>1, <3>1, ConnectTyped DEF TimerFires, TypeOK, Phases
  <2>2. CASE timer' = FALSE /\ UNCHANGED <<socket, phase, peer, wire>>
    BY <1>5, <2>2 DEF TimerFires, TypeOK
  <2> QED
    BY <1>5, <2>1, <2>2 DEF TimerFires
<1>6. ASSUME NEW s \in Sockets, SocketOpens(s) \/ SocketBreaks(s) \/ SocketClosed(s)
      PROVE TypeOK'
  BY <1>6 DEF SocketOpens, SocketBreaks, SocketClosed, ScheduleReconnect, TypeOK
<1>7. ASSUME NEW s \in Sockets, Receive(s) PROVE TypeOK'
  <2>1. Head(wire[s]) \in States /\ Tail(wire[s]) \in Seq(States)
    BY <1>7 DEF Receive, TypeOK
  <2> QED
    BY <1>7, <2>1, ViewTyped DEF Receive, TypeOK
<1>8. ASSUME NEW s \in Sockets, BridgeSends(s) PROVE TypeOK'
  <2>1. PICK n \in 0..sequence[peer[s]] :
           wire' = [wire EXCEPT ![s] = Append(wire[s], [bridge |-> peer[s], sequence |-> n])]
    BY <1>8 DEF BridgeSends
  <2>2. sequence[peer[s]] \in 0..MaxSequence /\ peer[s] \in Bridges
    BY <1>8 DEF BridgeSends, TypeOK
  <2>3. [bridge |-> peer[s], sequence |-> n] \in States
    BY <2>1, <2>2, LimitAssumption DEF States
  <2>4. wire' \in [Sockets -> Seq(States)]
    BY <2>1, <2>3 DEF TypeOK
  <2> QED
    BY <1>8, <2>4 DEF BridgeSends, TypeOK
<1>9. CASE Post
  <2>1. [bridge |-> info, sequence |-> sequence[info]] \in States
    BY <1>9 DEF Post, TypeOK, States
  <2> QED
    BY <1>9, <2>1 DEF Post, TypeOK
<1>10. ASSUME NEW reply \in replies, ReceiveReply(reply) \/ LoseReply(reply) PROVE TypeOK'
  <2>1. reply \in States
    BY DEF TypeOK
  <2> QED
    BY <1>10, <2>1, ViewTyped DEF ReceiveReply, LoseReply, TypeOK
<1>11. ASSUME NEW b \in Bridges, BridgeStarts(b) \/ BridgeEnds(b) PROVE TypeOK'
  BY <1>11 DEF BridgeStarts, BridgeEnds, TypeOK
<1>12. ASSUME NEW b \in Bridges, BridgeChanges(b) PROVE TypeOK'
  <2>1. sequence' \in [Bridges -> 0..MaxSequence]
    BY <1>12, LimitAssumption DEF BridgeChanges, TypeOK
  <2> QED
    BY <1>12, <2>1 DEF BridgeChanges, TypeOK
<1>13. CASE StartThrows
  BY <1>13 DEF StartThrows, Manager!StartThrows, TypeOK
<1> QED
  BY <1>1, <1>2, <1>3, <1>4, <1>5, <1>6, <1>7, <1>8, <1>9, <1>10, <1>11, <1>12, <1>13 DEF Next

(* The fields of BridgeService, its sockets and what is on its way keep    *)
(* their types: a state is always that of a bridge, or no state at all.    *)
THEOREM TypeCorrect == Spec => []TypeOK
<1>1. Init => TypeOK
  <2> SUFFICES ASSUME Init PROVE TypeOK
    OBVIOUS
  <2>1. 0 \in 0..MaxSequence
    BY LimitAssumption
  <2>2. UnavailableState \in States
    BY <2>1 DEF UnavailableState, States
  <2>3. wire \in [Sockets -> Seq(States)]
    <3>1. <<>> \in Seq(States)
      OBVIOUS
    <3> QED
      BY <3>1 DEF Init
  <2> QED
    BY <2>1, <2>2, <2>3 DEF Init, TypeOK, Statuses
<1> QED
  BY <1>1, TypeStep, PTL DEF Spec

-----------------------------------------------------------------------------
(* What the four properties rest on, together: the known socket is the     *)
(* only one, it leads to the present bridge, and a disposed service has    *)
(* none, so that the close event of a socket it no longer knows cannot set *)
(* the timer again.                                                        *)
SocketInv ==
    /\ status = "ready" <=> info # None
    /\ OneSocket
    /\ ReadyIsConnected
    /\ SocketOfPresentBridge
    /\ NothingAfterDispose

LEMMA AfterClose ==
    ASSUME TypeOK, OneSocket, CloseSocket
    PROVE  OneSocket'
BY DEF TypeOK, OneSocket, CloseSocket, Without

LEMMA AfterConnect ==
    ASSUME TypeOK, OneSocket, NEW b, Connect(b)
    PROVE  OneSocket' /\ socket' \in Sockets /\ peer'[socket'] = b
<1>1. PICK s \in Sockets :
        /\ socket' = s
        /\ phase' = [Without(phase, socket, "free") EXCEPT ![s] = "connecting"]
        /\ peer' = [Without(peer, socket, None) EXCEPT ![s] = b]
  BY DEF Connect
<1>2. \A x \in Sockets : x # s => phase'[x] = "free"
  BY <1>1 DEF Without, OneSocket
<1>3. peer'[s] = b
  BY <1>1 DEF Without
<1> QED
  BY <1>1, <1>2, <1>3 DEF OneSocket

LEMMA SocketStep == TypeOK /\ SocketInv /\ [Next]_vars => SocketInv'
<1> SUFFICES ASSUME TypeOK, SocketInv, [Next]_vars PROVE SocketInv'
  OBVIOUS
<1> USE NoneAssumption DEF SocketInv, ReadyIsConnected, SocketOfPresentBridge,
        NothingAfterDispose, manager, bridges, sockets
<1>1. CASE UNCHANGED vars
  BY <1>1 DEF vars, OneSocket
<1>2. ASSUME NEW b \in Bridges, ManagerReady(b) PROVE SocketInv'
  <2>1. CASE disposed /\ UNCHANGED sockets
    BY <1>2, <2>1 DEF ManagerReady, Manager!Ready, OneSocket
  <2>2. CASE ~disposed /\ Connect(b)
    <3>1. OneSocket' /\ socket' \in Sockets /\ peer'[socket'] = b
      BY <2>2, AfterConnect
    <3> QED
      BY <1>2, <2>2, <3>1 DEF ManagerReady, Manager!Ready
  <2> QED
    BY <1>2, <2>1, <2>2 DEF ManagerReady, OpenSocket
<1>3. CASE StartBegins \/ StartsInVain \/ StartFails
           \/ \E st \in {"stopped", "failed"} : ChildExits(st)
  <2>1. UNCHANGED <<sockets, disposed>> /\ status' # "ready" /\ info' = None
    BY <1>3 DEF StartBegins, StartsInVain, StartFails, ChildExits,
       Manager!StartBegins, Manager!StartsInVain, Manager!StartFails, Manager!SpawnFails,
       Manager!ChildExits, Manager!Disconnected
  <2> QED
    BY <2>1 DEF OneSocket
<1>4. CASE Restart \/ Dispose
  <2>1. CloseSocket /\ OneSocket' /\ socket' = None /\ timer' = FALSE
    BY <1>4, AfterClose, CloseTyped DEF Restart, Dispose
  <2> QED
    BY <1>4, <2>1 DEF Restart, Dispose, Manager!Stop, Manager!Disconnected
<1>5. CASE TimerFires
  <2>1. CASE ~disposed /\ info # None /\ Connect(info)
    <3>1. OneSocket' /\ socket' \in Sockets /\ peer'[socket'] = info
      BY <2>1, AfterConnect
    <3> QED
      BY <1>5, <2>1, <3>1 DEF TimerFires
  <2>2. CASE (disposed \/ info = None) /\ timer' = FALSE /\ UNCHANGED <<socket, phase, peer, wire>>
    BY <1>5, <2>2 DEF TimerFires, OneSocket
  <2> QED
    BY <1>5, <2>1, <2>2 DEF TimerFires
<1>6. ASSUME NEW s \in Sockets, SocketOpens(s) \/ SocketBreaks(s) PROVE SocketInv'
  BY <1>6 DEF SocketOpens, SocketBreaks, OneSocket, TypeOK
<1>7. ASSUME NEW s \in Sockets, SocketClosed(s) PROVE SocketInv'
  <2>1. s = socket /\ ~disposed
    BY <1>7 DEF SocketClosed, OneSocket
  <2>2. socket' = None /\ timer' = TRUE /\ UNCHANGED <<manager, disposed>>
    BY <1>7, <2>1 DEF SocketClosed, ScheduleReconnect
  <2>3. OneSocket'
    BY <1>7, <2>1, <2>2 DEF SocketClosed, OneSocket, TypeOK
  <2> QED
    BY <2>1, <2>2, <2>3
<1>8. ASSUME NEW s \in Sockets, Receive(s) \/ BridgeSends(s) PROVE SocketInv'
  BY <1>8 DEF Receive, BridgeSends, OneSocket
<1>9. CASE Post \/ \E reply \in replies : ReceiveReply(reply) \/ LoseReply(reply)
  BY <1>9 DEF Post, ReceiveReply, LoseReply, OneSocket
<1>10. ASSUME NEW b \in Bridges, BridgeStarts(b) \/ BridgeEnds(b) \/ BridgeChanges(b)
       PROVE SocketInv'
  BY <1>10 DEF BridgeStarts, BridgeEnds, BridgeChanges, OneSocket
<1>11. CASE StartThrows
  BY <1>11 DEF StartThrows, Manager!StartThrows, OneSocket
<1> QED
  BY <1>1, <1>2, <1>3, <1>4, <1>5, <1>6, <1>7, <1>8, <1>9, <1>10, <1>11 DEF Next

LEMMA SocketInvariant == Spec => []SocketInv
<1>1. Init => SocketInv
  BY DEF Init, SocketInv, OneSocket, ReadyIsConnected, SocketOfPresentBridge,
         NothingAfterDispose
<1> QED
  BY <1>1, SocketStep, TypeCorrect, PTL DEF Spec

(* The plugin never listens to a socket it has replaced or given up.       *)
THEOREM OneSocketAtATime == Spec => []OneSocket
<1>1. SocketInv => OneSocket
  BY DEF SocketInv
<1> QED
  BY <1>1, SocketInvariant, PTL

(* No order of events leaves a ready plugin without a socket and without a *)
(* timer to open one.                                                      *)
THEOREM NeverDeaf == Spec => []ReadyIsConnected
<1>1. SocketInv => ReadyIsConnected
  BY DEF SocketInv
<1> QED
  BY <1>1, SocketInvariant, PTL

(* The messages a ready plugin listens to come from the present bridge.    *)
THEOREM SocketFollowsBridge == Spec => []SocketOfPresentBridge
<1>1. SocketInv => SocketOfPresentBridge
  BY DEF SocketInv
<1> QED
  BY <1>1, SocketInvariant, PTL

(* Nothing that was under way when the service was disposed of reopens a   *)
(* socket.                                                                 *)
THEOREM DisposedForGood == Spec => []NothingAfterDispose
<1>1. SocketInv => NothingAfterDispose
  BY DEF SocketInv
<1> QED
  BY <1>1, SocketInvariant, PTL
=============================================================================
