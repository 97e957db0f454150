----------------------------- MODULE BridgeService -----------------------------
(***************************************************************************)
(* BridgeService (apps/streamdeck-plugin/src/bridge-service.ts) over       *)
(* successive bridges: the socket it keeps to the present one, the timer   *)
(* that reopens it, and the state it shows.  Every step is one callback of *)
(* the plugin's thread, or a step of a bridge or of the network.           *)
(*                                                                         *)
(* BridgeManager does here whatever ManagerView allows; that it does no    *)
(* more is shown in BridgeManager.  Each bridge counts its states from 0;  *)
(* a state is the bridge it comes from and its number.  The order of       *)
(* messages within one bridge is the matter of EventStream: here it sends  *)
(* any state it has had.  Reconnection delays are steps that come after    *)
(* any time, so reconnectAttempt, which only chooses one, is left out.     *)
(***************************************************************************)
EXTENDS Naturals, Sequences, FiniteSets

CONSTANTS
    Bridges,      \* bridge processes, one after the other
    Sockets,      \* WebSocket objects, reused once nothing refers to them
    None,
    WireCapacity, \* messages on their way to one socket
    MaxSequence,  \* bound of the model on the states of one bridge
    MaxReplies    \* bound of the model on the replies on their way

ASSUME NoneAssumption == None \notin Bridges /\ None \notin Sockets
ASSUME LimitAssumption ==
    WireCapacity \in Nat \ {0} /\ MaxSequence \in Nat /\ MaxReplies \in Nat

VARIABLES
    status, info,     \* BridgeManager.getStatus(), getInfo()
    starting,         \* its start() is under way
    proc, sequence,   \* the bridges, and the number of their last state
    socket, timer,    \* BridgeService.socket; reconnectTimer is set
    disposed,
    view,             \* BridgeService.state
    phase, peer,      \* of each WebSocket that has listeners, its bridge
    wire,             \* messages it has not received
    replies           \* answers of commands on their way to post()

bridges == <<proc, sequence>>
manager == <<status, info, starting>>
sockets == <<socket, timer, phase, peer, wire>>
vars == <<manager, bridges, sockets, disposed, view, replies>>

Statuses == {"stopped", "starting", "ready", "failed"}
States == [bridge : Bridges \union {None}, sequence : 0..MaxSequence]
UnavailableState == [bridge |-> None, sequence |-> 0]

Init ==
    /\ status = "stopped" /\ info = None /\ starting = FALSE
    /\ proc = [b \in Bridges |-> "unborn"]
    /\ sequence = [b \in Bridges |-> 0]
    /\ socket = None /\ timer = FALSE /\ disposed = FALSE
    /\ view = UnavailableState
    /\ phase = [s \in Sockets |-> "free"]
    /\ peer = [s \in Sockets |-> None]
    /\ wire = [s \in Sockets |-> <<>>]
    /\ replies = {}

-----------------------------------------------------------------------------
(* A socket that loses its listeners can tell the plugin nothing any more. *)
Without(f, s, blank) == [x \in Sockets |-> IF x = s THEN blank ELSE f[x]]

CloseSocket ==
    /\ timer' = FALSE
    /\ socket' = None
    /\ phase' = Without(phase, socket, "free")
    /\ peer' = Without(peer, socket, None)
    /\ wire' = Without(wire, socket, <<>>)

(* A new WebSocket to bridge b, once the previous one is closed.           *)
Connect(b) ==
    \E s \in Sockets :
        /\ phase[s] = "free"
        /\ timer' = FALSE
        /\ socket' = s
        /\ phase' = [Without(phase, socket, "free") EXCEPT ![s] = "connecting"]
        /\ peer' = [Without(peer, socket, None) EXCEPT ![s] = b]
        /\ wire' = Without(wire, socket, <<>>)

(* Faulty variant: the previous socket is left as it is.                   *)
OpenSocketBeside(b) ==
    \/ (disposed \/ b = None) /\ UNCHANGED sockets
    \/ /\ ~disposed /\ b # None
       /\ \E s \in Sockets :
             /\ phase[s] = "free"
             /\ socket' = s
             /\ phase' = [phase EXCEPT ![s] = "connecting"]
             /\ peer' = [peer EXCEPT ![s] = b]
             /\ timer' = FALSE
             /\ wire' = wire

(* Faulty variant: a socket that is already there is kept.                 *)
OpenSocketOnce(b) ==
    \/ (disposed \/ b = None \/ socket # None) /\ UNCHANGED sockets
    \/ ~disposed /\ b # None /\ socket = None /\ Connect(b)

(* Faulty variant: dispose is not looked at.                               *)
OpenSocketAlways(b) ==
    \/ b = None /\ UNCHANGED sockets
    \/ b # None /\ Connect(b)

OpenSocket(b) ==
    \/ (disposed \/ b = None) /\ UNCHANGED sockets
    \/ ~disposed /\ b # None /\ Connect(b)

-----------------------------------------------------------------------------
(* The manager.  The listener set by the constructor hears of each change  *)
(* of its status.                                                          *)
Manager == INSTANCE ManagerView WITH lost <- info # None /\ proc[info] = "gone"

ManagerReady(b) ==
    /\ UNCHANGED <<bridges, disposed, view, replies>>
    /\ proc[b] # "unborn"
    /\ Manager!Ready(b)
    /\ OpenSocket(b)

(* Faulty variant: the state is dropped with the bridge.                   *)
ForgetAltogether(heard) ==
    view' = None

(* The listener hears, or not, of a status other than "ready".             *)
ForgetState(heard) ==
    view' = IF heard THEN UnavailableState ELSE view

StartBegins ==
    /\ UNCHANGED <<bridges, sockets, disposed, replies>>
    /\ Manager!StartBegins
    /\ ForgetState(status # "starting")

StartsInVain ==
    /\ UNCHANGED <<bridges, sockets, disposed, replies>>
    /\ Manager!StartsInVain
    /\ ForgetState(TRUE)

StartFails ==
    /\ UNCHANGED <<bridges, sockets, disposed, replies>>
    /\ Manager!StartFails \/ Manager!SpawnFails
    /\ ForgetState(status # "failed")

(* The status does not change, and nothing is heard.                       *)
StartThrows ==
    /\ UNCHANGED <<bridges, sockets, disposed, view, replies>>
    /\ Manager!StartThrows

(* "failed" is only reached through "stopped".                             *)
ChildExits(st) ==
    /\ UNCHANGED <<bridges, sockets, disposed, replies>>
    /\ Manager!ChildExits(st)
    /\ ForgetState(status # "stopped" \/ st # "stopped")

(* restart and dispose up to their first await.                            *)
Restart ==
    /\ UNCHANGED <<bridges, disposed, replies>>
    /\ CloseSocket
    /\ Manager!Stop
    /\ ForgetState(status # "stopped")

Dispose ==
    /\ ~disposed /\ disposed' = TRUE
    /\ UNCHANGED <<bridges, replies>>
    /\ CloseSocket
    /\ Manager!Stop
    /\ ForgetState(status # "stopped")

-----------------------------------------------------------------------------
(* Faulty variant: the callback finds its own timer still set and leaves.  *)
TimerFiresBlocked ==
    /\ timer
    /\ UNCHANGED vars

(* The reconnection timer.                                                 *)
TimerFires ==
    /\ timer
    /\ \/ ~disposed /\ info # None /\ Connect(info)
       \/ /\ disposed \/ info = None
          /\ timer' = FALSE
          /\ UNCHANGED <<socket, phase, peer, wire>>
    /\ UNCHANGED <<manager, bridges, disposed, view, replies>>

SocketOpens(s) ==
    /\ phase[s] = "connecting" /\ proc[peer[s]] = "alive"
    /\ phase' = [phase EXCEPT ![s] = "open"]
    /\ UNCHANGED <<manager, bridges, socket, timer, peer, wire, disposed, view, replies>>

(* Refused, reset, or closed by the bridge: what was sent before can still *)
(* be read, then the close event comes.                                    *)
SocketBreaks(s) ==
    /\ phase[s] \in {"connecting", "open"}
    /\ phase' = [phase EXCEPT ![s] = "closing"]
    /\ UNCHANGED <<manager, bridges, socket, timer, peer, wire, disposed, view, replies>>

ScheduleReconnect ==
    timer' = IF disposed THEN timer ELSE TRUE

(* Faulty variant: the listener of a socket that has been read to its end  *)
(* forgets it, and leaves the next status change to open another.          *)
SocketClosedForgets(s) ==
    /\ phase[s] = "closing" /\ wire[s] = <<>>
    /\ socket' = IF socket = s THEN None ELSE socket
    /\ phase' = [phase EXCEPT ![s] = "free"]
    /\ peer' = [peer EXCEPT ![s] = None]
    /\ UNCHANGED <<manager, bridges, timer, wire, disposed, view, replies>>

(* The close event.                                                        *)
SocketClosed(s) ==
    /\ phase[s] = "closing" /\ wire[s] = <<>>
    /\ socket' = IF socket = s THEN None ELSE socket
    /\ ScheduleReconnect
    /\ phase' = [phase EXCEPT ![s] = "free"]
    /\ peer' = [peer EXCEPT ![s] = None]
    /\ UNCHANGED <<manager, bridges, wire, disposed, view, replies>>

-----------------------------------------------------------------------------
ApplyState(candidate) ==
    view' = IF candidate.sequence >= view.sequence THEN candidate ELSE view

(* The message event.                                                      *)
Receive(s) ==
    /\ wire[s] # <<>>
    /\ wire' = [wire EXCEPT ![s] = Tail(wire[s])]
    /\ ApplyState(Head(wire[s]))
    /\ UNCHANGED <<manager, bridges, socket, timer, phase, peer, disposed, replies>>

(* post, and the bridge's answer: the plugin has a connection and a state  *)
(* that is available.                                                      *)
Post ==
    /\ info # None /\ view.bridge # None
    /\ proc[info] = "alive"
    /\ Cardinality(replies) < MaxReplies
    /\ replies' = replies \union {[bridge |-> info, sequence |-> sequence[info]]}
    /\ UNCHANGED <<manager, bridges, sockets, disposed, view>>

ReceiveReply(reply) ==
    /\ replies' = replies \ {reply}
    /\ ApplyState(reply)
    /\ UNCHANGED <<manager, bridges, sockets, disposed>>

LoseReply(reply) ==
    /\ replies' = replies \ {reply}
    /\ UNCHANGED <<manager, bridges, sockets, disposed, view>>

-----------------------------------------------------------------------------
(* The bridges.                                                            *)
BridgeStarts(b) ==
    /\ proc[b] = "unborn"
    /\ proc' = [proc EXCEPT ![b] = "alive"]
    /\ UNCHANGED <<manager, sequence, sockets, disposed, view, replies>>

BridgeEnds(b) ==
    /\ proc[b] = "alive"
    /\ proc' = [proc EXCEPT ![b] = "gone"]
    /\ UNCHANGED <<manager, sequence, sockets, disposed, view, replies>>

BridgeChanges(b) ==
    /\ proc[b] = "alive" /\ sequence[b] < MaxSequence
    /\ sequence' = [sequence EXCEPT ![b] = sequence[b] + 1]
    /\ UNCHANGED <<manager, proc, sockets, disposed, view, replies>>

BridgeSends(s) ==
    /\ phase[s] = "open" /\ proc[peer[s]] = "alive"
    /\ Len(wire[s]) < WireCapacity
    /\ \E n \in 0..sequence[peer[s]] :
          wire' = [wire EXCEPT ![s] = Append(wire[s], [bridge |-> peer[s], sequence |-> n])]
    /\ UNCHANGED <<manager, bridges, socket, timer, phase, peer, disposed, view, replies>>

Next ==
    \/ \E b \in Bridges : ManagerReady(b) \/ BridgeStarts(b) \/ BridgeEnds(b) \/ BridgeChanges(b)
    \/ StartBegins \/ StartsInVain \/ StartFails \/ StartThrows
    \/ \E st \in {"stopped", "failed"} : ChildExits(st)
    \/ Restart \/ Dispose \/ TimerFires
    \/ \E s \in Sockets :
          SocketOpens(s) \/ SocketBreaks(s) \/ SocketClosed(s) \/ Receive(s) \/ BridgeSends(s)
    \/ Post
    \/ \E reply \in replies : ReceiveReply(reply) \/ LoseReply(reply)

Spec == Init /\ [][Next]_vars

ConnectionResolves(s) ==
    phase[s] = "connecting" /\ (SocketOpens(s) \/ SocketBreaks(s))

(* Timers fire, events of sockets are delivered, a connection attempt is   *)
(* accepted or refused, and a bridge that lives does not refuse them all.  *)
FairSpec ==
    /\ Spec
    /\ WF_vars(TimerFires)
    /\ \A s \in Sockets :
          /\ WF_vars(ConnectionResolves(s)) /\ SF_vars(SocketOpens(s))
          /\ WF_vars(SocketClosed(s)) /\ WF_vars(Receive(s))

-----------------------------------------------------------------------------
TypeOK ==
    /\ status \in Statuses
    /\ info \in Bridges \union {None}
    /\ starting \in BOOLEAN
    /\ proc \in [Bridges -> {"unborn", "alive", "gone"}]
    /\ sequence \in [Bridges -> 0..MaxSequence]
    /\ socket \in Sockets \union {None}
    /\ timer \in BOOLEAN /\ disposed \in BOOLEAN
    /\ view \in States
    /\ phase \in [Sockets -> {"free", "connecting", "open", "closing"}]
    /\ peer \in [Sockets -> Bridges \union {None}]
    /\ \A s \in Sockets : phase[s] # "free" => peer[s] \in Bridges
    /\ wire \in [Sockets -> Seq(States)]
    /\ replies \subseteq States

(* The plugin listens to one socket at most, the one it knows: restarts,   *)
(* status changes, close events and the timer never leave another one      *)
(* behind that would go on feeding the keys.                               *)
OneSocket ==
    \A s \in Sockets : phase[s] # "free" => s = socket

(* A plugin that shows a ready bridge has a socket or is about to open     *)
(* one: no order of close events, restarts and status changes leaves it    *)
(* ready and deaf.                                                         *)
ReadyIsConnected ==
    status = "ready" /\ ~disposed => socket # None \/ timer

(* While the bridge is ready, the socket leads to it and not to one that   *)
(* was there before.                                                       *)
SocketOfPresentBridge ==
    status = "ready" /\ socket # None => peer[socket] = info

(* After dispose no event reopens a socket, a start that ends late         *)
(* included.                                                               *)
NothingAfterDispose ==
    disposed => socket = None /\ ~timer

(* As long as the bridge lives and stays the present one, the plugin       *)
(* reaches an open socket to it.                                           *)
Present(b) == status = "ready" /\ info = b /\ proc[b] = "alive" /\ ~disposed

Reconnects ==
    \A b \in Bridges :
        Present(b) ~> (~Present(b) \/ (socket # None /\ phase[socket] = "open"))

(* Outdated states are ignored (contract, isNewerState): while a bridge is *)
(* ready, the state shown is not one of an earlier bridge.                 *)
ViewOfPresentBridge ==
    status = "ready" => view.bridge \in {None, info}
=============================================================================
