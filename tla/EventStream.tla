------------------------------ MODULE EventStream ------------------------------
(***************************************************************************)
(* The playback state on its way from the adapter to a Stream Deck key:    *)
(* PlaybackStore (store.rs), the republishing task (lib.rs), the WebSocket *)
(* tasks (api/ws.rs), the reply of a command (api/mod.rs) and the plugin's *)
(* reception of both (bridge-service.ts, isNewerState of the contract).    *)
(*                                                                         *)
(* The store's lock is released before an event is sent, so the adapter    *)
(* and the republisher may send in another order than they read; the       *)
(* broadcast channel keeps the last Capacity events of each receiver and   *)
(* reports the loss of older ones; commands answer on other connections.   *)
(***************************************************************************)
EXTENDS Integers, Sequences, FiniteSets

CONSTANTS
    Conns,           \* WebSocket connections, one slot each, reused
    Contents,        \* everything of a snapshot that matters but its position
    PlayingContents, \* contents whose status is Playing
    Unavailable,     \* the content of NowPlayingState::unavailable
    Positions,       \* positions a sample may report: milliseconds, or NoPosition
    NoPosition,      \* position_ms = None
    Tolerance,       \* POSITION_DRIFT_TOLERANCE_MS
    Capacity,        \* EVENT_CHANNEL_CAPACITY
    MaxClients,      \* MAX_CLIENTS
    WireCapacity,    \* messages a socket holds before send().await blocks
    MaxSequence,     \* bound of the model on the number of changes
    MaxReplies,      \* bound of the model on command replies in flight
    NoSnapshot, NoEvent, NoSocket, ErrorEvent, ShutdownEvent

(* What adapters report; PlaybackSnapshot::default() has no position.      *)
Snapshot ==
    [content : {Unavailable}, position : {NoPosition}]
        \union [content : Contents \ {Unavailable}, position : Positions]

State == [sequence : Nat, content : Contents, position : Positions \union {NoPosition}]
Event == State \union {ErrorEvent, ShutdownEvent}
Senders == {"adapter", "republisher"}

ASSUME ContentAssumption == Unavailable \in Contents /\ PlayingContents \subseteq Contents
ASSUME PositionAssumption == Positions \subseteq Nat \union {NoPosition} /\ NoPosition \notin Nat
ASSUME BoundAssumption ==
    /\ Tolerance \in Nat
    /\ Capacity \in Nat \ {0}
    /\ WireCapacity \in Nat \ {0}
    /\ MaxClients \in Nat
    /\ MaxSequence \in Nat
    /\ MaxReplies \in Nat
ASSUME ConnsAssumption == IsFiniteSet(Conns)
ASSUME TokenAssumption ==
    /\ NoSnapshot \notin Snapshot
    /\ NoEvent \notin Event
    /\ NoSocket \notin Conns
    /\ ErrorEvent \notin State
    /\ ShutdownEvent \notin State
    /\ ErrorEvent # ShutdownEvent

VARIABLES
    state,          \* StoreInner::state
    last_snapshot,  \* StoreInner::last_snapshot
    outbox,         \* event cloned under the lock and not sent yet, per sender
    stopping,       \* the Shutdown event has been published
    queue,          \* events each receiver has not read, oldest first
    lagged,         \* the channel dropped events of this receiver
    phase,          \* where the serve task of each connection stands
    ws_clients,     \* AppState::ws_clients
    open,           \* the connection has not been closed by its client
    wire,           \* messages sent to each client and not received
    socket,         \* BridgeService.socket: the plugin's current connection
    view,           \* BridgeService.state
    replies,        \* states in answers to commands, on their way to the plugin
    published       \* history: content broadcast under each sequence number

storeVars == <<state, last_snapshot, outbox, published>>
channelVars == <<queue, lagged>>
connVars == <<phase, ws_clients, open, wire>>
pluginVars == <<socket, view, replies>>
vars == <<storeVars, stopping, channelVars, connVars, pluginVars>>

Phases == {"closed", "upgrading", "subscribed", "streaming", "leaving"}
Subscribed(c) == phase[c] \in {"subscribed", "streaming"}

Init ==
    /\ state = [sequence |-> 0, content |-> Unavailable, position |-> NoPosition]
    /\ last_snapshot = NoSnapshot
    /\ outbox = [s \in Senders |-> NoEvent]
    /\ stopping = FALSE
    /\ queue = [c \in Conns |-> <<>>]
    /\ lagged = [c \in Conns |-> FALSE]
    /\ phase = [c \in Conns |-> "closed"]
    /\ ws_clients = 0
    /\ open = [c \in Conns |-> FALSE]
    /\ wire = [c \in Conns |-> <<>>]
    /\ socket = NoSocket
    /\ view = [sequence |-> 0, content |-> Unavailable, position |-> NoPosition]
    /\ replies = {}
    /\ published = <<>>

-----------------------------------------------------------------------------
(* The store and its senders.                                              *)

(* is_significant_change: a real change, a position that appears or        *)
(* disappears, or a jump beyond the tolerance since the previous sample.   *)
IsSignificantChange(previous, next) ==
    \/ previous.content # next.content
    \/ (previous.position = NoPosition) # (next.position = NoPosition)
    \/ /\ previous.position # NoPosition
       /\ next.position # NoPosition
       /\ \/ next.position - previous.position > Tolerance
          \/ previous.position - next.position > Tolerance

(* Faulty variant: with nothing to compare it with, the first sample does  *)
(* not count as a change.                                                  *)
SignificantAfterFirst(snapshot) ==
    last_snapshot # NoSnapshot /\ IsSignificantChange(last_snapshot, snapshot)

Significant(snapshot) ==
    \/ last_snapshot = NoSnapshot
    \/ last_snapshot # NoSnapshot /\ IsSignificantChange(last_snapshot, snapshot)

ToState(snapshot, sequence) ==
    [sequence |-> sequence, content |-> snapshot.content, position |-> snapshot.position]

(* PlaybackStore::apply up to the release of the write lock.  The adapter  *)
(* calls it from one task, so its previous event has been sent.            *)
Apply(snapshot) ==
    /\ outbox["adapter"] = NoEvent
    /\ last_snapshot' = snapshot
    /\ \/ /\ Significant(snapshot)
          /\ state.sequence < MaxSequence
          /\ state' = ToState(snapshot, state.sequence + 1)
          /\ outbox' = [outbox EXCEPT !["adapter"] = ToState(snapshot, state.sequence + 1)]
          /\ published' = Append(published, snapshot.content)
       \/ /\ ~Significant(snapshot)
          /\ state' = ToState(snapshot, state.sequence)
          /\ UNCHANGED <<outbox, published>>
    /\ UNCHANGED <<stopping, channelVars, connVars, pluginVars>>

(* One tick of the republisher with subscribers, up to the release of the  *)
(* read lock in PlaybackStore::republish.                                  *)
Republish ==
    /\ outbox["republisher"] = NoEvent
    /\ \E c \in Conns : Subscribed(c)
    /\ state.content \in PlayingContents
    /\ outbox' = [outbox EXCEPT !["republisher"] = state]
    /\ UNCHANGED <<state, last_snapshot, published, stopping, channelVars, connVars, pluginVars>>

(* broadcast::Sender::send: every receiver gets the event; a receiver that *)
(* already holds Capacity events loses its oldest one and will be told.    *)
Broadcast(event) ==
    /\ queue' = [c \in Conns |->
                    IF ~Subscribed(c) THEN queue[c]
                    ELSE IF Len(queue[c]) < Capacity THEN Append(queue[c], event)
                    ELSE Append(Tail(queue[c]), event)]
    /\ lagged' = [c \in Conns |->
                    lagged[c] \/ (Subscribed(c) /\ Len(queue[c]) >= Capacity)]

(* The send that follows the lock, in apply and in republish.              *)
SendEvent(s) ==
    /\ outbox[s] # NoEvent
    /\ Broadcast(outbox[s])
    /\ outbox' = [outbox EXCEPT ![s] = NoEvent]
    /\ UNCHANGED <<state, last_snapshot, published, stopping, connVars, pluginVars>>

(* run_command reports a failed command on the event stream.               *)
PublishError ==
    /\ Broadcast(ErrorEvent)
    /\ UNCHANGED <<storeVars, stopping, connVars, pluginVars>>

PublishShutdown ==
    /\ ~stopping
    /\ stopping' = TRUE
    /\ Broadcast(ShutdownEvent)
    /\ UNCHANGED <<storeVars, connVars, pluginVars>>

-----------------------------------------------------------------------------
(* A WebSocket connection, as api/ws.rs serves it.                         *)

SetPhase(c, p) == phase' = [phase EXCEPT ![c] = p]

(* The plugin gives up its current socket: what is on its way is ignored,  *)
(* and the bridge will notice that the peer is gone.                       *)
CloseSocket(c) ==
    /\ open' = [open EXCEPT ![c] = FALSE]
    /\ wire' = [wire EXCEPT ![c] = <<>>]

(* handler: accepted while the counter is below MAX_CLIENTS.  The plugin   *)
(* opens its new socket after closing the previous one (openSocket).       *)
PluginConnect(c) ==
    /\ phase[c] = "closed" /\ ~open[c]
    /\ ws_clients < MaxClients
    /\ SetPhase(c, "upgrading")
    /\ open' = [k \in Conns |-> k = c \/ (k # socket /\ open[k])]
    /\ wire' = [k \in Conns |-> IF k = socket THEN <<>> ELSE wire[k]]
    /\ socket' = c
    /\ UNCHANGED <<storeVars, stopping, channelVars, ws_clients, view, replies>>

(* The same for any other local client.                                    *)
OtherConnect(c) ==
    /\ phase[c] = "closed" /\ ~open[c]
    /\ ws_clients < MaxClients
    /\ SetPhase(c, "upgrading")
    /\ open' = [open EXCEPT ![c] = TRUE]
    /\ UNCHANGED <<storeVars, stopping, channelVars, ws_clients, wire, pluginVars>>

(* The connection is gone before the upgrade completes: serve never runs.  *)
UpgradeFails(c) ==
    /\ phase[c] = "upgrading" /\ ~open[c]
    /\ SetPhase(c, "closed")
    /\ UNCHANGED <<storeVars, stopping, channelVars, ws_clients, open, wire, pluginVars>>

(* serve: count the client, then subscribe at the tail of the channel.     *)
Subscribe(c) ==
    /\ phase[c] = "upgrading"
    /\ ws_clients' = ws_clients + 1
    /\ SetPhase(c, "subscribed")
    /\ UNCHANGED <<storeVars, stopping, channelVars, open, wire, pluginVars>>

Unsubscribe(c) ==
    /\ queue' = [queue EXCEPT ![c] = <<>>]
    /\ lagged' = [lagged EXCEPT ![c] = FALSE]

Send(c, event) ==
    /\ Len(wire[c]) < WireCapacity
    /\ wire' = [wire EXCEPT ![c] = Append(wire[c], event)]

(* Faulty variant: a failed first send returns without uncounting.         *)
SendInitialLeak(c) ==
    /\ phase[c] = "subscribed"
    /\ \/ /\ open[c]
          /\ Send(c, state)
          /\ SetPhase(c, "streaming")
          /\ UNCHANGED channelVars
       \/ /\ ~open[c]
          /\ SetPhase(c, "closed")
          /\ Unsubscribe(c)
          /\ wire' = wire
    /\ UNCHANGED <<storeVars, stopping, ws_clients, open, pluginVars>>

(* serve: the state as it is once subscribed is the first message.  When   *)
(* the send fails the client is uncounted on the way out.                  *)
SendInitial(c) ==
    /\ phase[c] = "subscribed"
    /\ \/ /\ open[c]
          /\ Send(c, state)
          /\ SetPhase(c, "streaming")
          /\ UNCHANGED <<channelVars, ws_clients>>
       \/ /\ ~open[c]
          /\ SetPhase(c, "closed")
          /\ ws_clients' = ws_clients - 1
          /\ Unsubscribe(c)
          /\ wire' = wire
    /\ UNCHANGED <<storeVars, stopping, open, pluginVars>>

(* Faulty variant: the lag is noticed and nothing is sent.                 *)
ResyncSilent(c) ==
    /\ phase[c] = "streaming" /\ open[c]
    /\ lagged[c]
    /\ lagged' = [lagged EXCEPT ![c] = FALSE]
    /\ UNCHANGED <<storeVars, stopping, queue, connVars, pluginVars>>

(* events.recv() returns Lagged: the client gets the current state; the    *)
(* receiver goes on with the oldest event the channel still holds.         *)
Resync(c) ==
    /\ phase[c] = "streaming" /\ open[c]
    /\ lagged[c]
    /\ Send(c, state)
    /\ lagged' = [lagged EXCEPT ![c] = FALSE]
    /\ UNCHANGED <<storeVars, stopping, queue, phase, ws_clients, open, pluginVars>>

(* events.recv() returns an event: forward it; Shutdown ends the loop.     *)
Forward(c) ==
    /\ phase[c] = "streaming" /\ open[c]
    /\ ~lagged[c] /\ queue[c] # <<>>
    /\ Send(c, Head(queue[c]))
    /\ \/ /\ Head(queue[c]) = ShutdownEvent
          /\ SetPhase(c, "leaving")
          /\ Unsubscribe(c)
       \/ /\ Head(queue[c]) # ShutdownEvent
          /\ queue' = [queue EXCEPT ![c] = Tail(queue[c])]
          /\ UNCHANGED <<lagged, phase>>
    /\ UNCHANGED <<storeVars, stopping, ws_clients, open, pluginVars>>

(* A failed send or ping, Close, or the end of the stream: leave the loop. *)
NoticeClosed(c) ==
    /\ phase[c] = "streaming" /\ ~open[c]
    /\ SetPhase(c, "leaving")
    /\ Unsubscribe(c)
    /\ UNCHANGED <<storeVars, stopping, ws_clients, open, wire, pluginVars>>

(* The end of serve.                                                       *)
Leave(c) ==
    /\ phase[c] = "leaving"
    /\ SetPhase(c, "closed")
    /\ ws_clients' = ws_clients - 1
    /\ UNCHANGED <<storeVars, stopping, channelVars, open, wire, pluginVars>>

ServeStep(c) ==
    Subscribe(c) \/ SendInitial(c) \/ Resync(c) \/ Forward(c) \/ Leave(c)

-----------------------------------------------------------------------------
(* The plugin.                                                             *)

(* Faulty variant: every state received is taken.                          *)
AnyState(current, candidate) == TRUE

(* isNewerState of the contract, as BridgeService.applyState uses it.      *)
IsNewerState(current, candidate) == candidate.sequence >= current.sequence

ApplyState(candidate) ==
    view' = IF IsNewerState(view, candidate) THEN candidate ELSE view

(* Faulty variant: any message is taken for a state.                       *)
ReceiveAnyMessage(c) ==
    /\ wire[c] # <<>>
    /\ wire' = [wire EXCEPT ![c] = Tail(wire[c])]
    /\ view' = IF c = socket THEN Head(wire[c]) ELSE view
    /\ UNCHANGED <<storeVars, stopping, channelVars, phase, ws_clients, open, socket, replies>>

(* The client of c reads a message; only the plugin's socket feeds `view`. *)
Receive(c) ==
    /\ wire[c] # <<>>
    /\ wire' = [wire EXCEPT ![c] = Tail(wire[c])]
    /\ IF c = socket /\ Head(wire[c]) \notin {ErrorEvent, ShutdownEvent}
       THEN ApplyState(Head(wire[c]))
       ELSE view' = view
    /\ UNCHANGED <<storeVars, stopping, channelVars, phase, ws_clients, open, socket, replies>>

(* The connection ends on the client's side or in between; the plugin will *)
(* open another one (scheduleReconnect).                                   *)
Disconnect(c) ==
    /\ open[c]
    /\ CloseSocket(c)
    /\ socket' = IF c = socket THEN NoSocket ELSE socket
    /\ UNCHANGED <<storeVars, stopping, channelVars, phase, ws_clients, view, replies>>

(* The end of run_command, after COMMAND_SETTLE_MS: the state is read and  *)
(* leaves in the response of the POST.                                     *)
CommandReply ==
    /\ Cardinality(replies) < MaxReplies
    /\ replies' = replies \union {state}
    /\ UNCHANGED <<storeVars, stopping, channelVars, connVars, socket, view>>

(* BridgeService.post: the response is applied like an event.              *)
ReceiveReply(reply) ==
    /\ ApplyState(reply)
    /\ replies' = replies \ {reply}
    /\ UNCHANGED <<storeVars, stopping, channelVars, connVars, socket>>

(* BridgeService.post: the request fails or times out after 5 s.           *)
LoseReply(reply) ==
    /\ replies' = replies \ {reply}
    /\ UNCHANGED <<storeVars, stopping, channelVars, connVars, socket, view>>

Next ==
    \/ \E snapshot \in Snapshot : Apply(snapshot)
    \/ Republish
    \/ \E s \in Senders : SendEvent(s)
    \/ PublishError
    \/ PublishShutdown
    \/ \E c \in Conns :
          \/ PluginConnect(c) \/ OtherConnect(c) \/ UpgradeFails(c)
          \/ Subscribe(c) \/ SendInitial(c) \/ Resync(c) \/ Forward(c)
          \/ NoticeClosed(c) \/ Leave(c)
          \/ Receive(c) \/ Disconnect(c)
    \/ CommandReply
    \/ \E reply \in replies : ReceiveReply(reply) \/ LoseReply(reply)

Spec == Init /\ [][Next]_vars

(* The runtime runs every ready task; both ends of a socket make progress. *)
Fairness ==
    /\ \A s \in Senders : WF_vars(SendEvent(s))
    /\ \A c \in Conns : WF_vars(ServeStep(c)) /\ WF_vars(Receive(c))

FairSpec == Spec /\ Fairness

-----------------------------------------------------------------------------
TypeOK ==
    /\ state \in State /\ view \in State
    /\ last_snapshot \in Snapshot \union {NoSnapshot}
    /\ outbox \in [Senders -> State \union {NoEvent}]
    /\ stopping \in BOOLEAN
    /\ queue \in [Conns -> Seq(Event)]
    /\ \A c \in Conns : Len(queue[c]) <= Capacity
    /\ lagged \in [Conns -> BOOLEAN]
    /\ phase \in [Conns -> Phases]
    /\ ws_clients \in Int   \* that it never goes below 0 is ClientsCounted
    /\ open \in [Conns -> BOOLEAN]
    /\ wire \in [Conns -> Seq(Event)]
    /\ socket \in Conns \union {NoSocket}
    /\ replies \subseteq State
    /\ published \in Seq(Contents)

(* s is what a log of contents says under its sequence number.             *)
IsEntry(s, log) ==
    /\ s.sequence <= Len(log)
    /\ s.content = IF s.sequence = 0 THEN Unavailable ELSE log[s.sequence]

AllEntries(events, log) ==
    \A i \in 1..Len(events) :
        events[i] \notin {ErrorEvent, ShutdownEvent} => IsEntry(events[i], log)

(* A sequence number stands for one content, for ever and everywhere: no   *)
(* event, initial state, resynchronisation, republication or command reply *)
(* carries a number the store has not reached or another content under it. *)
SequenceIdentifiesContent ==
    /\ state.sequence = Len(published)
    /\ IsEntry(state, published)
    /\ IsEntry(view, published)
    /\ \A s \in Senders : outbox[s] # NoEvent => IsEntry(outbox[s], published)
    /\ \A reply \in replies : IsEntry(reply, published)
    /\ \A c \in Conns : AllEntries(queue[c], published) /\ AllEntries(wire[c], published)

HasNumber(event, n) ==
    event \notin {ErrorEvent, ShutdownEvent} /\ event.sequence = n

Carries(events, n) == \E i \in 1..Len(events) : HasNumber(events[i], n)

(* The last change is still to be sent, or on its way to the connection,   *)
(* or the connection knows that it missed something.                       *)
UnderWay(c) ==
    \/ outbox["adapter"] # NoEvent
    \/ lagged[c]
    \/ Carries(queue[c], state.sequence)
    \/ Carries(wire[c], state.sequence)

(* What NoLostUpdate rests on: the plugin shows the last change, or the    *)
(* last change can still reach it.                                         *)
LastChangeShownOrUnderWay ==
    /\ outbox["adapter"] # NoEvent => outbox["adapter"].sequence = state.sequence
    /\ \A c \in Conns : c = socket /\ phase[c] = "streaming" =>
          view.sequence = state.sequence \/ UnderWay(c)

(* Once the plugin's connection streams and nothing is left on its way,    *)
(* the key shows the store's last change: subscribing before the initial   *)
(* state, the resynchronisation and the sequence filter lose nothing       *)
(* between them, in whatever order the sends and the replies arrive.       *)
NoLostUpdate ==
    \A c \in Conns :
        /\ c = socket /\ phase[c] = "streaming"
        /\ outbox["adapter"] = NoEvent
        /\ queue[c] = <<>> /\ ~lagged[c] /\ wire[c] = <<>>
        => view.sequence = state.sequence

(* The connections whose serve task is running.                            *)
Serving == {c \in Conns : phase[c] \in {"subscribed", "streaming", "leaving"}}

(* ws_clients counts the running serve tasks: every path out of serve      *)
(* gives back what the path in took.                                       *)
ClientsCounted == ws_clients = Cardinality(Serving)

Feed == INSTANCE PublishedFeed WITH
    InitialContent <- Unavailable,
    log <- published,
    shown <- [sequence |-> view.sequence, content |-> view.content]

(* The plugin moves forward in the published log and never invents an      *)
(* entry: the whole stream implements the abstract feed.                   *)
ImplementsFeed == Feed!FeedSpec

(* As long as its connection lasts, the key reaches every change made in   *)
(* the store or a later one.                                               *)
CatchesUp ==
    \A c \in Conns, n \in 1..MaxSequence :
        (c = socket /\ phase[c] = "streaming" /\ state.sequence = n)
        ~> (view.sequence >= n \/ c # socket \/ phase[c] # "streaming")
=============================================================================
