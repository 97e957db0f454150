--------------------------- MODULE EventStreamProofs ---------------------------
(***************************************************************************)
(* For every number of connections, every content, channel and socket      *)
(* capacity: a sequence number identifies one content wherever it travels, *)
(* the plugin reads the published log forward, and no change is lost       *)
(* between the subscription, the initial state, the resynchronisations and *)
(* the sequence filter.                                                    *)
(***************************************************************************)
EXTENDS EventStream, FiniteSetTheorems, TLAPS

LEMMA TwoSenders == "adapter" \in Senders /\ "republisher" \in Senders
  BY DEF Senders

(* An event put in a receiver's queue keeps it within Capacity.            *)
LEMMA BroadcastTypes ==
    ASSUME TypeOK, NEW event \in Event, Broadcast(event)
    PROVE  /\ queue' \in [Conns -> Seq(Event)]
           /\ \A c \in Conns : Len(queue'[c]) <= Capacity
           /\ lagged' \in [Conns -> BOOLEAN]
<1>1. ASSUME NEW c \in Conns
      PROVE  queue'[c] \in Seq(Event) /\ Len(queue'[c]) <= Capacity
  <2>1. queue[c] \in Seq(Event) /\ Len(queue[c]) <= Capacity /\ Capacity \in Nat \ {0}
    BY BoundAssumption DEF TypeOK
  <2>2. queue'[c] = IF ~Subscribed(c) THEN queue[c]
                    ELSE IF Len(queue[c]) < Capacity THEN Append(queue[c], event)
                    ELSE Append(Tail(queue[c]), event)
    BY DEF Broadcast
  <2>3. CASE ~Subscribed(c)
    BY <2>1, <2>2, <2>3
  <2>4. CASE Subscribed(c) /\ Len(queue[c]) < Capacity
    BY <2>1, <2>2, <2>4
  <2>5. CASE Subscribed(c) /\ ~(Len(queue[c]) < Capacity)
    <3>1. queue[c] # <<>> /\ Tail(queue[c]) \in Seq(Event) /\ Len(Tail(queue[c])) = Len(queue[c]) - 1
      BY <2>1, <2>5
    <3>2. queue'[c] = Append(Tail(queue[c]), event)
      BY <2>2, <2>5
    <3> QED
      BY <2>1, <3>1, <3>2
  <2> QED
    BY <2>3, <2>4, <2>5
<1>2. queue' = [c \in Conns |-> queue'[c]]
  BY DEF Broadcast
<1>3. queue' \in [Conns -> Seq(Event)]
  BY <1>1, <1>2
<1>4. lagged' \in [Conns -> BOOLEAN]
  BY DEF Broadcast, TypeOK
<1> QED
  BY <1>1, <1>3, <1>4

LEMMA SendTypes ==
    ASSUME TypeOK, NEW c \in Conns, NEW event \in Event, Send(c, event)
    PROVE  wire' \in [Conns -> Seq(Event)]
  BY DEF Send, TypeOK

LEMMA UnsubscribeTypes ==
    ASSUME TypeOK, NEW c \in Conns, Unsubscribe(c)
    PROVE  /\ queue' \in [Conns -> Seq(Event)]
           /\ \A k \in Conns : Len(queue'[k]) <= Capacity
           /\ lagged' \in [Conns -> BOOLEAN]
  BY BoundAssumption DEF Unsubscribe, TypeOK

LEMMA InitTypes == Init => TypeOK
<1> SUFFICES ASSUME Init PROVE TypeOK
  OBVIOUS
<1>1. [sequence |-> 0, content |-> Unavailable, position |-> NoPosition] \in State
  BY ContentAssumption DEF State
<1>2. published \in Seq(Contents) /\ queue \in [Conns -> Seq(Event)] /\ wire \in [Conns -> Seq(Event)]
  BY DEF Init
<1>3. \A c \in Conns : Len(queue[c]) <= Capacity
  BY BoundAssumption DEF Init
<1>4. ws_clients \in Int /\ replies \subseteq State
  BY DEF Init
<1> QED
  BY <1>1, <1>2, <1>3, <1>4 DEF Init, TypeOK, Phases

LEMMA SnapshotStates ==
    ASSUME NEW snapshot \in Snapshot, NEW n \in Nat
    PROVE  ToState(snapshot, n) \in State /\ snapshot.content \in Contents
  BY ContentAssumption DEF Snapshot, State, ToState

LEMMA NextTypes == TypeOK /\ [Next]_vars => TypeOK'
<1> SUFFICES ASSUME TypeOK, [Next]_vars PROVE TypeOK'
  OBVIOUS
<1> USE DEF storeVars, channelVars, connVars, pluginVars
<1>1. ASSUME NEW snapshot \in Snapshot, Apply(snapshot) PROVE TypeOK'
  <2>1. /\ state.sequence \in Nat
        /\ ToState(snapshot, state.sequence) \in State
        /\ ToState(snapshot, state.sequence + 1) \in State
        /\ snapshot.content \in Contents
    <3>1. state.sequence \in Nat /\ state.sequence + 1 \in Nat
      BY DEF TypeOK, State
    <3> QED
      BY <3>1, SnapshotStates
  <2>2. /\ last_snapshot' = snapshot
        /\ UNCHANGED <<stopping, channelVars, connVars, pluginVars>>
    BY <1>1 DEF Apply
  <2>3. CASE /\ state' = ToState(snapshot, state.sequence + 1)
             /\ outbox' = [outbox EXCEPT !["adapter"] = ToState(snapshot, state.sequence + 1)]
             /\ published' = Append(published, snapshot.content)
    <3>1. outbox' \in [Senders -> State \union {NoEvent}]
      BY <2>1, <2>3 DEF TypeOK
    <3>2. published' \in Seq(Contents)
      BY <2>1, <2>3 DEF TypeOK
    <3> QED
      BY <2>1, <2>2, <2>3, <3>1, <3>2 DEF TypeOK
  <2>4. CASE state' = ToState(snapshot, state.sequence) /\ UNCHANGED <<outbox, published>>
    BY <2>1, <2>2, <2>4 DEF TypeOK
  <2> QED
    BY <1>1, <2>3, <2>4 DEF Apply
<1>2. CASE Republish
  <2>1. outbox' \in [Senders -> State \union {NoEvent}]
    BY <1>2, TwoSenders DEF Republish, TypeOK
  <2> QED
    BY <1>2, <2>1 DEF Republish, TypeOK
<1>3. ASSUME NEW s \in Senders, SendEvent(s) PROVE TypeOK'
  <2>1. outbox[s] \in Event
    BY <1>3 DEF SendEvent, TypeOK, Event
  <2> QED
    BY <1>3, <2>1, BroadcastTypes DEF SendEvent, TypeOK
<1>4. CASE PublishError
  BY <1>4, BroadcastTypes DEF PublishError, TypeOK, Event
<1>5. CASE PublishShutdown
  BY <1>5, BroadcastTypes DEF PublishShutdown, TypeOK, Event
<1>6. ASSUME NEW c \in Conns, PluginConnect(c) PROVE TypeOK'
  BY <1>6 DEF PluginConnect, SetPhase, Phases, TypeOK
<1>7. ASSUME NEW c \in Conns, OtherConnect(c) PROVE TypeOK'
  BY <1>7 DEF OtherConnect, SetPhase, Phases, TypeOK
<1>8. ASSUME NEW c \in Conns, UpgradeFails(c) PROVE TypeOK'
  BY <1>8 DEF UpgradeFails, SetPhase, Phases, TypeOK
<1>9. ASSUME NEW c \in Conns, Subscribe(c) PROVE TypeOK'
  BY <1>9 DEF Subscribe, SetPhase, Phases, TypeOK
<1>10. ASSUME NEW c \in Conns, SendInitial(c) PROVE TypeOK'
  <2>1. UNCHANGED <<storeVars, stopping, open, pluginVars>>
    BY <1>10 DEF SendInitial
  <2>2. CASE /\ Send(c, state)
             /\ SetPhase(c, "streaming")
             /\ UNCHANGED <<channelVars, ws_clients>>
    BY <2>1, <2>2, SendTypes DEF SetPhase, Phases, TypeOK, Event
  <2>3. CASE /\ SetPhase(c, "closed")
             /\ ws_clients' = ws_clients - 1
             /\ Unsubscribe(c)
             /\ wire' = wire
    BY <2>1, <2>3, UnsubscribeTypes DEF SetPhase, Phases, TypeOK
  <2> QED
    BY <1>10, <2>2, <2>3 DEF SendInitial
<1>11. ASSUME NEW c \in Conns, Resync(c) PROVE TypeOK'
  BY <1>11, SendTypes DEF Resync, TypeOK, Event
<1>12. ASSUME NEW c \in Conns, Forward(c) PROVE TypeOK'
  <2>1. /\ UNCHANGED <<storeVars, stopping, ws_clients, open, pluginVars>>
        /\ Send(c, Head(queue[c]))
        /\ queue[c] # <<>>
    BY <1>12 DEF Forward
  <2>2. /\ queue[c] \in Seq(Event)
        /\ Head(queue[c]) \in Event
        /\ Tail(queue[c]) \in Seq(Event)
        /\ Len(Tail(queue[c])) <= Capacity
    BY <2>1, BoundAssumption DEF TypeOK
  <2>3. wire' \in [Conns -> Seq(Event)]
    BY <2>1, <2>2, SendTypes
  <2>4. CASE SetPhase(c, "leaving") /\ Unsubscribe(c)
    BY <2>1, <2>3, <2>4, UnsubscribeTypes DEF SetPhase, Phases, TypeOK
  <2>5. CASE queue' = [queue EXCEPT ![c] = Tail(queue[c])] /\ UNCHANGED <<lagged, phase>>
    BY <2>1, <2>2, <2>3, <2>5 DEF TypeOK
  <2> QED
    BY <1>12, <2>4, <2>5 DEF Forward
<1>13. ASSUME NEW c \in Conns, NoticeClosed(c) PROVE TypeOK'
  BY <1>13, UnsubscribeTypes DEF NoticeClosed, SetPhase, Phases, TypeOK
<1>14. ASSUME NEW c \in Conns, Leave(c) PROVE TypeOK'
  BY <1>14 DEF Leave, SetPhase, Phases, TypeOK
<1>15. ASSUME NEW c \in Conns, Receive(c) PROVE TypeOK'
  <2>1. /\ UNCHANGED <<storeVars, stopping, channelVars, phase, ws_clients, open, socket, replies>>
        /\ wire' = [wire EXCEPT ![c] = Tail(wire[c])]
        /\ wire[c] # <<>>
    BY <1>15 DEF Receive
  <2>2. wire[c] \in Seq(Event) /\ Head(wire[c]) \in Event /\ Tail(wire[c]) \in Seq(Event)
    BY <2>1 DEF TypeOK
  <2>3. view' \in State
    BY <1>15, <2>2 DEF Receive, ApplyState, Event, TypeOK
  <2> QED
    BY <2>1, <2>2, <2>3 DEF TypeOK
<1>16. ASSUME NEW c \in Conns, Disconnect(c) PROVE TypeOK'
  BY <1>16 DEF Disconnect, CloseSocket, TypeOK
<1>17. CASE CommandReply
  BY <1>17 DEF CommandReply, TypeOK
<1>18. ASSUME NEW reply \in replies, ReceiveReply(reply) PROVE TypeOK'
  BY <1>18 DEF ReceiveReply, ApplyState, TypeOK
<1>19. ASSUME NEW reply \in replies, LoseReply(reply) PROVE TypeOK'
  BY <1>19 DEF LoseReply, TypeOK
<1>20. CASE UNCHANGED vars
  BY <1>20 DEF vars, TypeOK
<1> QED
  BY <1>1, <1>2, <1>3, <1>4, <1>5, <1>6, <1>7, <1>8, <1>9, <1>10, <1>11, <1>12,
     <1>13, <1>14, <1>15, <1>16, <1>17, <1>18, <1>19, <1>20 DEF Next

(* Every variable keeps its type, the channel its bound.                   *)
THEOREM TypeCorrect == Spec => []TypeOK
  BY InitTypes, NextTypes, PTL DEF Spec

-----------------------------------------------------------------------------
(* A published entry stays what it is when the log grows.                  *)
LEMMA EntryStays ==
    ASSUME NEW log \in Seq(Contents), NEW content \in Contents,
           NEW s \in State, IsEntry(s, log)
    PROVE  IsEntry(s, Append(log, content))
  BY DEF IsEntry, State

(* The state of a significant change is the entry it publishes.            *)
LEMMA NewEntry ==
    ASSUME NEW log \in Seq(Contents), NEW snapshot \in Snapshot, snapshot.content \in Contents
    PROVE  /\ IsEntry(ToState(snapshot, Len(log) + 1), Append(log, snapshot.content))
           /\ Len(Append(log, snapshot.content)) = Len(log) + 1
<1>1. ToState(snapshot, Len(log) + 1).sequence = Len(log) + 1
  BY DEF ToState
<1>2. ToState(snapshot, Len(log) + 1).content = snapshot.content
  BY DEF ToState
<1> QED
  BY <1>1, <1>2 DEF IsEntry

(* What may be sent without breaking the agreement with the log.           *)
Faithful(e, log) == e \in {ErrorEvent, ShutdownEvent} \/ IsEntry(e, log)

LEMMA EntriesStay ==
    ASSUME NEW log \in Seq(Contents), NEW content \in Contents,
           NEW events \in Seq(Event), AllEntries(events, log)
    PROVE  AllEntries(events, Append(log, content))
  BY EntryStays DEF AllEntries, Event

LEMMA AppendEntries ==
    ASSUME NEW log, NEW events \in Seq(Event), NEW event \in Event,
           AllEntries(events, log), Faithful(event, log)
    PROVE  AllEntries(Append(events, event), log)
  BY DEF AllEntries, Faithful

LEMMA TailEntries ==
    ASSUME NEW log, NEW events \in Seq(Event), events # <<>>, AllEntries(events, log)
    PROVE  /\ Tail(events) \in Seq(Event)
           /\ AllEntries(Tail(events), log)
           /\ Head(events) \in Event
           /\ Faithful(Head(events), log)
<1>1. /\ Tail(events) \in Seq(Event) /\ Head(events) \in Event
      /\ Head(events) = events[1] /\ 1 \in 1..Len(events)
      /\ \A i \in 1..Len(Tail(events)) : Tail(events)[i] = events[i + 1] /\ i + 1 \in 1..Len(events)
  OBVIOUS
<1> QED
  BY <1>1 DEF AllEntries, Faithful

LEMMA NoEntries == \A log : AllEntries(<<>>, log)
  BY DEF AllEntries

LEMMA BroadcastEntries ==
    ASSUME TypeOK, SequenceIdentifiesContent,
           NEW event \in Event, Faithful(event, published), Broadcast(event)
    PROVE  \A c \in Conns : AllEntries(queue'[c], published)
<1> SUFFICES ASSUME NEW c \in Conns PROVE AllEntries(queue'[c], published)
  OBVIOUS
<1>1. queue[c] \in Seq(Event) /\ AllEntries(queue[c], published)
  BY DEF TypeOK, SequenceIdentifiesContent
<1>2. \/ queue'[c] = queue[c]
      \/ queue'[c] = Append(queue[c], event)
      \/ queue'[c] = Append(Tail(queue[c]), event) /\ queue[c] # <<>>
  BY BoundAssumption, <1>1 DEF Broadcast
<1>3. CASE queue'[c] = Append(Tail(queue[c]), event) /\ queue[c] # <<>>
  <2>1. Tail(queue[c]) \in Seq(Event) /\ AllEntries(Tail(queue[c]), published)
    BY <1>1, <1>3, TailEntries
  <2> QED
    BY <1>3, <2>1, AppendEntries
<1> QED
  BY <1>1, <1>2, <1>3, AppendEntries

LEMMA SendEntries ==
    ASSUME TypeOK, SequenceIdentifiesContent, NEW c \in Conns,
           NEW event \in Event, Faithful(event, published), Send(c, event)
    PROVE  \A k \in Conns : AllEntries(wire'[k], published)
<1>1. \A k \in Conns : wire[k] \in Seq(Event) /\ AllEntries(wire[k], published)
  BY DEF TypeOK, SequenceIdentifiesContent
<1>2. \A k \in Conns : wire'[k] = IF k = c THEN Append(wire[c], event) ELSE wire[k]
  BY DEF Send, TypeOK
<1> QED
  BY <1>1, <1>2, AppendEntries

LEMMA UnsubscribeEntries ==
    ASSUME TypeOK, SequenceIdentifiesContent, NEW c \in Conns, Unsubscribe(c)
    PROVE  \A k \in Conns : AllEntries(queue'[k], published)
  BY NoEntries DEF Unsubscribe, TypeOK, SequenceIdentifiesContent

(* A received state replaces the one shown by an entry or leaves it.       *)
LEMMA ViewEntry ==
    ASSUME SequenceIdentifiesContent, NEW candidate,
           IsEntry(candidate, published), ApplyState(candidate)
    PROVE  IsEntry(view', published)
  BY DEF SequenceIdentifiesContent, ApplyState

LEMMA InitEntries == Init => SequenceIdentifiesContent
<1> SUFFICES ASSUME Init PROVE SequenceIdentifiesContent
  OBVIOUS
<1>1. state.sequence = Len(published) /\ state.sequence = 0 /\ state.content = Unavailable
  BY DEF Init
<1>2. view.sequence = 0 /\ view.content = Unavailable
  BY DEF Init
<1>3. IsEntry(state, published) /\ IsEntry(view, published)
  BY <1>1, <1>2 DEF IsEntry
<1>4. \A c \in Conns : AllEntries(queue[c], published) /\ AllEntries(wire[c], published)
  BY NoEntries DEF Init
<1>5. (\A s \in Senders : outbox[s] = NoEvent) /\ replies = {}
  BY DEF Init
<1> QED
  BY <1>1, <1>3, <1>4, <1>5 DEF SequenceIdentifiesContent

(* The previous sample and the state it became agree on the content.       *)
SampleIsState == last_snapshot # NoSnapshot => last_snapshot.content = state.content

LEMMA NextSample == TypeOK /\ SampleIsState /\ [Next]_vars => SampleIsState'
<1> SUFFICES ASSUME TypeOK, SampleIsState, [Next]_vars PROVE SampleIsState'
  OBVIOUS
<1>1. ASSUME NEW snapshot \in Snapshot, Apply(snapshot) PROVE SampleIsState'
  BY <1>1 DEF Apply, ToState, SampleIsState
<1>2. CASE UNCHANGED <<state, last_snapshot>>
  BY <1>2 DEF SampleIsState
<1> QED
  BY <1>1, <1>2 DEF Next, vars, storeVars, Republish, SendEvent, PublishError,
     PublishShutdown, PluginConnect, OtherConnect, UpgradeFails, Subscribe, SendInitial,
     Resync, Forward, NoticeClosed, Leave, Receive, Disconnect, CommandReply,
     ReceiveReply, LoseReply

LEMMA NextEntries ==
    TypeOK /\ SampleIsState /\ SequenceIdentifiesContent /\ [Next]_vars
    => SequenceIdentifiesContent'
<1> SUFFICES ASSUME TypeOK, SampleIsState, SequenceIdentifiesContent, [Next]_vars
             PROVE  SequenceIdentifiesContent'
  OBVIOUS
<1> USE DEF storeVars, channelVars, connVars, pluginVars
<1>0. IsEntry(state, published) /\ state \in State /\ state \in Event /\ Faithful(state, published)
  BY DEF TypeOK, SequenceIdentifiesContent, Event, Faithful
<1>1. ASSUME NEW snapshot \in Snapshot, Apply(snapshot) PROVE SequenceIdentifiesContent'
  <2>1. UNCHANGED <<stopping, channelVars, connVars, pluginVars>>
    BY <1>1 DEF Apply
  <2>2. /\ snapshot.content \in Contents
        /\ published \in Seq(Contents)
        /\ state.sequence = Len(published)
    BY SnapshotStates DEF TypeOK, SequenceIdentifiesContent
  <2>3. CASE /\ state' = ToState(snapshot, state.sequence + 1)
             /\ outbox' = [outbox EXCEPT !["adapter"] = ToState(snapshot, state.sequence + 1)]
             /\ published' = Append(published, snapshot.content)
    <3>1. state'.sequence = Len(published') /\ IsEntry(state', published')
      BY <2>2, <2>3, NewEntry DEF ToState
    <3>2. IsEntry(view', published')
      BY <2>1, <2>2, <2>3, EntryStays DEF TypeOK, SequenceIdentifiesContent
    <3>3. \A s \in Senders : outbox'[s] # NoEvent => IsEntry(outbox'[s], published')
      <4> SUFFICES ASSUME NEW s \in Senders, outbox'[s] # NoEvent
                   PROVE  IsEntry(outbox'[s], published')
        OBVIOUS
      <4>1. CASE s = "adapter"
        BY <2>3, <3>1, <4>1 DEF TypeOK
      <4>2. CASE s # "adapter"
        <5>1. outbox'[s] = outbox[s] /\ outbox[s] \in State
          BY <2>3, <4>2 DEF TypeOK
        <5> QED
          BY <2>2, <2>3, <5>1, EntryStays, TokenAssumption DEF Event, SequenceIdentifiesContent
      <4> QED
        BY <4>1, <4>2
    <3>4. \A reply \in replies' : IsEntry(reply, published')
      BY <2>1, <2>2, <2>3, EntryStays DEF TypeOK, SequenceIdentifiesContent
    <3>5. \A c \in Conns : AllEntries(queue'[c], published') /\ AllEntries(wire'[c], published')
      BY <2>1, <2>2, <2>3, EntriesStay DEF TypeOK, SequenceIdentifiesContent
    <3> QED
      BY <3>1, <3>2, <3>3, <3>4, <3>5 DEF SequenceIdentifiesContent
  <2>4. CASE /\ ~Significant(snapshot)
             /\ state' = ToState(snapshot, state.sequence)
             /\ UNCHANGED <<outbox, published>>
    <3>1. state'.sequence = state.sequence /\ state'.content = snapshot.content
      BY <2>4 DEF ToState
    <3>2. snapshot.content = state.content
      BY <2>4 DEF Significant, IsSignificantChange, SampleIsState
    <3>3. IsEntry(state', published)
      BY <1>0, <3>1, <3>2 DEF IsEntry
    <3> QED
      BY <2>1, <2>2, <2>4, <3>1, <3>3 DEF SequenceIdentifiesContent
  <2> QED
    BY <1>1, <2>3, <2>4 DEF Apply
<1>2. CASE Republish
  <2>1. outbox' = [outbox EXCEPT !["republisher"] = state]
    BY <1>2 DEF Republish
  <2>2. \A s \in Senders : outbox'[s] # NoEvent => IsEntry(outbox'[s], published)
    BY <1>0, <2>1, TwoSenders DEF TypeOK, SequenceIdentifiesContent
  <2> QED
    BY <1>2, <2>2 DEF Republish, SequenceIdentifiesContent
<1>3. ASSUME NEW s \in Senders, SendEvent(s) PROVE SequenceIdentifiesContent'
  <2>1. outbox[s] \in Event /\ Faithful(outbox[s], published)
    BY <1>3 DEF SendEvent, TypeOK, Event, Faithful, SequenceIdentifiesContent
  <2>2. \A c \in Conns : AllEntries(queue'[c], published)
    BY <1>3, <2>1, BroadcastEntries DEF SendEvent
  <2>3. \A k \in Senders : outbox'[k] # NoEvent => IsEntry(outbox'[k], published)
    BY <1>3 DEF SendEvent, TypeOK, SequenceIdentifiesContent
  <2> QED
    BY <1>3, <2>2, <2>3 DEF SendEvent, SequenceIdentifiesContent
<1>4. CASE PublishError
  BY <1>4, BroadcastEntries DEF PublishError, Event, Faithful, SequenceIdentifiesContent
<1>5. CASE PublishShutdown
  BY <1>5, BroadcastEntries DEF PublishShutdown, Event, Faithful, SequenceIdentifiesContent
<1>6. ASSUME NEW c \in Conns, PluginConnect(c) PROVE SequenceIdentifiesContent'
  BY <1>6, NoEntries DEF PluginConnect, SequenceIdentifiesContent
<1>7. ASSUME NEW c \in Conns,
             OtherConnect(c) \/ UpgradeFails(c) \/ Subscribe(c) \/ Leave(c)
      PROVE  SequenceIdentifiesContent'
  BY <1>7 DEF OtherConnect, UpgradeFails, Subscribe, Leave, SequenceIdentifiesContent
<1>8. ASSUME NEW c \in Conns, SendInitial(c) PROVE SequenceIdentifiesContent'
  <2>1. UNCHANGED <<storeVars, stopping, open, pluginVars>>
    BY <1>8 DEF SendInitial
  <2>2. CASE Send(c, state) /\ UNCHANGED channelVars
    BY <1>0, <2>1, <2>2, SendEntries DEF SequenceIdentifiesContent
  <2>3. CASE Unsubscribe(c) /\ wire' = wire
    BY <2>1, <2>3, UnsubscribeEntries DEF SequenceIdentifiesContent
  <2> QED
    BY <1>8, <2>2, <2>3 DEF SendInitial
<1>9. ASSUME NEW c \in Conns, Resync(c) PROVE SequenceIdentifiesContent'
  BY <1>0, <1>9, SendEntries DEF Resync, SequenceIdentifiesContent
<1>10. ASSUME NEW c \in Conns, Forward(c) PROVE SequenceIdentifiesContent'
  <2>1. /\ UNCHANGED <<storeVars, stopping, ws_clients, open, pluginVars>>
        /\ Send(c, Head(queue[c]))
        /\ queue[c] # <<>>
    BY <1>10 DEF Forward
  <2>2. queue[c] \in Seq(Event) /\ AllEntries(queue[c], published)
    BY DEF TypeOK, SequenceIdentifiesContent
  <2>3. \A k \in Conns : AllEntries(wire'[k], published)
    BY <2>1, <2>2, TailEntries, SendEntries
  <2>4. CASE Unsubscribe(c)
    BY <2>1, <2>3, <2>4, UnsubscribeEntries DEF SequenceIdentifiesContent
  <2>5. CASE queue' = [queue EXCEPT ![c] = Tail(queue[c])]
    <3>1. \A k \in Conns : AllEntries(queue'[k], published)
      BY <2>1, <2>2, <2>5, TailEntries DEF TypeOK, SequenceIdentifiesContent
    <3> QED
      BY <2>1, <2>3, <3>1 DEF SequenceIdentifiesContent
  <2> QED
    BY <1>10, <2>4, <2>5 DEF Forward
<1>11. ASSUME NEW c \in Conns, NoticeClosed(c) PROVE SequenceIdentifiesContent'
  BY <1>11, UnsubscribeEntries DEF NoticeClosed, SequenceIdentifiesContent
<1>12. ASSUME NEW c \in Conns, Receive(c) PROVE SequenceIdentifiesContent'
  <2>1. /\ UNCHANGED <<storeVars, stopping, channelVars, phase, ws_clients, open, socket, replies>>
        /\ wire' = [wire EXCEPT ![c] = Tail(wire[c])]
        /\ wire[c] # <<>>
    BY <1>12 DEF Receive
  <2>2. /\ wire[c] \in Seq(Event) /\ AllEntries(wire[c], published)
        /\ AllEntries(Tail(wire[c]), published) /\ Faithful(Head(wire[c]), published)
    BY <2>1, TailEntries DEF TypeOK, SequenceIdentifiesContent
  <2>3. \A k \in Conns : AllEntries(wire'[k], published)
    BY <2>1, <2>2 DEF TypeOK, SequenceIdentifiesContent
  <2>4. IsEntry(view', published)
    BY <1>12, <2>2, ViewEntry DEF Receive, Faithful, SequenceIdentifiesContent
  <2> QED
    BY <2>1, <2>3, <2>4 DEF SequenceIdentifiesContent
<1>13. ASSUME NEW c \in Conns, Disconnect(c) PROVE SequenceIdentifiesContent'
  BY <1>13, NoEntries DEF Disconnect, CloseSocket, TypeOK, SequenceIdentifiesContent
<1>14. CASE CommandReply
  BY <1>0, <1>14 DEF CommandReply, SequenceIdentifiesContent
<1>15. ASSUME NEW reply \in replies, ReceiveReply(reply) PROVE SequenceIdentifiesContent'
  <2>1. IsEntry(view', published)
    BY <1>15, ViewEntry DEF ReceiveReply, SequenceIdentifiesContent
  <2> QED
    BY <1>15, <2>1 DEF ReceiveReply, SequenceIdentifiesContent
<1>16. ASSUME NEW reply \in replies, LoseReply(reply) PROVE SequenceIdentifiesContent'
  BY <1>16 DEF LoseReply, SequenceIdentifiesContent
<1>17. CASE UNCHANGED vars
  BY <1>17 DEF vars, SequenceIdentifiesContent
<1> QED
  BY <1>1, <1>2, <1>3, <1>4, <1>5, <1>6, <1>7, <1>8, <1>9, <1>10, <1>11, <1>12,
     <1>13, <1>14, <1>15, <1>16, <1>17 DEF Next

LEMMA EntriesInvariant == Spec => [](TypeOK /\ SampleIsState /\ SequenceIdentifiesContent)
<1>1. Init => SampleIsState
  BY DEF Init, SampleIsState
<1> QED
  BY <1>1, InitTypes, NextTypes, NextSample, InitEntries, NextEntries, PTL DEF Spec

(* Wherever a state travels, its sequence number names one content: the    *)
(* one that was broadcast under it.                                        *)
THEOREM SequenceSound == Spec => []SequenceIdentifiesContent
  BY EntriesInvariant, PTL

-----------------------------------------------------------------------------
(* A state that is received moves the reader forward in the log, or leaves *)
(* it where it is.                                                         *)
LEMMA ViewObserves ==
    ASSUME TypeOK, SequenceIdentifiesContent, UNCHANGED published,
           NEW candidate \in State, IsEntry(candidate, published), ApplyState(candidate)
    PROVE  [Feed!Publish \/ Feed!Observe]_(Feed!feedVars)
<1>1. CASE view' = view
  BY <1>1 DEF Feed!feedVars
<1>2. CASE view' = candidate /\ candidate.sequence >= view.sequence
  <2>1. candidate.sequence \in view.sequence..Len(published)
    BY <1>2 DEF State, IsEntry, TypeOK
  <2>2. [sequence |-> view.sequence, content |-> view.content].sequence = view.sequence
    OBVIOUS
  <2>3. [sequence |-> candidate.sequence, content |-> candidate.content]
            = Feed!Entry(candidate.sequence)
    BY DEF Feed!Entry, IsEntry
  <2>4. Feed!Observe
    BY <1>2, <2>1, <2>2, <2>3 DEF Feed!Observe
  <2> QED
    BY <2>4
<1> QED
  BY <1>1, <1>2 DEF ApplyState, IsNewerState

LEMMA StreamStepMaps ==
    TypeOK /\ SequenceIdentifiesContent /\ [Next]_vars
    => [Feed!Publish \/ Feed!Observe]_(Feed!feedVars)
<1> SUFFICES ASSUME TypeOK, SequenceIdentifiesContent, [Next]_vars
             PROVE  [Feed!Publish \/ Feed!Observe]_(Feed!feedVars)
  OBVIOUS
<1>1. CASE UNCHANGED <<published, view>>
  BY <1>1 DEF Feed!feedVars
<1>2. ASSUME NEW snapshot \in Snapshot, Apply(snapshot)
      PROVE  [Feed!Publish \/ Feed!Observe]_(Feed!feedVars)
  <2>1. view' = view /\ snapshot.content \in Contents
    BY <1>2, SnapshotStates DEF Apply, pluginVars
  <2>2. CASE published' = Append(published, snapshot.content)
    BY <2>1, <2>2 DEF Feed!Publish
  <2> QED
    BY <1>1, <1>2, <2>1, <2>2 DEF Apply
<1>3. ASSUME NEW c \in Conns, Receive(c)
      PROVE  [Feed!Publish \/ Feed!Observe]_(Feed!feedVars)
  <2>1. UNCHANGED published /\ wire[c] # <<>>
    BY <1>3 DEF Receive, storeVars
  <2>2. Head(wire[c]) \in Event /\ Faithful(Head(wire[c]), published)
    BY <2>1, TailEntries DEF TypeOK, SequenceIdentifiesContent
  <2>3. CASE Head(wire[c]) \notin {ErrorEvent, ShutdownEvent} /\ ApplyState(Head(wire[c]))
    BY <2>1, <2>2, <2>3, ViewObserves DEF Event, Faithful
  <2> QED
    BY <1>1, <1>3, <2>1, <2>3 DEF Receive
<1>4. ASSUME NEW reply \in replies, ReceiveReply(reply)
      PROVE  [Feed!Publish \/ Feed!Observe]_(Feed!feedVars)
  BY <1>4, ViewObserves DEF ReceiveReply, storeVars, TypeOK, SequenceIdentifiesContent
<1> QED
  BY <1>1, <1>2, <1>3, <1>4 DEF Next, vars, storeVars, pluginVars, Republish, SendEvent,
     PublishError, PublishShutdown, PluginConnect, OtherConnect, UpgradeFails, Subscribe,
     SendInitial, Resync, Forward, NoticeClosed, Leave, Disconnect, CommandReply, LoseReply

(* What the plugin shows is a forward reading of the published log, for    *)
(* every order of sends, lags, reconnections and replies.                  *)
THEOREM StreamImplementsFeed == Spec => ImplementsFeed
<1>1. Init => Feed!FeedInit
  BY DEF Init, Feed!FeedInit
<1> QED
  BY <1>1, EntriesInvariant, StreamStepMaps, PTL DEF Spec, ImplementsFeed, Feed!FeedSpec

-----------------------------------------------------------------------------
LEMMA AppendCarries ==
    ASSUME NEW events \in Seq(Event), NEW event \in Event, NEW n,
           Carries(events, n) \/ HasNumber(event, n)
    PROVE  Carries(Append(events, event), n)
<1>1. /\ Len(Append(events, event)) = Len(events) + 1
      /\ Append(events, event)[Len(events) + 1] = event
      /\ \A i \in 1..Len(events) : Append(events, event)[i] = events[i]
  OBVIOUS
<1> QED
  BY <1>1 DEF Carries

LEMMA TailCarries ==
    ASSUME NEW events \in Seq(Event), events # <<>>, NEW n, Carries(events, n)
    PROVE  Carries(Tail(events), n) \/ HasNumber(Head(events), n)
<1>1. PICK i \in 1..Len(events) : HasNumber(events[i], n)
  BY DEF Carries
<1>2. CASE i = 1
  BY <1>1, <1>2
<1>3. CASE i # 1
  <2>1. i - 1 \in 1..Len(Tail(events)) /\ Tail(events)[i - 1] = events[i]
    BY <1>3
  <2> QED
    BY <1>1, <2>1 DEF Carries
<1> QED
  BY <1>2, <1>3

(* Broadcasting keeps what was under way, and marks what it had to drop.   *)
LEMMA BroadcastKeeps ==
    ASSUME TypeOK, NEW event \in Event, Broadcast(event), NEW n,
           NEW c \in Conns, Subscribed(c),
           lagged[c] \/ Carries(queue[c], n) \/ HasNumber(event, n)
    PROVE  lagged'[c] \/ Carries(queue'[c], n)
<1>1. queue[c] \in Seq(Event) /\ Len(queue[c]) \in Nat
  BY DEF TypeOK
<1>2. CASE Len(queue[c]) < Capacity
  <2>1. queue'[c] = Append(queue[c], event) /\ (lagged[c] => lagged'[c])
    BY <1>2 DEF Broadcast
  <2> QED
    BY <1>1, <2>1, AppendCarries
<1>3. CASE ~(Len(queue[c]) < Capacity)
  <2>1. Len(queue[c]) >= Capacity
    BY <1>1, <1>3, BoundAssumption
  <2>2. lagged'[c]
    BY <2>1 DEF Broadcast
  <2> QED
    BY <2>2
<1> QED
  BY <1>2, <1>3

(* Whatever the plugin receives, it ends on the last change or keeps it    *)
(* under way elsewhere: nothing received is ahead of the store.            *)
LEMMA ReceivedCurrent ==
    ASSUME TypeOK, SequenceIdentifiesContent,
           NEW candidate \in State, IsEntry(candidate, published), ApplyState(candidate)
    PROVE  /\ view.sequence = state.sequence => view'.sequence = state.sequence
           /\ candidate.sequence = state.sequence => view'.sequence = state.sequence
<1>1. /\ candidate.sequence \in Nat /\ view.sequence \in Nat /\ state.sequence \in Nat
      /\ candidate.sequence <= state.sequence /\ view.sequence <= state.sequence
  BY DEF TypeOK, State, SequenceIdentifiesContent, IsEntry
<1> QED
  BY <1>1 DEF ApplyState, IsNewerState

LEMMA InitLast == Init => LastChangeShownOrUnderWay
  BY TwoSenders DEF Init, LastChangeShownOrUnderWay

(* The invariant speaks of the plugin's streaming connection only.         *)
LEMMA NextLast ==
    TypeOK /\ SequenceIdentifiesContent /\ LastChangeShownOrUnderWay /\ [Next]_vars
    => LastChangeShownOrUnderWay'
<1> SUFFICES ASSUME TypeOK, SequenceIdentifiesContent, LastChangeShownOrUnderWay, [Next]_vars
             PROVE  LastChangeShownOrUnderWay'
  OBVIOUS
<1> USE DEF storeVars, channelVars, connVars, pluginVars
<1> DEFINE Goal(c) == (c = socket /\ phase[c] = "streaming")
                          => (view.sequence = state.sequence \/ UnderWay(c))
<1>0. /\ outbox["adapter"] # NoEvent => outbox["adapter"].sequence = state.sequence
      /\ \A c \in Conns : Goal(c)
  BY DEF LastChangeShownOrUnderWay
<1>a. ASSUME outbox' = outbox, state' = state, \A c \in Conns : Goal(c)'
      PROVE  LastChangeShownOrUnderWay'
  BY <1>0, <1>a DEF LastChangeShownOrUnderWay
<1>1. ASSUME NEW snapshot \in Snapshot, Apply(snapshot) PROVE LastChangeShownOrUnderWay'
  <2>1. UNCHANGED <<stopping, channelVars, connVars, pluginVars>>
    BY <1>1 DEF Apply
  <2>2. CASE /\ state' = ToState(snapshot, state.sequence + 1)
             /\ outbox' = [outbox EXCEPT !["adapter"] = ToState(snapshot, state.sequence + 1)]
    <3>1. outbox'["adapter"] = state'
      BY <2>2, TwoSenders DEF TypeOK
    <3>2. state' # NoEvent
      <4>1. state' \in Event
        BY <1>1, NextTypes DEF TypeOK, Event, Next
      <4> QED
        BY <4>1, TokenAssumption
    <3> QED
      BY <3>1, <3>2 DEF LastChangeShownOrUnderWay, UnderWay
  <2>3. CASE state' = ToState(snapshot, state.sequence) /\ UNCHANGED <<outbox, published>>
    <3>1. state'.sequence = state.sequence
      BY <2>3 DEF ToState
    <3> QED
      BY <1>0, <2>1, <2>3, <3>1 DEF LastChangeShownOrUnderWay, UnderWay
  <2> QED
    BY <1>1, <2>2, <2>3 DEF Apply
<1>2. CASE Republish
  <2>1. outbox'["adapter"] = outbox["adapter"]
    BY <1>2, TwoSenders DEF Republish, TypeOK
  <2> QED
    BY <1>0, <1>2, <2>1 DEF Republish, LastChangeShownOrUnderWay, UnderWay
<1>3. ASSUME NEW s \in Senders, SendEvent(s) PROVE LastChangeShownOrUnderWay'
  <2>1. /\ outbox[s] \in Event /\ Broadcast(outbox[s])
        /\ UNCHANGED <<state, phase, wire, socket, view>>
    BY <1>3 DEF SendEvent, TypeOK, Event
  <2>2. outbox'["adapter"] # NoEvent => s # "adapter" /\ outbox'["adapter"] = outbox["adapter"]
    BY <1>3, TwoSenders DEF SendEvent, TypeOK
  <2>3. ASSUME NEW c \in Conns, c = socket', phase'[c] = "streaming"
        PROVE  view'.sequence = state'.sequence \/ UnderWay(c)'
    <3>1. Subscribed(c) /\ (view.sequence = state.sequence \/ UnderWay(c))
      BY <1>0, <2>1, <2>3 DEF Subscribed
    <3>2. CASE lagged[c] \/ Carries(queue[c], state.sequence)
      BY <2>1, <3>1, <3>2, BroadcastKeeps DEF UnderWay
    <3>3. CASE s = "adapter"
      <4>1. HasNumber(outbox[s], state.sequence)
        <5>1. outbox[s] \in State
          BY <1>3 DEF SendEvent, TypeOK
        <5> QED
          BY <1>0, <1>3, <3>3, <5>1, TokenAssumption DEF SendEvent, HasNumber
      <4> QED
        BY <2>1, <3>1, <4>1, BroadcastKeeps DEF UnderWay
    <3>4. CASE s # "adapter" /\ outbox["adapter"] # NoEvent
      BY <1>3, <3>4, TwoSenders DEF SendEvent, TypeOK, UnderWay
    <3> QED
      BY <1>3, <2>1, <3>1, <3>2, <3>3, <3>4 DEF UnderWay
  <2> QED
    BY <1>0, <2>1, <2>2, <2>3 DEF LastChangeShownOrUnderWay
<1>4. ASSUME NEW event \in Event, Broadcast(event), UNCHANGED <<storeVars, connVars, pluginVars>>
      PROVE  LastChangeShownOrUnderWay'
  <2>1. ASSUME NEW c \in Conns PROVE Goal(c)'
    BY <1>0, <1>4, BroadcastKeeps DEF Subscribed, UnderWay
  <2> QED
    BY <1>a, <1>4, <2>1
<1>5. CASE PublishError \/ PublishShutdown
  BY <1>4, <1>5 DEF PublishError, PublishShutdown, Event
<1>6. ASSUME NEW c \in Conns, PluginConnect(c) PROVE LastChangeShownOrUnderWay'
  <2>1. socket' = c /\ phase'[c] = "upgrading" /\ UNCHANGED <<state, outbox>>
    BY <1>6 DEF PluginConnect, SetPhase, TypeOK
  <2> QED
    BY <1>a, <2>1
<1>7. ASSUME NEW c \in Conns, OtherConnect(c) \/ UpgradeFails(c) \/ Subscribe(c) \/ Leave(c)
      PROVE  LastChangeShownOrUnderWay'
  <2>1. /\ UNCHANGED <<state, outbox, queue, lagged, wire, socket, view>>
        /\ \A k \in Conns : phase'[k] = "streaming" => phase[k] = "streaming"
    BY <1>7 DEF OtherConnect, UpgradeFails, Subscribe, Leave, SetPhase, TypeOK
  <2>2. ASSUME NEW k \in Conns PROVE Goal(k)'
    BY <1>0, <2>1 DEF UnderWay
  <2> QED
    BY <1>a, <2>1, <2>2
<1>8. ASSUME NEW c \in Conns, NEW event \in Event, Send(c, event),
             HasNumber(event, state.sequence) \/ phase[c] = "streaming",
             phase[c] = "streaming" /\ ~HasNumber(event, state.sequence) =>
                 Goal(c)',
             UNCHANGED <<state, outbox, socket, view>>,
             \A k \in Conns \ {c} : queue'[k] = queue[k] /\ lagged'[k] = lagged[k] /\ phase'[k] = phase[k]
      PROVE  LastChangeShownOrUnderWay'
  <2>1. ASSUME NEW k \in Conns, k # c PROVE Goal(k)'
    <3>1. wire'[k] = wire[k]
      BY <1>8, <2>1 DEF Send, TypeOK
    <3> QED
      BY <1>0, <1>8, <2>1, <3>1 DEF UnderWay
  <2>2. Goal(c)'
    <3>1. CASE HasNumber(event, state.sequence)
      <4>1. wire'[c] = Append(wire[c], event) /\ wire[c] \in Seq(Event)
        BY <1>8 DEF Send, TypeOK
      <4>2. Carries(wire'[c], state'.sequence)
        BY <1>8, <3>1, <4>1, AppendCarries
      <4> QED
        BY <4>2 DEF UnderWay
    <3> QED
      BY <1>8, <3>1
  <2> QED
    BY <1>a, <1>8, <2>1, <2>2
<1>9. HasNumber(state, state.sequence) /\ state \in Event
  BY TokenAssumption DEF HasNumber, TypeOK, Event
<1>10. ASSUME NEW c \in Conns, SendInitial(c) PROVE LastChangeShownOrUnderWay'
  <2>1. UNCHANGED <<storeVars, stopping, open, pluginVars>>
    BY <1>10 DEF SendInitial
  <2>2. CASE Send(c, state) /\ SetPhase(c, "streaming") /\ UNCHANGED channelVars
    BY <1>8, <1>9, <2>1, <2>2 DEF SetPhase, TypeOK
  <2>3. CASE SetPhase(c, "closed") /\ Unsubscribe(c) /\ wire' = wire
    <3>1. ASSUME NEW k \in Conns PROVE Goal(k)'
      <4>1. CASE k = c
        BY <2>3, <4>1 DEF SetPhase, TypeOK
      <4>2. CASE k # c
        BY <1>0, <2>1, <2>3, <4>2 DEF SetPhase, Unsubscribe, TypeOK, UnderWay
      <4> QED
        BY <4>1, <4>2
    <3> QED
      BY <1>a, <2>1, <3>1
  <2> QED
    BY <1>10, <2>2, <2>3 DEF SendInitial
<1>11. ASSUME NEW c \in Conns, Resync(c) PROVE LastChangeShownOrUnderWay'
  BY <1>8, <1>9, <1>11 DEF Resync, TypeOK
<1>12. ASSUME NEW c \in Conns, Forward(c) PROVE LastChangeShownOrUnderWay'
  <2>1. /\ UNCHANGED <<storeVars, stopping, ws_clients, open, pluginVars>>
        /\ Send(c, Head(queue[c]))
        /\ queue[c] # <<>> /\ phase[c] = "streaming" /\ ~lagged[c]
        /\ queue[c] \in Seq(Event) /\ Head(queue[c]) \in Event
    BY <1>12 DEF Forward, TypeOK
  <2>2. CASE SetPhase(c, "leaving") /\ Unsubscribe(c)
    BY <1>8, <2>1, <2>2 DEF SetPhase, Unsubscribe, TypeOK
  <2>3. CASE queue' = [queue EXCEPT ![c] = Tail(queue[c])] /\ UNCHANGED <<lagged, phase>>
    <3>1. ASSUME ~HasNumber(Head(queue[c]), state.sequence) PROVE Goal(c)'
      <4>1. Carries(queue[c], state.sequence) => Carries(queue'[c], state.sequence)
        BY <2>1, <2>3, <3>1, TailCarries DEF TypeOK
      <4>2. Carries(wire[c], state.sequence) => Carries(wire'[c], state.sequence)
        BY <2>1, AppendCarries DEF Send, TypeOK
      <4> QED
        BY <1>0, <2>1, <2>3, <4>1, <4>2 DEF UnderWay
    <3> QED
      BY <1>8, <2>1, <2>3, <3>1 DEF TypeOK
  <2> QED
    BY <1>12, <2>2, <2>3 DEF Forward
<1>13. ASSUME NEW c \in Conns, NoticeClosed(c) PROVE LastChangeShownOrUnderWay'
  <2>1. ASSUME NEW k \in Conns PROVE Goal(k)'
    BY <1>0, <1>13 DEF NoticeClosed, SetPhase, Unsubscribe, TypeOK, UnderWay
  <2> QED
    BY <1>a, <1>13, <2>1 DEF NoticeClosed
<1>14. ASSUME NEW c \in Conns, Receive(c) PROVE LastChangeShownOrUnderWay'
  <2>1. /\ UNCHANGED <<storeVars, stopping, channelVars, phase, ws_clients, open, socket, replies>>
        /\ wire' = [wire EXCEPT ![c] = Tail(wire[c])]
        /\ wire[c] # <<>> /\ wire[c] \in Seq(Event)
    BY <1>14 DEF Receive, TypeOK
  <2>2. Head(wire[c]) \in Event /\ Faithful(Head(wire[c]), published)
    BY <2>1, TailEntries DEF SequenceIdentifiesContent
  <2>3. ASSUME NEW k \in Conns, k # c, k = socket PROVE Goal(k)'
    <3>1. view' = view /\ wire'[k] = wire[k]
      BY <1>14, <2>1, <2>3 DEF Receive, TypeOK
    <3> QED
      BY <1>0, <2>1, <3>1 DEF UnderWay
  <2>4. ASSUME c = socket PROVE Goal(c)'
    <3>1. wire'[c] = Tail(wire[c])
      BY <2>1 DEF TypeOK
    <3>2. CASE Head(wire[c]) \notin {ErrorEvent, ShutdownEvent}
      <4>1. /\ ApplyState(Head(wire[c]))
            /\ Head(wire[c]) \in State /\ IsEntry(Head(wire[c]), published)
        BY <1>14, <2>2, <2>4, <3>2 DEF Receive, Event, Faithful
      <4> QED
        BY <1>0, <2>1, <3>1, <4>1, ReceivedCurrent, TailCarries DEF UnderWay, HasNumber
    <3>3. CASE Head(wire[c]) \in {ErrorEvent, ShutdownEvent}
      <4>1. view' = view
        BY <1>14, <3>3 DEF Receive
      <4> QED
        BY <1>0, <2>1, <3>1, <3>3, <4>1, TailCarries DEF UnderWay, HasNumber
    <3> QED
      BY <3>2, <3>3
  <2> QED
    BY <1>a, <2>1, <2>3, <2>4
<1>15. ASSUME NEW c \in Conns, Disconnect(c) PROVE LastChangeShownOrUnderWay'
  <2>1. ASSUME NEW k \in Conns PROVE Goal(k)'
    BY <1>0, <1>15, TokenAssumption DEF Disconnect, CloseSocket, TypeOK, UnderWay
  <2> QED
    BY <1>a, <1>15, <2>1 DEF Disconnect
<1>16. ASSUME UNCHANGED <<storeVars, channelVars, phase, wire, socket, view>>
       PROVE  LastChangeShownOrUnderWay'
  <2>1. ASSUME NEW k \in Conns PROVE Goal(k)'
    BY <1>0, <1>16 DEF UnderWay
  <2> QED
    BY <1>a, <1>16, <2>1
<1>17. CASE CommandReply \/ (\E reply \in replies : LoseReply(reply)) \/ UNCHANGED vars
  BY <1>16, <1>17 DEF CommandReply, LoseReply, vars
<1>18. ASSUME NEW reply \in replies, ReceiveReply(reply) PROVE LastChangeShownOrUnderWay'
  <2>1. reply \in State /\ IsEntry(reply, published) /\ ApplyState(reply)
        /\ UNCHANGED <<storeVars, channelVars, phase, wire, socket>>
    BY <1>18 DEF ReceiveReply, TypeOK, SequenceIdentifiesContent
  <2>2. view.sequence = state.sequence => view'.sequence = state.sequence
    BY <2>1, ReceivedCurrent
  <2>3. ASSUME NEW k \in Conns PROVE Goal(k)'
    BY <1>0, <2>1, <2>2 DEF UnderWay
  <2> QED
    BY <1>a, <2>1, <2>3
<1> QED
  BY <1>1, <1>2, <1>3, <1>5, <1>6, <1>7, <1>10, <1>11, <1>12, <1>13, <1>14, <1>15,
     <1>17, <1>18 DEF Next

(* The last change is never lost on the way: until the plugin shows it, an *)
(* event carries it or its connection knows that it has fallen behind.     *)
THEOREM LastChangeReaches == Spec => []LastChangeShownOrUnderWay
  BY EntriesInvariant, InitLast, NextLast, PTL DEF Spec

(* Once everything on its way to the streaming plugin has been received,   *)
(* the key shows the store's last change.                                  *)
THEOREM NothingLost == Spec => []NoLostUpdate
<1>1. LastChangeShownOrUnderWay => NoLostUpdate
  BY DEF LastChangeShownOrUnderWay, NoLostUpdate, UnderWay, Carries
<1> QED
  BY <1>1, LastChangeReaches, PTL

-----------------------------------------------------------------------------
LEMMA ServingFinite == IsFiniteSet(Serving)
  BY ConnsAssumption, FS_Subset DEF Serving

LEMMA InitCounted == Init => ClientsCounted
<1> SUFFICES ASSUME Init PROVE ClientsCounted
  OBVIOUS
<1>1. Serving = {} /\ ws_clients = 0
  BY DEF Init, Serving
<1> QED
  BY <1>1, FS_EmptySet DEF ClientsCounted

(* A task that starts is counted once, a task that ends is uncounted once. *)
LEMMA NextCounted == TypeOK /\ ClientsCounted /\ [Next]_vars => ClientsCounted'
<1> SUFFICES ASSUME TypeOK, ClientsCounted, [Next]_vars PROVE ClientsCounted'
  OBVIOUS
<1> USE DEF storeVars, channelVars, connVars, pluginVars
<1>1. CASE ws_clients' = ws_clients /\ Serving' = Serving
  BY <1>1 DEF ClientsCounted
<1>2. ASSUME NEW c \in Conns, Subscribe(c) PROVE ClientsCounted'
  <2>1. Serving' = Serving \union {c} /\ c \notin Serving /\ ws_clients' = ws_clients + 1
    BY <1>2 DEF Subscribe, SetPhase, Serving, TypeOK
  <2>2. Cardinality(Serving \union {c}) = Cardinality(Serving) + 1
    BY <2>1, ServingFinite, FS_AddElement
  <2> QED
    BY <2>1, <2>2 DEF ClientsCounted
<1>3. ASSUME NEW c \in Conns, c \in Serving, SetPhase(c, "closed"), ws_clients' = ws_clients - 1
      PROVE  ClientsCounted'
  <2>1. Serving' = Serving \ {c}
    BY <1>3 DEF SetPhase, Serving, TypeOK
  <2>2. Cardinality(Serving \ {c}) = Cardinality(Serving) - 1
    BY <1>3, ServingFinite, FS_RemoveElement
  <2> QED
    BY <1>3, <2>1, <2>2 DEF ClientsCounted
<1>4. ASSUME NEW c \in Conns, SendInitial(c) PROVE ClientsCounted'
  <2>1. phase[c] = "subscribed" /\ c \in Serving
    BY <1>4 DEF SendInitial, Serving
  <2>2. CASE SetPhase(c, "streaming") /\ UNCHANGED ws_clients
    BY <1>1, <2>1, <2>2 DEF SetPhase, Serving, TypeOK
  <2>3. CASE SetPhase(c, "closed") /\ ws_clients' = ws_clients - 1
    BY <1>3, <2>1, <2>3
  <2> QED
    BY <1>4, <2>2, <2>3 DEF SendInitial
<1>5. ASSUME NEW c \in Conns, Leave(c) PROVE ClientsCounted'
  BY <1>3, <1>5 DEF Leave, Serving
<1>6. ASSUME NEW c \in Conns, PluginConnect(c) \/ OtherConnect(c) \/ UpgradeFails(c)
      PROVE  ClientsCounted'
  BY <1>1, <1>6 DEF PluginConnect, OtherConnect, UpgradeFails, SetPhase, Serving, TypeOK
<1>7. ASSUME NEW c \in Conns, Forward(c) \/ NoticeClosed(c) PROVE ClientsCounted'
  BY <1>1, <1>7 DEF Forward, NoticeClosed, SetPhase, Serving, TypeOK
<1>8. CASE UNCHANGED <<phase, ws_clients>>
  BY <1>1, <1>8 DEF Serving
<1> QED
  BY <1>2, <1>4, <1>5, <1>6, <1>7, <1>8 DEF Next, vars, Apply, Republish, SendEvent,
     PublishError, PublishShutdown, Resync, Receive, Disconnect, CommandReply,
     ReceiveReply, LoseReply

(* ws_clients is exactly the number of running serve tasks; in particular  *)
(* its decrements never take it below zero.                                *)
THEOREM ClientCountExact == Spec => []ClientsCounted
  BY TypeCorrect, InitCounted, NextCounted, PTL DEF Spec
=============================================================================
