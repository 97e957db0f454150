--------------------------- MODULE MediaWorkerProofs ---------------------------
(***************************************************************************)
(* Safety of the Windows adapter, for any tracks, commands, declarations   *)
(* and number of callers.                                                  *)
(***************************************************************************)
EXTENDS MediaWorker, TLAPS

(* What reaches the channel is a message, and what is left of it too.      *)
Messages == Requests \union {"refresh", "shutdown"}

LEMMA TailOfMessages ==
    ASSUME NEW q \in Seq(Messages), q # <<>>
    PROVE  Tail(q) \in Seq(Messages) /\ Head(q) \in Messages
OBVIOUS

LEMMA AppendOfMessage ==
    ASSUME NEW q \in Seq(Messages), NEW m \in Messages
    PROVE  Append(q, m) \in Seq(Messages)
OBVIOUS

LEMMA AnswerTyped ==
    ASSUME TypeOK, NEW r \in Requests, NEW outcome \in {"ok", "no"}, Answer(r, outcome)
    PROVE  phase' \in [Requests -> {"free", "sent", "ok", "no", "refused", "done"}]
BY DEF Answer, TypeOK

LEMMA DefaultTyped ==
    Default \in States /\ [track |-> NoTrack, artwork |-> NoArt] \in Caches
BY DEF Default, States, Caches

LEMMA TypeStep == TypeOK /\ [Next]_vars => TypeOK'
<1> SUFFICES ASSUME TypeOK, [Next]_vars PROVE TypeOK'
  OBVIOUS
<1> USE TicksAssumption DEF TypeOK, Goto, player, worker, requests
<1>0. inbox \in Seq(Messages) /\ <<>> \in Seq(Messages)
  BY DEF Messages
<1>1. CASE UNCHANGED vars
  BY <1>1 DEF vars
<1>2. CASE PlayerStarts \/ TrackChanges
  BY <1>2 DEF PlayerStarts, TrackChanges
<1>3. CASE AcquireSucceeds \/ AcquireFails
  BY <1>3, DefaultTyped DEF AcquireSucceeds, AcquireFails
<1>4. CASE Retry
  <2>1. CASE inbox = <<>>
    BY <1>4, <2>1 DEF Retry
  <2>2. CASE inbox # <<>> /\ Head(inbox) = "shutdown"
    BY <1>0, <1>4, <2>2 DEF Retry, StopThread, Messages
  <2>3. CASE inbox # <<>> /\ Head(inbox) # "shutdown"
    <3>1. Tail(inbox) \in Seq(Messages) /\ Head(inbox) \in Messages
      BY <1>0, <2>3, TailOfMessages
    <3>2. phase' \in [Requests -> {"free", "sent", "ok", "no", "refused", "done"}]
      BY <1>4, <2>3, <3>1, AnswerTyped DEF Retry, Messages
    <3> QED
      BY <1>4, <2>3, <3>1, <3>2 DEF Retry, Messages
  <2> QED
    BY <2>1, <2>2, <2>3
<1>5. CASE PublishNone
  <2>1. misses' \in 0..RefreshTicks - 1
    BY <1>5 DEF PublishNone
  <2>2. artwork_cache' \in Caches /\ last_source' \in BOOLEAN /\ store' \in States
    BY <1>5, DefaultTyped DEF PublishNone, ForgetSource
  <2> QED
    BY <1>5, <2>1, <2>2 DEF PublishNone
<1>6. ASSUME NEW obtained \in BOOLEAN, PublishNoneAndRefresh(obtained) PROVE TypeOK'
  <2>1. misses' \in 0..RefreshTicks - 1
    BY <1>6 DEF PublishNoneAndRefresh
  <2>2. artwork_cache' \in Caches /\ last_source' \in BOOLEAN /\ store' \in States
    BY <1>6, DefaultTyped DEF PublishNoneAndRefresh, ForgetSource
  <2>3. fresh' \in BOOLEAN
    BY <1>6 DEF PublishNoneAndRefresh
  <2> QED
    BY <1>6, <2>1, <2>2, <2>3 DEF PublishNoneAndRefresh
<1>7. CASE ReadProperties \/ ReadFails
  <2>1. misses' \in 0..RefreshTicks - 1
    BY <1>7 DEF ReadProperties, ReadFails
  <2> QED
    BY <1>7, <2>1, DefaultTyped DEF ReadProperties, ReadFails, SessionSelected
<1>8. ASSUME NEW t \in Tracks \union {NoTrack}, NEW art \in Tracks \union {NoArt},
             PublishSession(t, art)
      PROVE  store' \in States
  <2>1. PICK declared \in Declarations, volume \in SUBSET {Volume} :
           store' = [available |-> TRUE, track |-> t, artwork |-> art,
                     caps |-> EffectiveCapabilities(declared, volume)]
    BY <1>8 DEF PublishSession
  <2>2. EffectiveCapabilities(declared, volume) \subseteq Commands
    BY CommandAssumption DEF EffectiveCapabilities, Commands
  <2> QED
    BY <2>1, <2>2 DEF States
<1>9. CASE FinishReadUntitled
  BY <1>8, <1>9 DEF FinishReadUntitled
<1>10. CASE FinishRead
  <2>1. PICK art \in {NoArt, ThumbnailOf(track), artwork_cache.artwork} :
           /\ PublishSession(read, art)
           /\ artwork_cache' \in {artwork_cache, [track |-> read, artwork |-> art],
                                  [track |-> NoTrack, artwork |-> NoArt]}
    BY <1>10 DEF FinishRead
  <2>2. art \in Tracks \union {NoArt}
    BY <2>1, TrackAssumption DEF Caches, ThumbnailOf
  <2>3. store' \in States
    BY <1>8, <2>1, <2>2
  <2>4. artwork_cache' \in Caches
    BY <2>1, <2>2 DEF Caches
  <2> QED
    BY <1>10, <2>3, <2>4 DEF FinishRead
<1>11. CASE PollTick \/ TakeRefresh
  BY <1>0, <1>11, TailOfMessages DEF PollTick, TakeRefresh, Messages
<1>12. CASE TakeShutdown
  BY <1>0, <1>12 DEF TakeShutdown, StopThread, Messages
<1>13. ASSUME NEW r \in Requests, Execute(r) PROVE TypeOK'
  <2>1. Tail(inbox) \in Seq(Messages)
    BY <1>0, <1>13, TailOfMessages DEF Execute
  <2>2. phase' \in [Requests -> {"free", "sent", "ok", "no", "refused", "done"}]
    BY <1>13, AnswerTyped DEF Execute
  <2>3. succeeded' \subseteq LearnedCommands /\ failed' \subseteq LearnedCommands
    BY <1>13 DEF Execute, Commands
  <2>4. performed' \in [Requests -> Nat]
    BY <1>13 DEF Execute
  <2> QED
    BY <1>13, <2>1, <2>2, <2>3, <2>4, Zenon DEF Execute, Messages
<1>14. ASSUME NEW r \in Requests, Post(r) \/ TimeOut(r) \/ CallReturns(r) \/ Reuse(r) PROVE TypeOK'
  <2>1. Append(inbox, r) \in Seq(Messages) /\ Append(inbox, "refresh") \in Seq(Messages)
    BY <1>0, AppendOfMessage DEF Messages
  <2>2. store.caps \subseteq Commands
    BY DEF States
  <2>3. performed' \in [Requests -> Nat]
    BY <1>14 DEF Post, TimeOut, CallReturns, Reuse
  <2>4. phase' \in [Requests -> {"free", "sent", "ok", "no", "refused", "done"}]
    BY <1>14 DEF Post, TimeOut, CallReturns, Reuse
  <2> QED
    BY <1>14, <2>1, <2>2, <2>3, <2>4 DEF Post, TimeOut, CallReturns, Reuse, Messages
<1>15. CASE Shutdown
  BY <1>0, <1>15, AppendOfMessage DEF Shutdown, Messages
<1> QED
  BY <1>1, <1>2, <1>3, <1>4, <1>5, <1>6, <1>7, <1>9, <1>10, <1>11, <1>12, <1>13, <1>14, <1>15
     DEF Next

(* The fields of the worker keep their types; the count of misses stays    *)
(* below the number that triggers a new manager.                           *)
THEOREM TypeCorrect == Spec => []TypeOK
<1>1. Init => TypeOK
  <2> SUFFICES ASSUME Init PROVE TypeOK
    OBVIOUS
  <2>1. misses \in 0..RefreshTicks - 1
    BY TicksAssumption DEF Init
  <2>2. inbox \in Seq(Requests \union {"refresh", "shutdown"})
    BY DEF Init
  <2> QED
    BY <2>1, <2>2, DefaultTyped DEF Init, TypeOK, Commands
<1> QED
  BY <1>1, TypeStep, PTL DEF Spec

-----------------------------------------------------------------------------
LEMMA DeclinedStep == TypeOK /\ DeclinedNotOffered /\ [Next]_vars => DeclinedNotOffered'
<1> SUFFICES ASSUME TypeOK, DeclinedNotOffered, [Next]_vars PROVE DeclinedNotOffered'
  OBVIOUS
<1> USE DEF DeclinedNotOffered, Goto, player, worker, requests
<1>1. CASE UNCHANGED vars \/ PlayerStarts \/ TrackChanges \/ Shutdown
  BY <1>1 DEF vars, PlayerStarts, TrackChanges, Shutdown
<1>2. CASE AcquireSucceeds \/ AcquireFails \/ ReadProperties
  BY <1>2 DEF AcquireSucceeds, AcquireFails, ReadProperties
<1>3. CASE Retry
  BY <1>3 DEF Retry, StopThread
<1>4. CASE PublishNone \/ ReadFails
  BY <1>4 DEF PublishNone, ReadFails, Default
<1>5. ASSUME NEW obtained \in BOOLEAN, PublishNoneAndRefresh(obtained)
      PROVE DeclinedNotOffered'
  BY <1>5 DEF PublishNoneAndRefresh, Default
<1>6. CASE FinishReadUntitled \/ FinishRead
  <2>1. PICK declared \in Declarations, volume \in SUBSET {Volume} :
           store'.caps = EffectiveCapabilities(declared, volume)
    BY <1>6 DEF FinishReadUntitled, FinishRead, PublishSession
  <2>2. volume \cap failed = {}
    BY CommandAssumption DEF TypeOK
  <2> QED
    BY <1>6, <2>1, <2>2 DEF FinishReadUntitled, FinishRead, EffectiveCapabilities
<1>7. CASE PollTick \/ TakeRefresh \/ TakeShutdown
  BY <1>7 DEF PollTick, TakeRefresh, TakeShutdown, StopThread
<1>8. ASSUME NEW r \in Requests, Execute(r) PROVE DeclinedNotOffered'
  BY <1>8 DEF Execute
<1>9. ASSUME NEW r \in Requests, Post(r) \/ TimeOut(r) \/ CallReturns(r) \/ Reuse(r)
      PROVE DeclinedNotOffered'
  BY <1>9 DEF Post, TimeOut, CallReturns, Reuse
<1> QED
  BY <1>1, <1>2, <1>3, <1>4, <1>5, <1>6, <1>7, <1>8, <1>9 DEF Next

(* Whatever the session declares and whatever worked before, the thread    *)
(* never rests on capabilities that offer a command the player declined.   *)
THEOREM LessonKept == Spec => []DeclinedNotOffered
<1>1. Init => DeclinedNotOffered
  BY DEF Init, DeclinedNotOffered
<1> QED
  BY <1>1, DeclinedStep, TypeCorrect, PTL DEF Spec

-----------------------------------------------------------------------------
(* A request is in the channel at most once, and while it is, it has not   *)
(* been carried out; its caller waits or has given up.  A slot that is     *)
(* free has left no trace.                                                 *)
Holds(queue, m) == \E i \in 1..Len(queue) : queue[i] = m

OnceEach(queue) ==
    \A i, j \in 1..Len(queue) : queue[i] \in Requests /\ queue[i] = queue[j] => i = j

PostedOnce ==
    /\ OnceEach(inbox)
    /\ \A r \in Requests :
          /\ Holds(inbox, r) => performed[r] = 0 /\ phase[r] \in {"sent", "refused"}
          /\ phase[r] = "free" => performed[r] = 0

LEMMA TailHolds ==
    ASSUME NEW queue \in Seq(Messages), queue # <<>>, OnceEach(queue)
    PROVE  /\ OnceEach(Tail(queue))
           /\ Holds(queue, Head(queue))
           /\ \A r \in Requests : Holds(Tail(queue), r) => Holds(queue, r) /\ r # Head(queue)
<1>1. /\ Len(queue) \in Nat \ {0} /\ Len(Tail(queue)) = Len(queue) - 1
      /\ Head(queue) = queue[1]
      /\ \A i \in 1..Len(Tail(queue)) : Tail(queue)[i] = queue[i + 1]
  OBVIOUS
<1> QED
  BY <1>1 DEF OnceEach, Holds

LEMMA AppendHolds ==
    ASSUME NEW queue \in Seq(Messages), OnceEach(queue),
           NEW m \in Messages, m \in Requests => ~Holds(queue, m)
    PROVE  /\ OnceEach(Append(queue, m))
           /\ \A r \in Requests : Holds(Append(queue, m), r) => Holds(queue, r) \/ r = m
<1>1. /\ Len(queue) \in Nat /\ Len(Append(queue, m)) = Len(queue) + 1
      /\ Append(queue, m)[Len(queue) + 1] = m
      /\ \A i \in 1..Len(queue) : Append(queue, m)[i] = queue[i]
  OBVIOUS
<1> QED
  BY <1>1 DEF OnceEach, Holds

LEMMA EmptyHolds == OnceEach(<<>>) /\ \A r \in Requests : ~Holds(<<>>, r)
BY DEF OnceEach, Holds

LEMMA PostedStep == TypeOK /\ PostedOnce /\ [Next]_vars => PostedOnce'
<1> SUFFICES ASSUME TypeOK, PostedOnce, [Next]_vars PROVE PostedOnce'
  OBVIOUS
<1> USE DEF PostedOnce, player, worker, requests
<1>0. inbox \in Seq(Messages)
  BY DEF TypeOK, Messages
<1>1. CASE UNCHANGED <<inbox, phase, performed>>
  BY <1>1 DEF OnceEach, Holds
<1>2. ASSUME NEW obtained \in BOOLEAN,
             \/ UNCHANGED vars \/ PlayerStarts \/ TrackChanges \/ AcquireSucceeds \/ AcquireFails
             \/ PublishNone \/ PublishNoneAndRefresh(obtained)
             \/ ReadProperties \/ ReadFails \/ FinishReadUntitled \/ FinishRead \/ PollTick
      PROVE PostedOnce'
  BY <1>1, <1>2 DEF vars, PlayerStarts, TrackChanges, AcquireSucceeds, AcquireFails, PublishNone,
     PublishNoneAndRefresh, ReadProperties, ReadFails, FinishReadUntitled, FinishRead, PollTick
<1>3. ASSUME StopThread, UNCHANGED performed PROVE PostedOnce'
  BY <1>3, EmptyHolds DEF StopThread
<1>4. ASSUME inbox # <<>>, inbox' = Tail(inbox),
             \A r \in Requests :
                \/ phase'[r] = phase[r] /\ performed'[r] = performed[r]
                \/ r = Head(inbox) /\ phase'[r] # "free"
      PROVE PostedOnce'
  BY <1>0, <1>4, TailHolds
<1>5. CASE Retry
  <2>1. CASE inbox = <<>>
    BY <1>1, <1>5, <2>1 DEF Retry
  <2>2. CASE inbox # <<>> /\ Head(inbox) # "shutdown"
    <3>1. Head(inbox) \in Requests => phase[Head(inbox)] # "free"
      BY <1>0, <2>2, TailHolds
    <3> QED
      BY <1>4, <1>5, <2>2, <3>1 DEF Retry, Answer, TypeOK
  <2> QED
    BY <1>3, <1>5, <2>1, <2>2 DEF Retry
<1>6. CASE TakeRefresh \/ TakeShutdown
  BY <1>3, <1>4, <1>6 DEF TakeRefresh, TakeShutdown
<1>7. ASSUME NEW r \in Requests, Execute(r) PROVE PostedOnce'
  <2>1. phase[r] # "free"
    BY <1>0, <1>7, TailHolds DEF Execute
  <2> QED
    BY <1>4, <1>7, <2>1 DEF Execute, Answer, TypeOK
<1>8. ASSUME NEW r \in Requests, Post(r) PROVE PostedOnce'
  <2>1. ~Holds(inbox, r) /\ r \in Messages
    BY <1>8 DEF Post, Messages
  <2>2. /\ OnceEach(inbox')
        /\ \A q \in Requests : Holds(inbox', q) => Holds(inbox, q) \/ q = r
    BY <1>0, <1>8, <2>1, AppendHolds DEF Post
  <2>3. performed[r] = 0 /\ phase'[r] = "sent"
    BY <1>8 DEF Post, TypeOK
  <2> QED
    BY <1>8, <2>2, <2>3 DEF Post, TypeOK
<1>9. ASSUME NEW r \in Requests, TimeOut(r) PROVE PostedOnce'
  BY <1>9 DEF TimeOut, TypeOK, OnceEach, Holds
<1>10. ASSUME NEW r \in Requests, Reuse(r) PROVE PostedOnce'
  BY <1>10 DEF Reuse, TypeOK, OnceEach, Holds
<1>11. ASSUME NEW m \in Messages \ Requests, inbox' = Append(inbox, m), performed' = performed,
              \A r \in Requests :
                 phase'[r] = phase[r] \/ (~Holds(inbox, r) /\ phase'[r] # "free")
       PROVE PostedOnce'
  BY <1>0, <1>11, AppendHolds
<1>12. CASE Shutdown
  BY <1>11, <1>12, RequestAssumption DEF Shutdown, Messages
<1>13. ASSUME NEW r \in Requests, CallReturns(r) PROVE PostedOnce'
  <2>1. \A q \in Requests :
           phase'[q] = phase[q] \/ (~Holds(inbox, q) /\ phase'[q] # "free")
    BY <1>13 DEF CallReturns, TypeOK
  <2>2. CASE pc = "stopped"
    BY <1>13, <2>1, <2>2 DEF CallReturns, OnceEach, Holds
  <2>3. CASE pc # "stopped"
    BY <1>11, <1>13, <2>1, <2>3, RequestAssumption DEF CallReturns, Messages
  <2> QED
    BY <2>2, <2>3
<1> QED
  BY <1>2, <1>5, <1>6, <1>7, <1>8, <1>9, <1>10, <1>12, <1>13 DEF Next

LEMMA PostedInvariant == Spec => []PostedOnce
<1>1. Init => PostedOnce
  BY EmptyHolds DEF Init, PostedOnce
<1> QED
  BY <1>1, PostedStep, TypeCorrect, PTL DEF Spec

-----------------------------------------------------------------------------
LEMMA DoneStep == TypeOK /\ PostedOnce /\ DoneWasPerformed /\ [Next]_vars => DoneWasPerformed'
<1> SUFFICES ASSUME TypeOK, PostedOnce, DoneWasPerformed, [Next]_vars PROVE DoneWasPerformed'
  OBVIOUS
<1>0. inbox \in Seq(Messages)
  BY DEF TypeOK, Messages
<1> USE DEF DoneWasPerformed, TypeOK, player, worker, requests
<1>1. CASE UNCHANGED vars \/ PlayerStarts \/ TrackChanges \/ Shutdown
  BY <1>1 DEF vars, PlayerStarts, TrackChanges, Shutdown
<1>2. CASE AcquireSucceeds \/ AcquireFails \/ ReadProperties
  BY <1>2 DEF AcquireSucceeds, AcquireFails, ReadProperties
<1>3. CASE Retry
  <2>1. \A r \in Requests : phase'[r] \in {"ok", "done"} => phase[r] \in {"ok", "done"}
    BY <1>3 DEF Retry, StopThread, Answer
  <2> QED
    BY <1>3, <2>1 DEF Retry
<1>4. CASE PublishNone \/ ReadFails \/ FinishReadUntitled \/ FinishRead
  BY <1>4 DEF PublishNone, ReadFails, FinishReadUntitled, FinishRead
<1>5. ASSUME NEW obtained \in BOOLEAN, PublishNoneAndRefresh(obtained)
      PROVE DoneWasPerformed'
  BY <1>5 DEF PublishNoneAndRefresh
<1>6. CASE PollTick \/ TakeRefresh
  BY <1>6 DEF PollTick, TakeRefresh
<1>7. CASE TakeShutdown
  BY <1>7 DEF TakeShutdown, StopThread
<1>8. ASSUME NEW r \in Requests, Execute(r) PROVE DoneWasPerformed'
  <2>0. performed[r] = 0
    BY <1>8, <1>0, TailHolds DEF Execute, PostedOnce
  <2>1. CASE Answer(r, "ok") /\ performed' = [performed EXCEPT ![r] = @ + 1]
    BY <2>0, <2>1 DEF Answer
  <2>2. CASE Answer(r, "no") /\ UNCHANGED performed
    BY <2>2 DEF Answer
  <2> QED
    BY <1>8, <2>1, <2>2 DEF Execute
<1>9. ASSUME NEW r \in Requests, Post(r) \/ TimeOut(r) \/ CallReturns(r) \/ Reuse(r)
      PROVE DoneWasPerformed'
  BY <1>9 DEF Post, TimeOut, CallReturns, Reuse
<1> QED
  BY <1>1, <1>2, <1>3, <1>4, <1>5, <1>6, <1>7, <1>8, <1>9 DEF Next

(* No lost answer, shutdown or timeout turns into the report of a success. *)
THEOREM SuccessIsReal == Spec => []DoneWasPerformed
<1>1. Init => DoneWasPerformed
  BY DEF Init, DoneWasPerformed
<1> QED
  BY <1>1, DoneStep, PostedInvariant, TypeCorrect, PTL DEF Spec

-----------------------------------------------------------------------------
(* Every step of the thread and of its callers is a step of the calls.     *)
LEMMA CallStepMaps ==
    TypeOK /\ PostedOnce /\ DoneWasPerformed /\ [Next]_vars
    => [Channel!CallNext]_(Channel!callVars)
<1> SUFFICES ASSUME TypeOK, PostedOnce, DoneWasPerformed, [Next]_vars
             PROVE  [Channel!CallNext]_(Channel!callVars)
  OBVIOUS
<1> DEFINE state == [r \in Requests |-> CallState(r)]
<1> USE DEF player, worker, requests
<1>0. inbox \in Seq(Messages)
  BY DEF TypeOK, Messages
<1>1. CASE UNCHANGED <<phase, performed>>
  BY <1>1 DEF CallState, Channel!callVars
<1>2. ASSUME NEW failing \in SUBSET Requests, UNCHANGED performed,
             \A r \in failing : phase[r] \in {"sent", "no"},
             phase' = [r \in Requests |-> IF r \in failing THEN "refused" ELSE phase[r]]
      PROVE  Channel!CallNext
  <2>1. \A r \in failing : state[r] = "pending"
    BY <1>2 DEF CallState
  <2>2. state' = [r \in Requests |-> IF r \in failing THEN "failed" ELSE state[r]]
    BY <1>2 DEF CallState
  <2> QED
    BY <1>2, <2>1, <2>2 DEF Channel!CallNext, Channel!Fail
<1>3. ASSUME StopThread, UNCHANGED performed PROVE Channel!CallNext
  <2> DEFINE failing == {r \in Requests : phase[r] = "sent"}
  <2>1. phase' = [r \in Requests |-> IF r \in failing THEN "refused" ELSE phase[r]]
    BY <1>3 DEF StopThread, TypeOK
  <2>2. failing \in SUBSET Requests /\ \A r \in failing : phase[r] = "sent"
    OBVIOUS
  <2> HIDE DEF failing
  <2> QED
    BY <1>2, <1>3, <2>1, <2>2
<1>4. ASSUME NEW r \in Requests, Answer(r, "no"), UNCHANGED performed
      PROVE  UNCHANGED Channel!callVars
  BY <1>4 DEF Answer, CallState, TypeOK, Channel!callVars
<1>5. ASSUME NEW r \in Requests, NEW next,
             phase' = [phase EXCEPT ![r] = next]
      PROVE  state' = [state EXCEPT ![r] = CallState(r)']
  BY <1>5 DEF CallState, TypeOK
<1>6. CASE Retry
  BY <1>0, <1>1, <1>3, <1>4, <1>6, TailOfMessages DEF Retry, Messages
<1>7. CASE TakeShutdown
  BY <1>3, <1>7 DEF TakeShutdown
<1>8. ASSUME NEW r \in Requests, Execute(r) PROVE [Channel!CallNext]_(Channel!callVars)
  <2>1. CASE Answer(r, "ok") /\ performed' = [performed EXCEPT ![r] = @ + 1]
    <3>1. performed[r] = 0 /\ phase[r] \in {"sent", "refused"}
      BY <1>0, <1>8, TailHolds DEF Execute, PostedOnce
    <3>2. state[r] \in {"pending", "failed"} /\ state' = state
      BY <2>1, <3>1 DEF Answer, CallState, TypeOK
    <3>3. performed' = [performed EXCEPT ![r] = 1]
      BY <2>1, <3>1 DEF TypeOK
    <3> QED
      BY <3>1, <3>2, <3>3 DEF Channel!CallNext, Channel!Carry
  <2> QED
    BY <1>1, <1>4, <1>8, <2>1 DEF Execute
<1>9. ASSUME NEW r \in Requests, Post(r) PROVE Channel!CallNext
  <2>1. state[r] = "free" /\ CallState(r)' = "pending"
    BY <1>9 DEF Post, CallState, TypeOK
  <2> QED
    BY <1>5, <1>9, <2>1 DEF Post, Channel!CallNext, Channel!Submit
<1>10. ASSUME NEW r \in Requests, TimeOut(r) PROVE Channel!CallNext
  <2>1. phase' = [q \in Requests |-> IF q \in {r} THEN "refused" ELSE phase[q]]
    BY <1>10 DEF TimeOut, TypeOK
  <2> QED
    BY <1>2, <1>10, <2>1 DEF TimeOut
<1>11. ASSUME NEW r \in Requests, CallReturns(r) PROVE Channel!CallNext
  <2>1. CASE phase[r] = "ok"
    <3>1. state[r] = "pending" /\ CallState(r)' = "done" /\ performed[r] = 1
      BY <1>11, <2>1 DEF CallReturns, CallState, TypeOK, DoneWasPerformed
    <3> QED
      BY <1>5, <1>11, <2>1, <3>1 DEF CallReturns, Channel!CallNext, Channel!Succeed
  <2>2. CASE phase[r] = "no"
    <3>1. phase' = [q \in Requests |-> IF q \in {r} THEN "refused" ELSE phase[q]]
      BY <1>11, <2>2 DEF CallReturns, TypeOK
    <3> QED
      BY <1>2, <1>11, <2>2, <3>1 DEF CallReturns
  <2> QED
    BY <1>11, <2>1, <2>2 DEF CallReturns
<1>12. ASSUME NEW r \in Requests, Reuse(r) PROVE Channel!CallNext
  <2>1. state[r] \in {"done", "failed"} /\ CallState(r)' = "free"
    BY <1>12 DEF Reuse, CallState, TypeOK
  <2> QED
    BY <1>5, <1>12, <2>1 DEF Reuse, Channel!CallNext, Channel!Release
<1>13. ASSUME NEW obtained \in BOOLEAN,
             \/ UNCHANGED vars \/ PlayerStarts \/ TrackChanges \/ AcquireSucceeds \/ AcquireFails
             \/ PublishNone \/ PublishNoneAndRefresh(obtained) \/ Shutdown \/ TakeRefresh
             \/ ReadProperties \/ ReadFails \/ FinishReadUntitled \/ FinishRead \/ PollTick
      PROVE [Channel!CallNext]_(Channel!callVars)
  BY <1>1, <1>13 DEF vars, PlayerStarts, TrackChanges, AcquireSucceeds, AcquireFails, PublishNone,
     PublishNoneAndRefresh, ReadProperties, ReadFails, FinishReadUntitled, FinishRead, PollTick, Shutdown, TakeRefresh
<1> QED
  BY <1>6, <1>7, <1>8, <1>9, <1>10, <1>11, <1>12, <1>13 DEF Next

(* Whatever the number of callers: a command is carried out at most once,  *)
(* a success is that of a command that was, and one whose caller gave up   *)
(* may still be carried out.                                               *)
THEOREM ChannelImplementsCalls == Spec => ImplementsCalls
<1>1. Init => Channel!CallInit
  BY DEF Init, Channel!CallInit, CallState
<1> QED
  BY <1>1, TypeCorrect, PostedInvariant, SuccessIsReal, CallStepMaps, PTL
     DEF Spec, ImplementsCalls, Channel!CallSpec

-----------------------------------------------------------------------------
(* A caller that waits has its command in the channel, so it waits for a   *)
(* thread that will come to it; nobody waits for a thread that has ended.  *)
CallersServed ==
    /\ \A r \in Requests : phase[r] = "sent" => Holds(inbox, r)
    /\ pc = "stopped" => inbox = <<>>

(* A request to stop is only taken out of the channel by a thread that     *)
(* stops.                                                                  *)
StopHeeded == Holds(inbox, "shutdown") => Holds(inbox, "shutdown")' \/ pc' = "stopped"

LEMMA TailKeeps ==
    ASSUME NEW queue \in Seq(Messages), queue # <<>>, NEW m, m # Head(queue), Holds(queue, m)
    PROVE  Holds(Tail(queue), m)
<1>1. PICK i \in 1..Len(queue) : queue[i] = m
  BY DEF Holds
<1>2. /\ Len(queue) \in Nat /\ Len(Tail(queue)) = Len(queue) - 1
      /\ Head(queue) = queue[1]
      /\ \A j \in 1..Len(Tail(queue)) : Tail(queue)[j] = queue[j + 1]
  OBVIOUS
<1>3. i - 1 \in 1..Len(Tail(queue)) /\ Tail(queue)[i - 1] = m
  BY <1>1, <1>2
<1> QED
  BY <1>3 DEF Holds

LEMMA AppendKeeps ==
    ASSUME NEW queue \in Seq(Messages), NEW n \in Messages, NEW m, Holds(queue, m) \/ m = n
    PROVE  Holds(Append(queue, n), m)
<1>1. /\ Len(queue) \in Nat /\ Len(Append(queue, n)) = Len(queue) + 1
      /\ Append(queue, n)[Len(queue) + 1] = n
      /\ \A i \in 1..Len(queue) : Append(queue, n)[i] = queue[i]
  OBVIOUS
<1>2. CASE Holds(queue, m)
  <2>1. PICK i \in 1..Len(queue) : queue[i] = m
    BY <1>2 DEF Holds
  <2>2. i \in 1..Len(Append(queue, n)) /\ Append(queue, n)[i] = m
    BY <1>1, <2>1
  <2> QED
    BY <2>2 DEF Holds
<1>3. CASE m = n
  <2>1. Len(queue) + 1 \in 1..Len(Append(queue, n))
    BY <1>1
  <2> QED
    BY <1>1, <1>3, <2>1 DEF Holds
<1> QED
  BY <1>2, <1>3

LEMMA ServedStep == TypeOK /\ CallersServed /\ [Next]_vars => CallersServed' /\ StopHeeded
<1> SUFFICES ASSUME TypeOK, CallersServed, [Next]_vars PROVE CallersServed' /\ StopHeeded
  OBVIOUS
<1> USE DEF CallersServed, StopHeeded, Goto, player, worker, requests
<1>0. inbox \in Seq(Messages)
  BY DEF TypeOK, Messages
<1>1. ASSUME UNCHANGED <<inbox, phase>>, pc' = "stopped" => pc = "stopped"
      PROVE  CallersServed' /\ StopHeeded
  BY <1>1 DEF Holds
<1>2. ASSUME NEW obtained \in BOOLEAN,
             \/ UNCHANGED vars \/ PlayerStarts \/ TrackChanges \/ AcquireSucceeds \/ AcquireFails
             \/ PublishNone \/ PublishNoneAndRefresh(obtained)
             \/ ReadProperties \/ ReadFails \/ FinishReadUntitled \/ FinishRead \/ PollTick
      PROVE CallersServed' /\ StopHeeded
  BY <1>1, <1>2 DEF vars, PlayerStarts, TrackChanges, AcquireSucceeds, AcquireFails, PublishNone,
     PublishNoneAndRefresh, ReadProperties, ReadFails, FinishReadUntitled, FinishRead, PollTick
<1>3. ASSUME StopThread PROVE CallersServed' /\ StopHeeded
  BY <1>3 DEF StopThread
<1>4. ASSUME inbox # <<>>, Head(inbox) # "shutdown", inbox' = Tail(inbox), pc' # "stopped",
             \A r \in Requests : phase'[r] = "sent" => phase[r] = "sent" /\ r # Head(inbox)
      PROVE  CallersServed' /\ StopHeeded
  <2>1. \A m : m # Head(inbox) /\ Holds(inbox, m) => Holds(inbox', m)
    BY <1>0, <1>4, TailKeeps
  <2>2. Holds(inbox, "shutdown") => Holds(inbox, "shutdown")'
    BY <1>4, <2>1 DEF Holds
  <2>3. \A r \in Requests : phase'[r] = "sent" => Holds(inbox, r)'
    BY <1>4, <2>1 DEF Holds
  <2> QED
    BY <1>4, <2>2, <2>3
<1>5. CASE Retry
  <2>1. CASE inbox = <<>>
    BY <1>1, <1>5, <2>1 DEF Retry
  <2>2. CASE inbox # <<>> /\ Head(inbox) = "shutdown"
    BY <1>3, <1>5, <2>2 DEF Retry
  <2>3. CASE inbox # <<>> /\ Head(inbox) # "shutdown"
    <3>1. \A r \in Requests : phase'[r] = "sent" => phase[r] = "sent" /\ r # Head(inbox)
      BY <1>5, <2>3, RequestAssumption DEF Retry, Answer, TypeOK
    <3> QED
      BY <1>4, <1>5, <2>3, <3>1 DEF Retry
  <2> QED
    BY <2>1, <2>2, <2>3
<1>6. CASE TakeRefresh
  <2>1. Head(inbox) = "refresh"
    BY <1>6 DEF TakeRefresh
  <2> QED
    BY <1>4, <1>6, <2>1, RequestAssumption DEF TakeRefresh
<1>7. CASE TakeShutdown
  BY <1>3, <1>7 DEF TakeShutdown
<1>8. ASSUME NEW r \in Requests, Execute(r) PROVE CallersServed' /\ StopHeeded
  <2>1. \A q \in Requests : phase'[q] = "sent" => phase[q] = "sent" /\ q # r
    BY <1>8 DEF Execute, Answer, TypeOK
  <2> QED
    BY <1>4, <1>8, <2>1, RequestAssumption DEF Execute
<1>9. ASSUME NEW m \in Messages, inbox' = Append(inbox, m), pc # "stopped", pc' = pc,
             \A r \in Requests : phase'[r] = "sent" => phase[r] = "sent" \/ r = m
      PROVE  CallersServed' /\ StopHeeded
  <2>1. \A n : Holds(inbox, n) \/ n = m => Holds(inbox', n)
    BY <1>0, <1>9, AppendKeeps
  <2>2. Holds(inbox, "shutdown") => Holds(inbox, "shutdown")'
    BY <2>1 DEF Holds
  <2>3. \A r \in Requests : phase'[r] = "sent" => Holds(inbox, r)'
    BY <1>9, <2>1 DEF Holds
  <2> QED
    BY <1>9, <2>2, <2>3
<1>10. ASSUME NEW r \in Requests, Post(r) PROVE CallersServed' /\ StopHeeded
  BY <1>9, <1>10 DEF Post, TypeOK, Messages
<1>11. ASSUME NEW r \in Requests, TimeOut(r) \/ Reuse(r) PROVE CallersServed' /\ StopHeeded
  <2>1. \A q \in Requests : phase'[q] = "sent" => phase[q] = "sent"
    BY <1>11 DEF TimeOut, Reuse, TypeOK
  <2>2. UNCHANGED <<inbox, pc>>
    BY <1>11 DEF TimeOut, Reuse
  <2> QED
    BY <2>1, <2>2 DEF Holds
<1>12. ASSUME NEW r \in Requests, CallReturns(r) PROVE CallersServed' /\ StopHeeded
  <2>1. \A q \in Requests : phase'[q] = "sent" => phase[q] = "sent"
    BY <1>12 DEF CallReturns, TypeOK
  <2>2. CASE pc = "stopped"
    BY <1>12, <2>1, <2>2 DEF CallReturns, Holds
  <2>3. CASE pc # "stopped"
    BY <1>9, <1>12, <2>1, <2>3 DEF CallReturns, Messages
  <2> QED
    BY <2>2, <2>3
<1>13. CASE Shutdown
  BY <1>9, <1>13 DEF Shutdown, Messages
<1> QED
  BY <1>2, <1>5, <1>6, <1>7, <1>8, <1>10, <1>11, <1>12, <1>13 DEF Next

(* No caller of execute is forgotten: as long as it waits, the thread has  *)
(* its command still to come, and the thread leaves none behind when it    *)
(* ends.                                                                   *)
THEOREM NoCallerForgotten == Spec => []CallersServed
<1>1. Init => CallersServed
  BY DEF Init, CallersServed
<1> QED
  BY <1>1, ServedStep, TypeCorrect, PTL DEF Spec

(* A shutdown that was asked for is not lost among commands and refreshes, *)
(* whether or not the session manager was obtained; ShutdownCompletes      *)
(* follows once the thread goes on.                                        *)
THEOREM ShutdownNotLost == Spec => [][StopHeeded]_vars
<1>1. TypeOK /\ CallersServed /\ [Next]_vars => [StopHeeded]_vars
  BY ServedStep
<1> QED
  BY <1>1, TypeCorrect, NoCallerForgotten, PTL DEF Spec
=============================================================================
