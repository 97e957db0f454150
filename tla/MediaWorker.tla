------------------------------ MODULE MediaWorker ------------------------------
(***************************************************************************)
(* The Windows adapter (apps/bridge/src/adapters/windows_media.rs): one    *)
(* thread that owns the media sessions, polls them and carries out the     *)
(* commands that run_command (api/mod.rs) puts in its channel.  A read of  *)
(* the session is not atomic: the player goes on between its properties    *)
(* and its thumbnail.  A caller gives up on its command after a while, but *)
(* the command stays in the channel.                                       *)
(*                                                                         *)
(* There is one Deezer session, shown by a fresh session manager; one      *)
(* obtained before the player started may not show it.  WinRT calls are    *)
(* steps that succeed or fail; every delay may end at any time.            *)
(***************************************************************************)
EXTENDS Naturals, Sequences

CONSTANTS
    Tracks,          \* what the player may play
    WithArt,         \* the tracks that have a thumbnail
    NoTrack,         \* no player, or no track in the state
    NoArt,
    LearnedCommands, \* commands whose outcome teaches a capability
    NextCommand, PreviousCommand,  \* two of them
    Declarations,    \* sets of commands the session may declare enabled
    Volume,          \* SetVolume, which goes to the Windows mixer
    Requests,        \* HTTP requests in progress, one slot each
    RefreshTicks     \* MANAGER_REFRESH_TICKS

Commands == LearnedCommands \union {Volume}

ASSUME TrackAssumption == WithArt \subseteq Tracks /\ NoTrack \notin Tracks /\ NoArt \notin Tracks
ASSUME CommandAssumption == 
    /\ NextCommand \in LearnedCommands /\ PreviousCommand \in LearnedCommands
    /\ Volume \notin LearnedCommands
    /\ Declarations \subseteq SUBSET LearnedCommands
ASSUME RequestAssumption == "refresh" \notin Requests /\ "shutdown" \notin Requests
ASSUME TicksAssumption == RefreshTicks \in Nat \ {0}

VARIABLES
    track,      \* external: what the player plays
    fresh,      \* external: the manager shows the current sessions
    pc,         \* where the thread stands
    read,       \* track named by the properties it has just read
    misses, last_source, artwork_cache, succeeded, failed,  \* the fields of Worker
    inbox,      \* the channel: "refresh", "shutdown" or the request of an Execute
    phase,      \* where each request stands
    command,    \* what it asks for
    performed,  \* history: how often the player carried it out
    store       \* what the store publishes of all this

player == <<track, fresh>>
worker == <<pc, read, misses, last_source, artwork_cache, succeeded, failed>>
requests == <<phase, command, performed>>
vars == <<player, worker, inbox, requests, store>>

Default == [available |-> FALSE, track |-> NoTrack, artwork |-> NoArt, caps |-> {}]

Init ==
    /\ track \in Tracks \union {NoTrack}
    /\ fresh = TRUE
    /\ pc = "acquiring" /\ read = NoTrack
    /\ misses = 0 /\ last_source = FALSE
    /\ artwork_cache = [track |-> NoTrack, artwork |-> NoArt]
    /\ succeeded = {} /\ failed = {}
    /\ inbox = <<>>
    /\ phase = [r \in Requests |-> "free"]
    /\ command = [r \in Requests |-> Volume]
    /\ performed = [r \in Requests |-> 0]
    /\ store = Default

-----------------------------------------------------------------------------
(* The player.                                                             *)

(* A new session may be missing from the list of the manager at hand.      *)
PlayerStarts ==
    /\ track = NoTrack
    /\ track' \in Tracks
    /\ fresh' \in BOOLEAN
    /\ UNCHANGED <<worker, inbox, requests, store>>

TrackChanges ==
    /\ track # NoTrack
    /\ track' \in (Tracks \union {NoTrack}) \ {track}
    /\ UNCHANGED <<fresh, worker, inbox, requests, store>>

(* What select_session finds, when none of its calls fails.                *)
SessionSelected == track # NoTrack /\ fresh

ThumbnailOf(t) == IF t \in WithArt THEN t ELSE NoArt

-----------------------------------------------------------------------------
(* acquire_manager.                                                        *)

Goto(p) == pc' = p

AcquireSucceeds ==
    /\ pc = "acquiring"
    /\ Goto("publish")
    /\ fresh' = TRUE
    /\ UNCHANGED <<track, read, misses, last_source, artwork_cache, succeeded, failed,
                   inbox, requests, store>>

(* The store shows an unavailable player until the next attempt succeeds.  *)
AcquireFails ==
    /\ pc = "acquiring"
    /\ Goto("retry")
    /\ store' = Default
    /\ UNCHANGED <<player, read, misses, last_source, artwork_cache, succeeded, failed,
                   inbox, requests>>

(* The answer to r, dropped when its caller has given up.                  *)
Answer(r, outcome) ==
    phase' = [phase EXCEPT ![r] = IF phase[r] = "sent" THEN outcome ELSE phase[r]]

(* Faulty variant: a lost answer passes for a success.                     *)
StopThreadOk ==
    /\ Goto("stopped")
    /\ inbox' = <<>>
    /\ phase' = [r \in Requests |-> IF phase[r] = "sent" THEN "ok" ELSE phase[r]]

(* What is left in the channel when the thread ends: each caller learns    *)
(* that its answer is lost.                                                *)
StopThread ==
    /\ Goto("stopped")
    /\ inbox' = <<>>
    /\ phase' = [r \in Requests |-> IF phase[r] = "sent" THEN "refused" ELSE phase[r]]

(* Faulty variant: between two attempts, only commands are looked at.      *)
RetryIgnoresShutdown ==
    /\ pc = "retry"
    /\ Goto("acquiring")
    /\ inbox' = IF inbox = <<>> THEN inbox ELSE Tail(inbox)
    /\ IF inbox # <<>> /\ Head(inbox) \in Requests
       THEN Answer(Head(inbox), "no")
       ELSE UNCHANGED phase
    /\ UNCHANGED <<player, read, misses, last_source, artwork_cache, succeeded, failed,
                   command, performed, store>>

(* Between two attempts, a command is answered at once by an error.        *)
Retry ==
    /\ pc = "retry"
    /\ \/ /\ inbox = <<>>
          /\ Goto("acquiring")
          /\ UNCHANGED <<inbox, phase>>
       \/ /\ inbox # <<>> /\ Head(inbox) = "shutdown"
          /\ StopThread
       \/ /\ inbox # <<>> /\ Head(inbox) # "shutdown"
          /\ Goto("acquiring")
          /\ inbox' = Tail(inbox)
          /\ IF Head(inbox) = "refresh"
             THEN UNCHANGED phase
             ELSE Answer(Head(inbox), "no")
    /\ UNCHANGED <<player, read, misses, last_source, artwork_cache, succeeded, failed,
                   command, performed, store>>

-----------------------------------------------------------------------------
(* Worker::publish.                                                        *)

ForgetSource ==
    /\ last_source' = FALSE
    /\ artwork_cache' =
          IF last_source THEN [track |-> NoTrack, artwork |-> NoArt] ELSE artwork_cache

(* select_session returns none, and has not done so for long: the manager  *)
(* shows no Deezer session, or the list, its size or the name of the       *)
(* application cannot be read.                                             *)
PublishNone ==
    /\ pc = "publish"
    /\ misses + 1 < RefreshTicks
    /\ misses' = misses + 1
    /\ ForgetSource
    /\ store' = Default
    /\ Goto("idle")
    /\ UNCHANGED <<player, read, succeeded, failed, inbox, requests>>

(* Faulty variants: the manager obtained is dropped; the count goes on.    *)
RefreshDropped(obtained) ==
    /\ pc = "publish"
    /\ misses + 1 >= RefreshTicks
    /\ misses' = 0
    /\ ForgetSource
    /\ store' = Default
    /\ Goto("idle")
    /\ UNCHANGED <<track, fresh, read, succeeded, failed, inbox, requests>>

RefreshKeepsMisses(obtained) ==
    /\ pc = "publish"
    /\ misses + 1 >= RefreshTicks
    /\ misses' = misses + 1
    /\ fresh' = (fresh \/ obtained)
    /\ ForgetSource
    /\ store' = Default
    /\ Goto("idle")
    /\ UNCHANGED <<track, read, succeeded, failed, inbox, requests>>

(* refresh_manager, after RefreshTicks of them.                            *)
PublishNoneAndRefresh(obtained) ==
    /\ pc = "publish"
    /\ misses + 1 >= RefreshTicks
    /\ misses' = 0
    /\ fresh' = (fresh \/ obtained)
    /\ ForgetSource
    /\ store' = Default
    /\ Goto("idle")
    /\ UNCHANGED <<track, read, succeeded, failed, inbox, requests>>

(* read_session up to the media properties.                                *)
ReadProperties ==
    /\ pc = "publish" /\ SessionSelected
    /\ misses' = 0
    /\ last_source' = TRUE
    /\ read' = track
    /\ Goto("read")
    /\ UNCHANGED <<player, artwork_cache, succeeded, failed, inbox, requests, store>>

(* A WinRT call of read_session fails: an unavailable player is published. *)
ReadFails ==
    /\ pc = "read"
    /\ store' = Default
    /\ read' = NoTrack
    /\ Goto("idle")
    /\ UNCHANGED <<player, misses, last_source, artwork_cache, succeeded, failed, inbox, requests>>

(* Faulty variant: what once worked is offered again after a failure.      *)
CapabilitiesKeepSucceeded(declared, volume) ==
    (declared \ failed) \union succeeded \union volume

(* effective_capabilities.                                                 *)
EffectiveCapabilities(declared, volume) ==
    ((declared \union (IF NextCommand \in declared THEN {PreviousCommand} ELSE {}) \union succeeded) \ failed)
        \union volume

(* The end of read_session, and the store's apply.                         *)
PublishSession(t, art) ==
    \E declared \in Declarations, volume \in SUBSET {Volume} :
        store' = [available |-> TRUE, track |-> t, artwork |-> art,
                  caps |-> EffectiveCapabilities(declared, volume)]

(* The session has neither title nor artist: it is published without track *)
(* identity, and no artwork is looked for.                                 *)
FinishReadUntitled ==
    /\ pc = "read"
    /\ PublishSession(NoTrack, NoArt)
    /\ read' = NoTrack
    /\ Goto("idle")
    /\ UNCHANGED <<player, misses, last_source, artwork_cache, succeeded, failed, inbox, requests>>

(* With artwork_for: the thumbnail is the one of the track played by now.  *)
FinishRead ==
    /\ pc = "read"
    /\ \E art \in {NoArt, ThumbnailOf(track), artwork_cache.artwork} :
          /\ \/ /\ artwork_cache.track = read
                /\ art = artwork_cache.artwork
                /\ UNCHANGED artwork_cache
             \/ /\ artwork_cache.track # read
                /\ art = ThumbnailOf(track) /\ art # NoArt
                /\ artwork_cache' = [track |-> read, artwork |-> art]
             \/ /\ artwork_cache.track # read
                /\ art = ThumbnailOf(track) /\ art = NoArt
                /\ artwork_cache' = [track |-> NoTrack, artwork |-> NoArt]
             \/ /\ artwork_cache.track # read
                /\ art = NoArt
                /\ UNCHANGED artwork_cache
          /\ PublishSession(read, art)
    /\ read' = NoTrack
    /\ Goto("idle")
    /\ UNCHANGED <<player, misses, last_source, succeeded, failed, inbox, requests>>

-----------------------------------------------------------------------------
(* The loop of worker_main.                                                *)

PollTick ==
    /\ pc = "idle" /\ inbox = <<>>
    /\ Goto("publish")
    /\ UNCHANGED <<player, read, misses, last_source, artwork_cache, succeeded, failed,
                   inbox, requests, store>>

TakeRefresh ==
    /\ pc = "idle" /\ inbox # <<>> /\ Head(inbox) = "refresh"
    /\ inbox' = Tail(inbox)
    /\ Goto("publish")
    /\ UNCHANGED <<player, read, misses, last_source, artwork_cache, succeeded, failed,
                   requests, store>>

TakeShutdown ==
    /\ pc = "idle" /\ inbox # <<>> /\ Head(inbox) = "shutdown"
    /\ StopThread
    /\ UNCHANGED <<player, read, misses, last_source, artwork_cache, succeeded, failed,
                   command, performed, store>>

(* Worker::execute: done, declined by the player (Ok(false)), or an error. *)
Execute(r) ==
    /\ pc = "idle" /\ inbox # <<>> /\ Head(inbox) = r
    /\ inbox' = Tail(inbox)
    /\ Goto("publish")
    /\ \/ /\ SessionSelected
          /\ Answer(r, "ok")
          /\ performed' = [performed EXCEPT ![r] = @ + 1]
          /\ succeeded' = succeeded \union ({command[r]} \ {Volume})
          /\ UNCHANGED failed
       \/ /\ SessionSelected /\ command[r] # Volume
          /\ Answer(r, "no")
          /\ failed' = failed \union {command[r]}
          /\ UNCHANGED <<performed, succeeded>>
       \/ /\ Answer(r, "no")
          /\ UNCHANGED <<performed, succeeded, failed>>
    /\ UNCHANGED <<player, read, misses, last_source, artwork_cache, command, store>>

-----------------------------------------------------------------------------
(* The callers.                                                            *)

(* run_command: the state is checked, then the command goes to the thread. *)
Post(r) ==
    /\ phase[r] = "free"
    /\ pc # "stopped"
    /\ store.available
    /\ \E c \in store.caps : command' = [command EXCEPT ![r] = c]
    /\ phase' = [phase EXCEPT ![r] = "sent"]
    /\ inbox' = Append(inbox, r)
    /\ UNCHANGED <<player, worker, performed, store>>

(* Five seconds without an answer: the request fails.                      *)
TimeOut(r) ==
    /\ phase[r] = "sent"
    /\ phase' = [phase EXCEPT ![r] = "refused"]
    /\ UNCHANGED <<player, worker, inbox, command, performed, store>>

(* WindowsMediaSessionAdapter::execute has the answer of the thread, good  *)
(* or bad: it asks for a refresh, and the reply follows.                   *)
CallReturns(r) ==
    /\ phase[r] \in {"ok", "no"}
    /\ phase' = [phase EXCEPT ![r] = IF phase[r] = "ok" THEN "done" ELSE "refused"]
    /\ inbox' = IF pc = "stopped" THEN inbox ELSE Append(inbox, "refresh")
    /\ UNCHANGED <<player, worker, command, performed, store>>

(* The slot is used again once no trace of the request is left.            *)
Reuse(r) ==
    /\ phase[r] \in {"done", "refused"}
    /\ \A i \in 1..Len(inbox) : inbox[i] # r
    /\ phase' = [phase EXCEPT ![r] = "free"]
    /\ performed' = [performed EXCEPT ![r] = 0]
    /\ UNCHANGED <<player, worker, inbox, command, store>>

(* The end of Bridge::serve.                                               *)
Shutdown ==
    /\ pc # "stopped"
    /\ \A i \in 1..Len(inbox) : inbox[i] # "shutdown"
    /\ inbox' = Append(inbox, "shutdown")
    /\ UNCHANGED <<player, worker, requests, store>>

-----------------------------------------------------------------------------
Publish ==
    \/ PublishNone
    \/ \E obtained \in BOOLEAN : PublishNoneAndRefresh(obtained)
    \/ ReadProperties \/ ReadFails \/ FinishReadUntitled \/ FinishRead

Loop ==
    PollTick \/ TakeRefresh \/ TakeShutdown \/ \E r \in Requests : Execute(r)

WorkerStep ==
    AcquireSucceeds \/ AcquireFails \/ Retry \/ Publish \/ Loop

Next ==
    \/ PlayerStarts \/ TrackChanges
    \/ AcquireSucceeds \/ AcquireFails \/ Retry
    \/ PublishNone
    \/ \E obtained \in BOOLEAN : PublishNoneAndRefresh(obtained)
    \/ ReadProperties \/ ReadFails \/ FinishReadUntitled \/ FinishRead
    \/ PollTick \/ TakeRefresh \/ TakeShutdown
    \/ \E r \in Requests : Execute(r) \/ Post(r) \/ TimeOut(r) \/ CallReturns(r) \/ Reuse(r)
    \/ Shutdown

Spec == Init /\ [][Next]_vars

(* The thread runs, each of its waits for WinRT ends, and no WinRT call    *)
(* fails for ever: the manager is obtained, at first and when the one at   *)
(* hand does not show the session; a session that is shown is selected,    *)
(* and read with its title.  Nothing forces the player or the callers.     *)
FairSpec ==
    /\ Spec
    /\ WF_vars(WorkerStep)
    /\ SF_vars(AcquireSucceeds)
    /\ SF_vars(~SessionSelected /\ PublishNoneAndRefresh(TRUE))
    /\ SF_vars(ReadProperties)
    /\ SF_vars(FinishRead)

-----------------------------------------------------------------------------
States == [available : BOOLEAN, track : Tracks \union {NoTrack},
           artwork : Tracks \union {NoArt}, caps : SUBSET Commands]

Caches == [track : Tracks \union {NoTrack}, artwork : Tracks \union {NoArt}]

TypeOK ==
    /\ track \in Tracks \union {NoTrack}
    /\ fresh \in BOOLEAN
    /\ pc \in {"acquiring", "retry", "publish", "read", "idle", "stopped"}
    /\ read \in Tracks \union {NoTrack}
    /\ misses \in 0..RefreshTicks - 1
    /\ last_source \in BOOLEAN
    /\ artwork_cache \in Caches
    /\ succeeded \subseteq LearnedCommands
    /\ failed \subseteq LearnedCommands
    /\ inbox \in Seq(Requests \union {"refresh", "shutdown"})
    /\ phase \in [Requests -> {"free", "sent", "ok", "no", "refused", "done"}]
    /\ command \in [Requests -> Commands]
    /\ performed \in [Requests -> Nat]
    /\ store \in States

(* A command the player declined is not offered again: whenever the thread *)
(* waits for messages, the published capabilities have taken the lesson.   *)
DeclinedNotOffered ==
    pc = "idle" => store.caps \cap failed = {}

(* A command answered by "done" was carried out, once.                     *)
DoneWasPerformed ==
    \A r \in Requests : phase[r] \in {"ok", "done"} => performed[r] = 1

(* The calls as their callers see them: the answers "ok" and "no" are      *)
(* still on their way; a refusal, a lost answer and a timeout are all      *)
(* failures.                                                               *)
CallState(r) ==
    CASE phase[r] = "free" -> "free"
      [] phase[r] \in {"sent", "ok", "no"} -> "pending"
      [] phase[r] = "refused" -> "failed"
      [] OTHER -> "done"

Channel == INSTANCE CommandCalls WITH
              Calls <- Requests,
              state <- [r \in Requests |-> CallState(r)],
              executed <- performed

(* However slow the thread is and however early its callers give up, the   *)
(* channel of run_command carries each command out at most once, and only  *)
(* what was carried out is reported as done.                               *)
ImplementsCalls == Channel!CallSpec

(* What the player plays is published in the end, also when it started     *)
(* after the bridge and the session manager at hand does not show it, and  *)
(* whatever reads of the sessions fail on the way.                         *)
TrackPublished ==
    \A t \in Tracks :
        (track = t /\ pc # "stopped")
            ~> (store.track = t \/ track # t \/ pc = "stopped"
                \/ \E i \in 1..Len(inbox) : inbox[i] = "shutdown")

(* Bridge::serve waits for the thread: it ends, whatever is in its channel *)
(* and even if the session manager was never obtained.                     *)
ShutdownCompletes ==
    (\E i \in 1..Len(inbox) : inbox[i] = "shutdown") ~> pc = "stopped"

(* The cached artwork is that of the track it is cached for.               *)
CachedArtworkIsOfTrack ==
    artwork_cache.artwork # NoArt => artwork_cache.artwork = artwork_cache.track
=============================================================================
