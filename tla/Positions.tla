------------------------------- MODULE Positions -------------------------------
(***************************************************************************)
(* The position a key shows, from the player to the plugin.  The adapter   *)
(* samples the player periodically (windows_media.rs) or is the player     *)
(* (mock.rs); PlaybackStore::apply keeps each sample but sends an event    *)
(* only for a significant change, the bridge sends its state again every   *)
(* REPUBLISH_INTERVAL, run_command answers with the state COMMAND_SETTLE   *)
(* after a command, and the plugin makes what it got go on by itself.      *)
(*                                                                         *)
(* Time is discrete, what is due comes before time goes on, and messages   *)
(* take none: their order is the subject of EventStream.                   *)
(***************************************************************************)
EXTENDS Integers

CONSTANTS
    Tracks,            \* how many tracks there are, numbered from 0
    Duration,          \* of each of them
    PollInterval,      \* of the Windows adapter
    Tick,              \* of the simulated player
    RepublishInterval,
    Settle,            \* COMMAND_SETTLE_MS
    Tolerance,         \* POSITION_DRIFT_TOLERANCE_MS
    MaxExtrapolation,  \* MAX_EXTRAPOLATION_MS
    RestartAfter,      \* where the simulated Previous starts the track again
    ClockSteps,        \* by how much the system's clock may be set
    MaxMoves           \* bound: commands, steps of the clock, acts of the user

ASSUME PositionsAssumption ==
    /\ Tracks \in Nat \ {0} /\ Duration \in Nat \ {0}
    /\ PollInterval \in Nat \ {0} /\ Tick \in Nat \ {0} /\ RepublishInterval \in Nat \ {0}
    /\ Settle \in Nat /\ Tolerance \in Nat
    /\ MaxExtrapolation \in Nat /\ RestartAfter \in Nat
    /\ ClockSteps \subseteq Nat
    /\ MaxMoves \in Nat

NoPosition == -1
NoAnswer == -1

VARIABLES
    adapter,      \* "windows" or "mock"
    track, status,
    position,     \* what the player last reported; MockState.position_ms
    age,          \* of that report, by the system's clock; of last_tick
    pollIn,       \* time left before the next sample
    republishIn,  \* time left before the next republication
    answerIn,     \* time left before the answer to a command
    store,        \* the state the bridge keeps
    got,          \* the state the plugin received last
    since,        \* how long ago, while it plays
    quiet,        \* history: how long nothing but time has changed anything
    moves

player == <<track, status, position, age>>
vars == <<adapter, player, pollIn, republishIn, answerIn, store, got, since, quiet, moves>>

Smaller(a, b) == IF a < b THEN a ELSE b

Period == IF adapter = "mock" THEN Tick ELSE PollInterval

Fresh(a) == 0 <= a /\ a <= MaxExtrapolation

(* Faulty variants: no upper bound on the age; none on the position.       *)
ExtrapolateFromAnyAge(p, a, s) ==
    Smaller(IF s = "playing" /\ 0 <= a THEN p + a ELSE p, Duration)

ExtrapolateUnclamped(p, a, s) == IF s = "playing" /\ Fresh(a) THEN p + a ELSE p

ExtrapolatePosition(p, a, s) ==
    Smaller(IF s = "playing" /\ Fresh(a) THEN p + a ELSE p, Duration)

(* read_session, for which 0 is no position.                               *)
ReadPosition(p, a, s) == IF p = 0 THEN NoPosition ELSE ExtrapolatePosition(p, a, s)

(* What the adapter tells the store of the player.                         *)
Sample(t, s, p, a) ==
    [track |-> t, status |-> s,
     position |-> IF adapter = "mock" THEN Smaller(p, Duration) ELSE ReadPosition(p, a, s)]

Statuses == {"playing", "paused", "stopped"}

Init ==
    /\ adapter \in {"windows", "mock"}
    /\ track \in 0..(Tracks - 1) /\ status \in Statuses /\ position \in 0..Duration
    /\ adapter = "mock" => track = 0 /\ status = "playing" /\ position = 0
    /\ age = 0
    /\ pollIn = IF adapter = "mock" THEN 0 ELSE PollInterval
    /\ republishIn \in 0..RepublishInterval
    /\ answerIn = NoAnswer
    /\ store = Sample(track, status, position, age) /\ got = store
    /\ since = 0 /\ quiet = 0 /\ moves = 0

-----------------------------------------------------------------------------
(* The player.                                                             *)

(* Where it is by now.                                                     *)
Head == Smaller(position + age, Duration)

(* How a sample gets its position: from where the player is, from an old   *)
(* report (or one that seems to come from the future), or in another way.  *)
Regime(s, p, a) ==
    IF s # "playing" THEN "other"
    ELSE IF adapter = "mock" THEN "live"
    ELSE IF p = 0 THEN "other"
    ELSE IF Fresh(a) THEN "live" ELSE "bare"

Disturb == moves < MaxMoves /\ moves' = moves + 1 /\ quiet' = 0

(* Deezer reports its position from time to time.                          *)
Report ==
    /\ adapter = "windows" /\ Regime(status, position, age) = "live"
    /\ position' = Head /\ age' = 0
    /\ UNCHANGED <<adapter, track, status, pollIn, republishIn, answerIn, store, got, since, quiet, moves>>

(* The user acts on Deezer, another track begins, or a report corrects     *)
(* where it is.                                                            *)
Move(t, s, p) ==
    /\ adapter = "windows"
    /\ Disturb
    /\ track' = t /\ status' = s /\ position' = p /\ age' = 0
    /\ UNCHANGED <<adapter, pollIn, republishIn, answerIn, store, got, since>>

ClockStep(d) ==
    /\ adapter = "windows"
    /\ Disturb
    /\ age' = age + d /\ since' = since + d
    /\ UNCHANGED <<adapter, track, status, position, pollIn, republishIn, answerIn, store, got>>

(* MockPlaybackAdapter::execute; last_tick stays what it is.               *)
Toggle ==
    /\ status' = IF status = "playing" THEN "paused" ELSE "playing"
    /\ UNCHANGED <<track, position>>
Skip ==
    /\ track' = (track + 1) % Tracks
    /\ position' = 0 /\ status' = "playing"
Back ==
    /\ track' = IF position > RestartAfter THEN track ELSE (track + Tracks - 1) % Tracks
    /\ position' = 0 /\ status' = "playing"
Stop ==
    /\ status' = "stopped" /\ position' = 0
    /\ UNCHANGED track

(* control_seek asks for no more than the duration of the state.           *)
SeekTarget(asked) == Smaller(asked, Duration)

Seek(target) ==
    /\ position' = Smaller(target, Duration)
    /\ UNCHANGED <<track, status>>

Accepted ==
    /\ answerIn = NoAnswer
    /\ Disturb
    /\ answerIn' = Settle
    /\ UNCHANGED <<adapter, age, republishIn, store, got, since>>

(* run_command up to its pause, with the simulated player.                 *)
CommandMock ==
    /\ adapter = "mock"
    /\ Accepted
    /\ Toggle \/ Skip \/ Back \/ Stop \/ \E asked \in 0..(Duration + 1) : Seek(SeekTarget(asked))
    /\ UNCHANGED pollIn

(* The same on Windows: what Deezer does about it is a Move; the thread    *)
(* samples it after the command, whether it is done by then or not.        *)
CommandWindows ==
    /\ adapter = "windows"
    /\ Accepted
    /\ pollIn' = 0
    /\ UNCHANGED <<track, status, position>>

-----------------------------------------------------------------------------
(* The bridge and the plugin.                                              *)

Distance(a, b) == IF a < b THEN b - a ELSE a - b

(* is_significant_change, on what is left of a snapshot.                   *)
Significant(previous, next) ==
    \/ previous.track # next.track \/ previous.status # next.status
    \/ IF previous.position = NoPosition \/ next.position = NoPosition
       THEN previous.position # next.position
       ELSE Distance(previous.position, next.position) > Tolerance

(* Faulty variant: only significant samples are kept.                      *)
ApplySignificant(sample) ==
    IF Significant(store, sample)
    THEN store' = sample /\ got' = sample /\ since' = 0
    ELSE UNCHANGED <<store, got, since>>

(* PlaybackStore::apply, and the plugin's applyState.                      *)
Apply(sample) ==
    /\ store' = sample
    /\ IF Significant(store, sample)
       THEN got' = sample /\ since' = 0
       ELSE UNCHANGED <<got, since>>

(* A poll of the Windows session.                                          *)
Poll ==
    /\ adapter = "windows" /\ pollIn = 0
    /\ Apply(Sample(track, status, position, age))
    /\ pollIn' = PollInterval
    /\ UNCHANGED <<adapter, player, republishIn, answerIn, quiet, moves>>

(* MockPlaybackAdapter::tick.                                              *)
TrackEnds == status = "playing" /\ position + age >= Duration

Advanced ==
    IF status # "playing" THEN position ELSE IF TrackEnds THEN 0 ELSE position + age

(* A turn of run_loop: a tick, then a sample of its outcome.               *)
TickPassed ==
    /\ adapter = "mock" /\ pollIn = 0
    /\ track' = IF TrackEnds THEN (track + 1) % Tracks ELSE track
    /\ position' = Advanced /\ age' = 0
    /\ Apply(Sample(track', status, Advanced, 0))
    /\ quiet' = IF TrackEnds THEN 0 ELSE quiet
    /\ pollIn' = Tick
    /\ UNCHANGED <<adapter, status, republishIn, answerIn, moves>>

Republish ==
    /\ republishIn = 0
    /\ republishIn' = RepublishInterval
    /\ IF store.status = "playing" THEN got' = store /\ since' = 0 ELSE UNCHANGED <<got, since>>
    /\ UNCHANGED <<adapter, player, pollIn, answerIn, store, quiet, moves>>

(* The end of run_command: the state by now, new or not.                   *)
Answer ==
    /\ answerIn = 0
    /\ answerIn' = NoAnswer
    /\ got' = store /\ since' = 0
    /\ UNCHANGED <<adapter, player, pollIn, republishIn, store, quiet, moves>>

(* effectivePositionMs.                                                    *)
Shown ==
    IF got.position = NoPosition \/ got.status # "playing" THEN got.position
    ELSE Smaller(got.position + (IF since < 0 THEN 0 ELSE since), Duration)

QuietLongEnough == Period + RepublishInterval + 1

(* Ages beyond MaxExtrapolation are all alike, and the age of what the     *)
(* plugin got matters only while that plays.                               *)
Elapse ==
    /\ pollIn > 0 /\ republishIn > 0 /\ answerIn # 0
    /\ pollIn' = pollIn - 1 /\ republishIn' = republishIn - 1
    /\ answerIn' = IF answerIn = NoAnswer THEN NoAnswer ELSE answerIn - 1
    /\ age' = IF adapter = "mock" THEN age + 1 ELSE Smaller(age + 1, MaxExtrapolation + 1)
    /\ since' = IF got.status = "playing" THEN since + 1 ELSE since
    /\ quiet' = IF Regime(status, position, age') = Regime(status, position, age)
                THEN Smaller(quiet + 1, QuietLongEnough) ELSE 0
    /\ UNCHANGED <<adapter, track, status, position, store, got, moves>>

Next ==
    \/ Report
    \/ \E t \in 0..(Tracks - 1), s \in Statuses, p \in 0..Duration : Move(t, s, p)
    \/ \E d \in ClockSteps : ClockStep(d) \/ ClockStep(-d)
    \/ CommandMock \/ CommandWindows
    \/ Poll \/ TickPassed \/ Republish \/ Answer \/ Elapse

Spec == Init /\ [][Next]_vars

-----------------------------------------------------------------------------
Positions == NoPosition..Duration

Records == [track : 0..(Tracks - 1), status : Statuses, position : Positions]

(* Every position stays between nothing and the end of the track, and      *)
(* every delay within its interval.                                        *)
TypeOK ==
    /\ adapter \in {"windows", "mock"}
    /\ track \in 0..(Tracks - 1) /\ status \in Statuses
    /\ position \in 0..Duration /\ age \in Int
    /\ pollIn \in 0..Period /\ republishIn \in 0..RepublishInterval
    /\ answerIn \in {NoAnswer} \union 0..Settle
    /\ store \in Records /\ got \in Records
    /\ since \in Int
    /\ quiet \in 0..QuietLongEnough /\ moves \in 0..MaxMoves

(* Although the samples that go on from one another are not sent, and the  *)
(* plugin's clock goes on from a state that may be a sample old, what is   *)
(* shown of a track that plays comes, and stays, within one sampling       *)
(* period of the player, and never ahead of it.                            *)
Recalibrated ==
    quiet = QuietLongEnough /\ Regime(status, position, age) = "live" =>
        /\ got.track = track
        /\ Head - Period <= Shown /\ Shown <= Head

(* A player that has not reported for long is not made to progress: what   *)
(* is shown goes back to its report at each republication.                 *)
NotInvented ==
    quiet = QuietLongEnough /\ Regime(status, position, age) = "bare" =>
        /\ got.track = track
        /\ position <= Shown /\ Shown <= position + RepublishInterval
=============================================================================
