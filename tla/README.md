# Formal model of the Deezer plugin for Stream Deck

The repository controls Deezer Desktop from a Stream Deck. It has two programs:

* the **bridge** (`apps/bridge`, Rust) observes and drives the player through the Windows
  media sessions and serves what it sees on a local HTTP and WebSocket API;
* the **plugin** (`apps/streamdeck-plugin`, TypeScript on Node.js) launches the bridge,
  follows its state and draws the keys.

This directory holds TLA+ models of both, the TLC configurations that check them on small
instances, and proofs, checked by TLAPS, of their main safety properties for every value of the
constants. `PROJECT.json` relates each definition to the lines it models.

## 1. Inventory

Paths are relative to `apps/bridge/src` (bridge) and `apps/streamdeck-plugin/src` (plugin).

| Component | State | Operations | Talks to | Hard behaviour |
|---|---|---|---|---|
| Playback store (`store.rs`) | published state and its sequence number, last sample, artwork vector and index | `apply`, `republish`, `current`, `artwork`, `subscribe` | adapter, republisher, API, WebSocket tasks | lock released before the event is sent; significance of a sample; eviction |
| WebSocket stream (`api/ws.rs`) | `ws_clients`, one receiver per client | `handler`, `serve`, `send` | store's broadcast channel, plugin | subscription against initial state; lag; client limit; exits of `serve` |
| HTTP API (`api/mod.rs`, `api/auth.rs`) | none of its own | state, artwork, commands | store, adapter | the reply to a command is read a fixed time after it |
| Bridge lifecycle (`lib.rs`) | `ProcessLock`, `RuntimeFile`, adapter, tasks | `bind`, `serve`, drop | files, adapter, API | order of drops; shutdown waits for the adapter |
| Lock, runtime file, parent watch (`runtime.rs`) | two files | `acquire`, `write`, drops, `watch_parent` | other bridges, plugin | no atomic test and create; kills; pid reuse |
| Windows adapter (`adapters/windows_media.rs`) | manager, misses, learned capabilities, artwork of the current track, message channel | `execute`, `shutdown`, `publish`, `refresh_manager` | WinRT, Deezer, store, API | every WinRT call can fail; the track changes inside a read; callers give up |
| Simulated player (`adapters/mock.rs`) | player, `last_tick` | `run_loop`, `tick`, `execute` | store, API | its rhythm against the replies and the plugin's clock |
| Application volume (`adapters/app_volume.rs`) | none | get and set the mixer volume | Core Audio | none |
| Contract (`packages/playback-contract`) | none | `isNewerState`, `effectivePositionMs` | plugin | order of states; a position that goes on by itself |
| Bridge manager (`bridge-manager.ts`) | status, child, info, restart times, start promise | `ensureRunning`, `start`, `stop`, `reconnect`, `restartIfAllowed` | bridge processes, runtime file, `/health` | one thread that interleaves at every `await` with exit and error events |
| Bridge service (`bridge-service.ts`) | socket, state, artwork cache, retry delay | `openSocket`, `closeSocket`, `scheduleReconnect`, `applyState`, `post`, `restart`, `dispose`, `artworkDataUrl` | bridge, keys | several bridges in succession, late replies |
| Keys (`actions/*.ts`) | visible keys, `transientTimers` | appear, press, `flash`, `render` | service | renderings that overtake each other; messages that overlap; repeated presses |
| Settings and token (`plugin.ts`, `settings.ts`, Property Inspector) | global settings | create and rotate the token | manager, service | settings written from stale copies |

What makes each of them correct:

* **store and stream**: a sequence number stands for one content; subscribers move forward only;
  once nothing is in flight the plugin shows the last change; it catches up while its connection
  lasts; clients are counted exactly; the artwork that the state names can be fetched.
* **processes**: two bridges never run together; the lock names its holder; no leftover file
  keeps a bridge out or sends the plugin to another process; no bridge outlives its plugin.
* **manager**: status and connection agree; a bridge that runs is not given up unasked; the
  connection is that of the child; `start` ends; the death of the child is answered.
* **service**: one socket at most is listened to, and it leads to the present bridge; a ready plugin
  reaches the stream again whatever breaks; nothing is reopened after `dispose`; no state of an
  earlier bridge is shown as the present one's.
* **adapter**: what the player plays gets published; a declined command is not offered again; a
  success is never reported for a command not carried out; the thread ends on shutdown; the
  artwork is that of its track.
* **keys**: a key that is redrawn ends with the present state and its own artwork; a message goes,
  and no key stays suspended; the plugin's artwork cache is bounded and holds what its keys name.
* **positions**: what a key shows of a track that plays is at most one sampling period behind the
  player and not ahead of it; the report of a silent player is exceeded by one republication at
  most.

The hazards are listed, with their lines, in `PROJECT.json`.

## 2. Modules

| Module | Models | Kind |
|---|---|---|
| `ArtworkShelf` | a bounded shelf of images, one of them shown | abstract specification |
| `ArtworkCache` | the artwork vector and index of the store | implements `ArtworkShelf` |
| `PublishedFeed` | a log of contents and a reader that only moves forward in it | abstract specification |
| `EventStream` | store, republisher, WebSocket tasks, plugin's reception | implements `PublishedFeed` |
| `BridgeLife` | what the plugin sees of the bridge processes | abstract specification |
| `BridgeProcess` | bridge processes, lock, runtime file, parent watch | implements `BridgeLife` |
| `ManagerView` | what the service sees of the manager | abstract specification |
| `BridgeManager` | the plugin's supervisor | over `BridgeLife`, implements `ManagerView` |
| `BridgeService` | the plugin's socket, timer and state over successive bridges | over `ManagerView` |
| `CommandCalls` | what a caller of a command may count on | abstract specification |
| `MediaWorker` | the thread of the Windows adapter, its channel, its callers | implements `CommandCalls` |
| `Keys` | the key that shows the track, its messages, the plugin's artwork cache | component |
| `Positions` | discrete time: the position from the player to the key, through both adapters | component |
| `*Proofs` | theorems and proofs of the module of that name | proofs |

**ArtworkCache.** `artworks` and `artwork_index` are the vector and the map of `StoreInner`.
A key is derived from the bytes of its image, so a key stands for its image. `cache_artwork` is
split as the code reads: `Full`, `Kept`, `KeptIndex`, `InsertArtwork`. The refinement to
`ArtworkShelf` maps the shelf to the keys that can be fetched *through* the index.

**EventStream.** `apply` and `republish` clone an event under the lock and send it after the
lock is released: `Apply` and `Republish` fill `outbox`, and `SendEvent` empties it later, so
sends can be reordered. The broadcast channel keeps `Capacity` events per receiver and drops the
oldest. A `serve` task goes through `upgrading`, `subscribed`, `streaming`, `leaving`. The wire
of each connection is a bounded queue; a client that does not read blocks `Forward`. The plugin
keeps `socket` and `view`; answers to commands travel apart, in any order (`replies`).
`published` is a history variable, the content under each number.

**The three layers of the plugin's supervision** are separated by two contracts, each used from
above as the environment and shown from below as a refinement:

    BridgeProcess  implements  BridgeLife     the processes under BridgeManager
    BridgeManager  implements  ManagerView    the manager under BridgeService

`BridgeLife` has five steps: a process is started, begins to serve (and is named in the runtime file
from then on), withdraws, removes the file, or ends without removing anything. `ManagerView`
has the status, the connection, whether a start is under way, and whether the bridge of the
connection has ended (`lost`): its main clause is that the connection to a bridge that runs is only
given up at the plugin's own request. The status does not tell whether a start is under way: `start()`
begins from any status but "ready", and one that throws leaves the status as it is. The actions of `BridgeManager` and `BridgeService` that stand
for the layer below are the contract's own (`Life!Serve`, `Manager!Ready`), so what is assumed above
is what is shown below. `BridgeLife` has a parameter, `Exclusive`: bridges begin to serve alone.
`BridgeProcess` implements it with `Exclusive` when startups do not overlap (`MaxStarting = 1`), and
without it for any number of startups at once. The manager is modelled without it, since a start that times out leaves a process
behind, and the next start overlaps with it; its properties do not depend on the lock.

**BridgeProcess.** Every file operation of `acquire`, of `bind` and of the drops is a step; a
process may be killed between any two; a dead pid may come back as another program. `linked`
tells whether the lock file a process has open is still the one in the directory. `parents` are the
pids in use among those of the plugins that launch bridges, by a plugin or by another program:
`watch_parent` cannot tell, and `LookAtParent` and `LookAgain` are its two looks, `grace` apart.

**BridgeManager.** The manager is one thread, so a step is the code between two `await`s.
`start` is the place of the only start under way ("token", "poll", "probe", "answered");
`waited` and `target` are the child it waits for and the bridge whose port it read.
A start ends in one of four ways: `Ready`, `Incompatible`, `TimedOut`, or `StartThrows`, when the
token cannot be read or `spawn` throws; the last leaves the status, mostly "starting", and the child as
they were. An error that comes as an event (`SpawnFails`) ends nothing: the wait goes on without a pid.
`StartErrors` says whether these two happen. `EnsureRunning` is the common end of the calls that reach it: the connection is at hand, the
start under way is joined, or one begins. `relaunching` counts the `restartIfAllowed` calls in
their delay. `stop` gives up the child and the connection at once and then waits: `stopping` holds
the children waited for. A child that has ended is `unreported` until its exit event is handled.
`Dispose` is `stop` called by the service when the plugin exits; what was under way goes on. The
processes are those of `BridgeLife`: in particular a bridge of an earlier session may remove the
runtime file after the present one has written it, and the start then ends at its deadline.

**BridgeService.** Where `EventStream` follows the messages of one bridge, this module follows the
service over several. `info`, `status` and `starting` are what it sees of the manager, and change by
the steps of `ManagerView`. `socket`, `timer` and `view` are the service's fields; a WebSocket object has a `phase` as long as it has listeners. A state is reduced to
the bridge it comes from and its number, since `isNewerState` compares only numbers. A broken socket
can still deliver what it had received before its close event comes.

**MediaWorker.** `pc` follows the thread; `track` and `fresh` are the player and whether the
session manager at hand shows it. Every WinRT call may fail where the code makes it: the manager is not
obtained, no session is selected although one is shown (`PublishNone`, `PublishNoneAndRefresh`), its
read ends with an error (`ReadFails`) or without title and artist (`FinishReadUntitled`). Reading a session is two steps, the properties and then the
thumbnail, because the track may change between them. `inbox` is the mpsc channel; `phase` gives
the place of each HTTP caller, who gives up after five seconds (`TimeOut`); an answer, good or bad, that finds its caller waiting makes
it ask for a refresh (`CallReturns`). `performed` counts how often the
player carried a command out. In `CommandCalls` an answer still on its way is a pending call, and a
refusal, a lost answer and a timeout are failures, after which the command may still be carried out.

**Keys.** A step is the code between two `await`s of the plugin's one thread. Each rendering under
way has a slot: it takes a snapshot, awaits the settings ("settings"), perhaps a download ("fetch"),
sets the image and awaits the end of that before it clears the title ("title"). `artworkDataUrl`
reads the state again, so the path downloaded may not be the snapshot's. The two `await`s of the
settings in one rendering are one, since nothing is read between them. `entry` is the key's timer in
`transientTimers`: "live", "cleared" (`flash` clears a timer but leaves it in the map until its
`await` is over) or none; `strays` counts the live timers that another call of `flash` has
overwritten. `showArtworkOnKeys` is a constant, and a missing connection, without which no artwork
is fetched, appears as a state without artwork. Images of transport and volume keys are set before
any `await` and cannot overtake each other.

**Positions.** Delays count down, and time passes (`Elapse`) only when none is over. A message
arrives in the instant in which it is sent, because its order is the subject of `EventStream`. One
subscriber is connected throughout. Both adapters are covered: `windows`, where the player is behind
a session that reports a position from time to time, whose age is measured with the system's clock;
and `mock`, where the adapter is the player and `age` is the time since `last_tick`. `Move` is
whatever happens to the player by the user's hand or as the effect of a command, `ClockStep` a step of
the system's clock in either direction. `quiet` is a history variable, the time since anything but
time itself changed the situation; `Regime` tells samples that go on with time ("live") from
those of a report too old or too young to be extrapolated ("bare"). The duration of a track is known
and a player is present; its absence is the subject of `MediaWorker`. `Significant`,
`ExtrapolatePosition` and `Shown` translate the three functions of those names or purposes.

## 3. Runs

| Run | Result | What it shows |
|---|---|---|
| `artwork_cache` | pass | vector and index agree after every mix of hits and evictions; the shown artwork is served; the shelf is implemented |
| `event_stream` | pass | numbers identify contents; the last change is shown or under way; clients are counted; the feed is implemented; the plugin catches up while its connection lasts |
| `process_lock` | pass | one startup at a time: the lock works, `BridgeLife` is implemented (the runtime file included), orphan locks are recovered, and a bridge does not outlive its parent |
| `process_overlap` | violation | `runtime.rs:26`: two startups at once both hold the lock |
| `manager` | pass | `ManagerView` is implemented; the connection is that of the child; `start` ends; the death of the child of a ready plugin is answered |
| `manager_doomed` | violation | `bridge-manager.ts:4`: an exit during `start` is not followed by a relaunch |
| `bridge_service` | pass | one socket, to the present bridge; never ready and deaf; nothing after `dispose`; the stream is reached again |
| `bridge_service_stale` | violation | `index.ts:143`: a late state of the previous bridge is shown as the present one's |
| `media_worker` | pass | lessons kept, the contract of a call kept (`CommandCalls`), tracks published, shutdown completes |
| `media_thumbnail` | violation | `windows_media.rs:164`: the next track's artwork is cached for the previous one |
| `keys` | pass | the cache is bounded and truthful; no key stays suspended; messages go; a playing state ends up on the key with its artwork |
| `positions` | pass | a key is one sampling period behind the player at most, and never ahead, once a while has passed since the last disturbance; an old report is not prolonged |

Bounds, and why they are enough:

* `artwork_cache`: five keys for three places. Every artwork of the cache can be evicted and come
  back, and the shift of the positions meets the first, middle and last place.
* `event_stream`: one connection slot, reused; a channel of two events that carries two changes,
  their republications and failed commands, so that a receiver lags; one message on the wire, so
  that sends block; positions within the tolerance, so that republication differs from a change.
  The slot is the plugin's or another client's, and the plugin reconnects in it. `MaxSequence`,
  `MaxReplies` and `WireCapacity` are bounds of the model; what several connections could do to
  each other is only the counter, and the theorem on the counter holds for any number.
* `process_lock`: three pids, so that a bridge, its predecessor and another program meet;
  `MaxStarting = 1`, the assumption under which the lock works; one pid for the parents, which is
  the same plugin, a later one or another program. `process_overlap` has 2 startups.
* `manager`: an orphan and two bridges whose identifiers are given again once nothing refers to them,
  two restarts (`MAX_RESTARTS` is 3; what matters is to be below, at and beyond the limit), two calls of the rest of the plugin at any time, and
  `dispose` at any point, with `StartErrors`. The orphan may be at any stage of its life when the plugin starts.
* `bridge_service`: two bridges, the second counting from 0 while messages and replies of the first
  are on their way; two sockets, so that one could be forgotten while another is open; numbers up to
  2, so that a state of the first bridge hides several of the second; one message per socket.
* `media_worker`: two tracks, one caller slot, reused, two commands the adapter learns about,
  `RefreshTicks` 2. The session declares Previous or nothing, from one read to the next, so that a
  command that once worked, or failed, is later declared or not. That Previous is assumed when Next is
  declared is left to `media_thumbnail`, whose session declares Next, and to the proof of `LessonKept`,
  which is for all `Declarations`: with Next declared too the run would exceed its time. The thumbnail
  of a track is only in `media_thumbnail`, where one track of two has one.
* `keys`: one key, since keys share only the cache; a cache of one image for two paths
  (`ARTWORK_CACHE_SIZE` is 4), so that every download evicts; two renderings under way
  (`MaxRenders`), so that they overtake each other; three events (`MaxEvents`): enough for two
  overlapping messages and a change of state between them, or for a state, its replacement and a
  message. The proofs hold for any number of each.
* `positions`: one unit is about 200 ms; the intervals are in the code's order (settling, tick,
  sample, republication: 150, 250, 400 and 1000 ms), settling and tick being due in the same
  instant in either order. The durations, of seconds in the code, are scaled down and remain beyond
  all intervals: the tolerance of 1.5 s is larger than a republication and smaller than the
  longest extrapolation, as in the code. A step of the clock by 8 leaves what may be extrapolated, in
  both directions. Two disturbances of any kind (`MaxMoves`), at every phase of the three timers; a
  third would only start `quiet` again. The proofs hold for all values of these constants.

`CHECK_DEADLOCK FALSE` is used for the manager and the adapter, which do stop (a stopped plugin
with no call left, a thread after its shutdown), and for the keys, which are still once the events
are used up and there is no player.

### Fairness

* `EventStream`: the store's senders, the republisher's sends, the `serve` tasks and the plugin's
  reception are scheduled by tokio and Node.js; the player owes nothing, and neither do
  connections. `CatchesUp` holds only as long as the connection does.
* `BridgeProcess`: a process that runs completes its startup or its shutdown, and `watch_parent`
  takes its looks; nothing forces a process to be launched, stopped or killed, nor a parent to end.
* `BridgeManager`: timers fire, exit events are delivered, and pending calls resolve or reject. Those
  to `/health` have a timeout in the code. The token read (`bridge-manager.ts:120`) has none: that it
  ends is an assumption about Stream Deck, without which `StartConcludes` does not hold. Nothing forces
  a bridge to boot or to live.
* `BridgeService`: timers fire, close events and messages are delivered, a connection attempt is
  accepted or refused, and a bridge that lives does not refuse all of them (strong fairness on
  acceptance). Starts, restarts and the life of bridges are not fair.
* `MediaWorker`: the thread runs, and each of its waits for WinRT ends (weak fairness; `block_on` has no
  timeout, so this is an assumption about Windows). WinRT calls that are made again at each tick do
  not fail every time (strong fairness): a manager is obtained (`AcquireSucceeds`); a new one is obtained
  when the one at hand does not show the session; a session that is shown is selected
  (`ReadProperties`), that is `GetSessions`, `Size` and the name of the application are read; and a
  session that is read gives its title (`FinishRead`). `TrackPublished` needs all four, since a call that
  fails at every tick keeps the track from the store; `ShutdownCompletes` needs none of them.
* `Keys`: awaited calls end and do not reject (the catches of `base.ts:35`, `64` and `70` are not
  modelled, and a key whose rendering or title was refused is outside of what is shown; the download has a timeout of three seconds), timers fire, and not
  every download of an artwork fails (strong fairness of `Fetched`). Strong rather than weak fairness
  of `Tick`, `TimerFires` and `StrayFires` only makes up for `MaxRenders`, which at times disables
  them in the model and never in the code. State changes, presses and appearances are not fair.

`Positions` needs no fairness: its properties say within what time something is true.

### Deviations met while modelling

Four runs show a disagreement between the code and what a comment or a test says of it; the
findings quote the lines. The models also contain other behaviours that a maintainer may want to
know, which have no run of their own:

* after a resynchronisation the older events that the channel retained are still sent, contrary to
  the comment; the plugin's sequence filter hides it (`ws.rs:66`);
* two WebSocket handshakes that read `ws_clients` before either increments it exceed
  `MAX_CLIENTS` (`ws.rs:23`);
* a paused player that moves by less than the tolerance at each sample drifts from what
  subscribers show, since a sample is compared with the previous one (`store.rs:107`);
* `Bridge` drops its lock before its runtime file, so a bridge that starts in between has its
  runtime file removed (`lib.rs:36`);
* a rejected token read or a `spawn` that throws ends `start()` with the status left at "starting": keys
  show a start until the next call of `ensureRunning`, and nothing is under way
  (`bridge-manager.ts:120`, `122`);
* after a failed spawn the wait goes on without a pid, and accepts the port of an earlier
  session's bridge (`bridge-manager.ts:208`);
* only the child is watched, against `bridge-manager.ts:4`: a plugin made ready by such a bridge, or by
  one that ended between its answer to `/health` and the assignment of `info`, stays ready when there
  is no bridge any more, until a restart is asked for (`bridge-manager.ts:150`);
* a rotation of the token restarts the bridge "with the new one" (`plugin.ts:135`), but the restart joins
  a start under way that has read the previous one, and the new token waits for the start after that;
* a program that takes the pid of the plugin before both looks of `watch_parent` keeps the orphan
  bridge, and its lock, for as long as it lives (`runtime.rs:97`);
* a start that times out leaves its process running, and the next one forgets it
  (`bridge-manager.ts:226`);
* a command whose caller gave up is still carried out (`windows_media.rs:142`);
* the absence of an artwork is not remembered, contrary to the comment (`windows_media.rs:432`);
* the simulated player publishes every 250 ms and the answer to a command leaves after 150 ms, so
  that the answer often shows the state before the command, which `tests/api.rs:140` excludes; the
  next tick makes up for it;
* a paused state is drawn once: if the artwork of an earlier one comes later, the key keeps the
  earlier one (`base.ts:35`);
* the image of a key may combine the texts of one state with the artwork of the next, since
  `artworkDataUrl` reads the state again (`bridge-service.ts:176`);
* a rendering that began before a short message erases it when it ends (`info.ts:80`), and a timer
  that another call of `flash` overwrote cuts the next message short (`base.ts:68`);
* two presses on a volume key before the state is back ask for the same volume (`transport.ts:111`);
* a player that reports its position less often than every `MAX_EXTRAPOLATION_MS` makes the shown
  position go forward and fall back at each republication (`windows_media.rs:616`);
* a seek of the simulated player does not reset `last_tick`, so that it lands up to a tick beyond
  its target; on Windows the position 0 is no position (`windows_media.rs:564`).

## 4. Proofs

The theorems below hold for every value of the constants allowed by the named assumptions of the
modules.

| Module | Theorems | Argument |
|---|---|---|
| `ArtworkCacheProofs` | `TypeCorrect`, `IndexConsistent`, `CurrentFetchable`, `CacheImplementsShelf` | `CacheInv`: types, agreement of vector and index, and that the shown key is indexed. The agreement is not inductive alone: the shift after an eviction needs the vector's bound. The refinement shows that what the index serves changes by at most one key out and one in. |
| `EventStreamProofs` | `TypeCorrect`, `SequenceSound`, `StreamImplementsFeed`, `LastChangeReaches`, `NothingLost`, `ClientCountExact` | `SequenceIdentifiesContent` is strengthened by `SampleIsState`: the last sample has the content of the state, so a republication never sends a content under a number that is not its own. `NoLostUpdate` is not inductive: `LastChangeShownOrUnderWay` says that the last change is shown, or in the adapter's outbox, the queue or the wire, or that the receiver knows that it lagged. |
| `BridgeProcessProofs` | `TypeCorrect`, `ProcessImplementsLife`; with `MaxStarting = 1`: `LockKept`, `OneBridgeAtATime`, `RuntimeTrusted` | `LockInv`: startups do not overlap; a process that creates the lock does so when no bridge holds it; the file it writes is the one in the directory; the lock names its holder. The refinement, which needs no such hypothesis, maps each step of a process to one of `BridgeLife` or to none; that it begins to serve alone if startups do not overlap is where `LockInv` is used. |
| `BridgeManagerProofs` | `TypeCorrect`, `StatusMatchesInfo`, `ConnectionIsOfChild`, `ManagerImplementsView`, `ExitPendingInvariant` | `StatusInv`: there is no connection while a start is under way, and a start that probes has a bridge. That a start is under way while the status says "starting" is not true, and not needed. `ChildInv`: a start that polls waits for the child if there is one, and probes no other bridge; with it, the exit of the child is the exit of the bridge of the connection, which the refinement needs. `ExitPending`: a child that has ended is still unreported, because an identifier is not given again before its exit event. |
| `BridgeServiceProofs` | `TypeCorrect`, `OneSocketAtATime`, `NeverDeaf`, `SocketFollowsBridge`, `DisposedForGood` | `SocketInv`, the four properties together with the agreement of status and connection: none is inductive alone, since the close event of a socket the service no longer knew would set the timer again, after `dispose` included. |
| `MediaWorkerProofs` | `TypeCorrect`, `LessonKept`, `SuccessIsReal`, `ChannelImplementsCalls`, `NoCallerForgotten`, `ShutdownNotLost` | `LessonKept` is inductive over the types. `PostedOnce` is what at-most-once rests on: a request is in the channel once at most, and while it is there it has not been carried out; the converse, `CallersServed`, says that a caller that waits has its request there, and that a thread that has ended left nothing. `ShutdownNotLost` is an action property that follows from it. |
| `KeysProofs` | `TypeCorrect`, `ArtworkIsOfPath`, `NeverFrozen`, `MessagesAreTemporary` | the size of the cache is inductive only with the test before the insertion, and the truth of the cache with the types of the renderings; `NeverFrozen` needs that every call of `flash` between its two halves is counted; `MessagesAreTemporary` that a timer, before it is gone, has started a rendering, and that a rendering only ends by clearing the title. |
| `PositionsProofs` | `TypeCorrect`, `ShownFollowsPlayer`, `ReportNotExceeded` | `IInv`: types; `Sampled`, the store's state is the player's of at most one period ago, as soon as it has been quiet for a period; `Sent`, what the plugin got is a state of the store that has since gone on as the plugin supposes, or one that the next republication replaces. The two properties follow for `quiet` beyond a period and a republication, and neither is inductive alone: they speak of the player and the plugin, and only the store relates them. |

`MaxStarting = 1` is a hypothesis of three theorems and not a fact about the code:
`process_overlap` shows what happens without it.

Some invariants are proved and not listed in a run, because a property of the run contains them or
because they are the safety half of one: `StatusMatchesInfo` (in `ImplementsView`), `RuntimeTrusted`
(in `ImplementsLife`), `SuccessIsReal` (in `ImplementsCalls`), `ExitPending` (of `CrashAnswered`),
`MessageEndsUnderWay` (of `MessageRestored`), `CallersServed` and `StopHeeded` (of
`ShutdownCompletes`). What the liveness property adds to its safety half is that events are
delivered, timers fire and threads go on, which is the fairness stated above.

Only model-checked: liveness (`CatchesUp`, `OrphanLockRecovered`, `OrphanEnds`, `StartConcludes`,
`CrashAnswered`, `Reconnects`, `TrackPublished`, `ShutdownCompletes`, `MessageRestored`,
`PlayingShown`), because TLAPS handles neither fairness nor `ENABLED` here, and the violations,
which are counterexamples. No module declares a RECURSIVE operator; what a recursive definition computes for all inputs could not be
proved by induction with the installed provers.

## 5. Not modelled

* Authentication (stateless tests), configuration, logs, the Core Audio calls, the drawing and
  wording of keys, and the build scripts keep no state whose evolution could go wrong. Bodies of
  requests are reduced to the commands they carry.
* The choice among several media sessions is a function of what Windows lists; the models take
  its outcome, a session or none, as an input. The flaky mode of the simulated player amounts to the
  disappearance of the player, which `MediaWorker` has.
* The token and the settings are kept by Stream Deck. What two writers do to each other depends on
  the order in which it serves them, which is not in this code.
* Volume steps: a press computes an absolute volume from the state it sees, and the bridge does
  what it is told.

## 6. Plan

Done, in this order: `ArtworkCache`, `EventStream`, `BridgeProcess`, `BridgeManager`,
`BridgeService`, `MediaWorker`, `Keys`, `Positions`, each with its proofs; then the contracts
`BridgeLife`, `ManagerView` and `CommandCalls`, with their refinements. Next:

1. `Settings`: creation and rotation of the token against a start under way, with an external
   model of Stream Deck's order of requests. Property: bridge and plugin agree on the token once
   nothing is in flight.
2. `SessionChoice`: the selection of a media session as a function of the sessions present,
   against a reference definition.
3. Proofs: the safety halves of `TrackPublished` (the count of misses reaches the refresh), of
   `OrphanLockRecovered` and of `StartConcludes`; and a view of the keys as an abstract screen.

Every new module gets its own proofs in the way of the existing ones; a run is replaced rather
than added where two of them answer the same question.
