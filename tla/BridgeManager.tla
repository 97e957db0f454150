----------------------------- MODULE BridgeManager -----------------------------
(***************************************************************************)
(* BridgeManager (apps/streamdeck-plugin/src/bridge-manager.ts): the       *)
(* plugin's supervisor of its bridge.  Its methods run on one thread and   *)
(* interleave at every await: start() while the token is read and while    *)
(* /health is polled, stop() until the process is gone, restartIfAllowed() *)
(* during its delay; and the exit of a process is an event that comes at   *)
(* any of these points.                                                    *)
(*                                                                         *)
(* Bridge processes and their runtime file do here whatever BridgeLife     *)
(* allows; BridgeProcess has the detail.  Startups may overlap, since a    *)
(* start that times out leaves its process behind.  Orphan is a bridge of  *)
(* an earlier session, still running, ending, or only named in the file.   *)
(* Deadlines and delays are steps that come after any time.                *)
(***************************************************************************)
EXTENDS Naturals, FiniteSets

CONSTANTS
    Bridges,      \* bridge processes
    Orphan,       \* the one left by an earlier session
    Unspawned,    \* a ChildProcess whose process could not be created
    None,
    MaxRestarts,  \* MAX_RESTARTS
    StartErrors,  \* whether the token or the process can fail to be had
    MaxCalls      \* bound on the calls of the rest of the plugin

ASSUME BridgeAssumption ==
    /\ Orphan \in Bridges
    /\ Unspawned \notin Bridges /\ None \notin Bridges /\ None # Unspawned
ASSUME LimitAssumption == MaxRestarts \in Nat /\ MaxCalls \in Nat
ASSUME ErrorsAssumption == StartErrors \in BOOLEAN

VARIABLES
    status, child, info, restarts,  \* the fields of BridgeManager
    start,        \* where the one start() under way stands; "none": no promise
    waited,       \* the child start() waits for
    target,       \* the bridge whose port it probes
    late,         \* HEALTH_TIMEOUT_MS have passed
    stopping,     \* children whose exit a reconnect() waits for; None: it only yields
    relaunching,  \* restartIfAllowed() calls in their delay
    life, runtime,  \* the processes and their runtime file
    unreported,   \* children that have ended, before their exit event
    installed,    \* the binary is in the plugin's directory
    disposed,     \* the plugin is about to exit
    calls

manager == <<status, child, info, restarts>>
starting == <<start, waited, target, late>>
system == <<life, runtime, unreported>>
vars == <<manager, starting, stopping, relaunching, system, installed, disposed, calls>>

Statuses == {"stopped", "starting", "ready", "failed"}

Init ==
    /\ status = "stopped" /\ child = None /\ info = None /\ restarts = 0
    /\ start = "none" /\ waited = None /\ target = None /\ late = FALSE
    /\ stopping = {} /\ relaunching = 0
    /\ \E stage \in {"gone", "booting", "serving", "ending"} :
          life = [b \in Bridges |-> IF b = Orphan THEN stage ELSE "gone"]
    /\ runtime \in {None, Orphan}
    /\ unreported = {}
    /\ installed \in BOOLEAN
    /\ disposed = FALSE
    /\ calls = 0

Life == INSTANCE BridgeLife WITH Processes <- Bridges, NoFile <- None,
                           Exclusive <- FALSE

Alive(b) == life[b] # "gone"

(* There is a child and its exitCode is null: it has one as soon as its    *)
(* exit or its failure to spawn is reported.                               *)
NotReaped(c) == c \in Bridges /\ (Alive(c) \/ c \in unreported)

(* ensureRunning, from a given value of status and info: the answer is at  *)
(* hand, or the start under way is joined, or start() runs to its first    *)
(* await, or to its failure when there is no binary.                       *)
EnsureRunning(st, inf) ==
    \/ /\ st = "ready" /\ inf # None
       /\ status' = st
       /\ UNCHANGED starting
    \/ /\ ~(st = "ready" /\ inf # None)
       /\ start # "none"
       /\ status' = st
       /\ UNCHANGED starting
    \/ /\ ~(st = "ready" /\ inf # None)
       /\ start = "none" /\ installed
       /\ status' = "starting"
       /\ start' = "token"
       /\ UNCHANGED <<waited, target, late>>
    \/ /\ ~(st = "ready" /\ inf # None)
       /\ start = "none" /\ ~installed
       /\ status' = "failed"
       /\ UNCHANGED starting

-----------------------------------------------------------------------------
(* A key was pressed, or the plugin has just connected.                    *)
CallEnsureRunning ==
    /\ calls < MaxCalls
    /\ calls' = calls + 1
    /\ EnsureRunning(status, info)
    /\ UNCHANGED <<child, info, restarts, stopping, relaunching, system, installed, disposed>>

(* stop up to its await.                                                   *)
Stop ==
    /\ child' = None
    /\ info' = None
    /\ status' = "stopped"

(* reconnect up to the await of stop: the history of restarts is forgotten *)
(* and a process that runs is waited for.                                  *)
Reconnect ==
    /\ calls < MaxCalls
    /\ calls' = calls + 1
    /\ restarts' = 0
    /\ Stop
    /\ stopping' = stopping \union {IF NotReaped(child) THEN child ELSE None}
    /\ UNCHANGED <<starting, relaunching, system, installed, disposed>>

(* The rest of reconnect: the process is gone, or two seconds have passed  *)
(* and it got SIGKILL.                                                     *)
StopReturns(c) ==
    /\ c \in stopping
    /\ stopping' = stopping \ {c}
    /\ EnsureRunning(status, info)
    /\ UNCHANGED <<child, info, restarts, relaunching, system, installed, disposed, calls>>

(* The plugin ends: stop, and nothing after it.                            *)
Dispose ==
    /\ ~disposed /\ disposed' = TRUE
    /\ Stop
    /\ UNCHANGED <<restarts, starting, stopping, relaunching, system, installed, calls>>

-----------------------------------------------------------------------------
StartEnds ==
    /\ start' = "none"
    /\ waited' = None /\ target' = None
    /\ UNCHANGED late

(* tokenProvider rejects, or spawn throws: start() is over before there is *)
(* a process, and the status and the child stay as they are.               *)
StartThrows ==
    /\ StartErrors
    /\ start = "token"
    /\ StartEnds
    /\ UNCHANGED <<manager, stopping, relaunching, system, installed, disposed, calls>>

Free(b) ==
    /\ b # Orphan
    /\ b \notin {child, info, waited, target} \union stopping \union unreported

(* The token is there and the process is created.                          *)
Spawn(b) ==
    /\ start = "token"
    /\ Free(b)
    /\ Life!Start(b)
    /\ child' = b
    /\ waited' = b
    /\ late' = FALSE
    /\ start' = "poll"
    /\ UNCHANGED <<status, info, restarts, target, stopping, relaunching, unreported, installed, disposed, calls>>

(* The process is not created: the error event follows at once, and the    *)
(* wait goes on without a pid.                                             *)
SpawnFails ==
    /\ StartErrors
    /\ start = "token"
    /\ child' = Unspawned
    /\ waited' = Unspawned
    /\ late' = FALSE
    /\ status' = "failed"
    /\ start' = "poll"
    /\ UNCHANGED <<info, restarts, target, stopping, relaunching, system, installed, disposed, calls>>

(* Faulty variant: any pid in the runtime file will do.                  *)
PollAnyPid ==
    /\ start = "poll" /\ ~late
    /\ runtime # None
    /\ target' = runtime
    /\ start' = "probe"
    /\ UNCHANGED <<manager, waited, late, stopping, relaunching, system, installed, disposed, calls>>

(* waitForHealth: the runtime file names the process it waits for.         *)
Poll ==
    /\ start = "poll" /\ ~late
    /\ runtime # None
    /\ waited = Unspawned \/ runtime = waited
    /\ target' = runtime
    /\ start' = "probe"
    /\ UNCHANGED <<manager, waited, late, stopping, relaunching, system, installed, disposed, calls>>

(* /health is answered; the answer is on its way back.                     *)
HealthAnswered ==
    /\ start = "probe"
    /\ life[target] = "serving"
    /\ start' = "answered"
    /\ UNCHANGED <<manager, waited, target, late, stopping, relaunching, system, installed, disposed, calls>>

(* Faulty variant: the deadline is moved at every attempt.               *)
ProbeFailsMovesDeadline ==
    /\ start = "probe"
    /\ start' = "poll"
    /\ target' = None
    /\ late' = FALSE
    /\ UNCHANGED <<manager, waited, stopping, relaunching, system, installed, disposed, calls>>

(* Refused, not ready, or no answer in two seconds.                        *)
ProbeFails ==
    /\ start = "probe"
    /\ start' = "poll"
    /\ target' = None
    /\ UNCHANGED <<manager, waited, late, stopping, relaunching, system, installed, disposed, calls>>

(* The end of start().                                                     *)
Ready ==
    /\ start = "answered"
    /\ info' = target
    /\ status' = "ready"
    /\ StartEnds
    /\ UNCHANGED <<child, restarts, stopping, relaunching, system, installed, disposed, calls>>

Incompatible ==
    /\ start = "answered"
    /\ status' = "failed"
    /\ StartEnds
    /\ UNCHANGED <<child, info, restarts, stopping, relaunching, system, installed, disposed, calls>>

DeadlinePasses ==
    /\ start \in {"poll", "probe", "answered"} /\ ~late
    /\ late' = TRUE
    /\ UNCHANGED <<manager, start, waited, target, stopping, relaunching, system, installed, disposed, calls>>

TimedOut ==
    /\ start = "poll" /\ late
    /\ status' = "failed"
    /\ StartEnds
    /\ UNCHANGED <<child, info, restarts, stopping, relaunching, system, installed, disposed, calls>>

-----------------------------------------------------------------------------
(* Faulty variant: one restart too many.                                 *)
ChildExitOffByOne(b) ==
    /\ b \in unreported /\ child = b
    /\ unreported' = unreported \ {b}
    /\ child' = None /\ info' = None
    /\ IF restarts > MaxRestarts
       THEN status' = "failed" /\ UNCHANGED <<restarts, relaunching>>
       ELSE status' = "stopped" /\ restarts' = restarts + 1 /\ relaunching' = relaunching + 1
    /\ UNCHANGED <<starting, stopping, life, runtime, installed, disposed, calls>>

(* Faulty variant: the exit of an earlier child counts like any other.     *)
ChildExitUnchecked(b) ==
    /\ b \in unreported
    /\ unreported' = unreported \ {b}
    /\ child' = None /\ info' = None
    /\ IF restarts >= MaxRestarts
       THEN status' = "failed" /\ UNCHANGED <<restarts, relaunching>>
       ELSE status' = "stopped" /\ restarts' = restarts + 1 /\ relaunching' = relaunching + 1
    /\ UNCHANGED <<starting, stopping, life, runtime, installed, disposed, calls>>

(* Faulty variant: the exit is recorded and nothing is relaunched.       *)
ChildExitRecorded(b) ==
    /\ b \in unreported /\ child = b
    /\ unreported' = unreported \ {b}
    /\ child' = None /\ info' = None
    /\ status' = "stopped"
    /\ UNCHANGED <<restarts, relaunching, starting, stopping, life, runtime, installed, disposed, calls>>

(* The exit event of the child, then restartIfAllowed up to its delay.     *)
ChildExit(b) ==
    /\ b \in unreported
    /\ unreported' = unreported \ {b}
    /\ \/ /\ child # b
          /\ UNCHANGED <<manager, relaunching>>
       \/ /\ child = b
          /\ child' = None /\ info' = None
          /\ \/ /\ restarts >= MaxRestarts
                /\ status' = "failed"
                /\ UNCHANGED <<restarts, relaunching>>
             \/ /\ restarts < MaxRestarts
                /\ status' = "stopped"
                /\ restarts' = restarts + 1
                /\ relaunching' = relaunching + 1
    /\ UNCHANGED <<starting, stopping, life, runtime, installed, disposed, calls>>

(* The rest of restartIfAllowed.                                           *)
Relaunch ==
    /\ relaunching > 0
    /\ relaunching' = relaunching - 1
    /\ EnsureRunning(status, info)
    /\ UNCHANGED <<child, info, restarts, stopping, system, installed, disposed, calls>>

(* RESTART_WINDOW_MS after a restart, it no longer counts.                 *)
RestartForgotten ==
    /\ restarts > 0 /\ relaunching = 0
    /\ restarts' = restarts - 1
    /\ UNCHANGED <<status, child, info, starting, stopping, relaunching, system, installed, disposed, calls>>

-----------------------------------------------------------------------------
(* The bridges.                                                            *)

BridgeServes(b) ==
    /\ Life!Serve(b)
    /\ UNCHANGED <<manager, starting, stopping, relaunching, unreported, installed, disposed, calls>>

BridgeWithdraws(b) ==
    /\ Life!Withdraw(b)
    /\ UNCHANGED <<manager, starting, stopping, relaunching, unreported, installed, disposed, calls>>

(* By itself, killed, or kept out by the lock.  The plugin is the parent   *)
(* of all but the orphan, and will hear of their exit.                     *)
BridgeEnds(b) ==
    /\ Life!Leave(b) \/ Life!Remove(b)
    /\ unreported' = unreported \union ({b} \ {Orphan})
    /\ UNCHANGED <<manager, starting, stopping, relaunching, installed, disposed, calls>>

StartStep ==
    \/ StartThrows \/ \E b \in Bridges : Spawn(b)
    \/ HealthAnswered \/ ProbeFails \/ Ready \/ Incompatible \/ TimedOut

Next ==
    \/ CallEnsureRunning \/ Reconnect \/ Dispose
    \/ \E c \in Bridges \union {None} : StopReturns(c)
    \/ \E b \in Bridges : Spawn(b)
    \/ StartThrows \/ SpawnFails \/ Poll \/ HealthAnswered \/ ProbeFails
    \/ Ready \/ Incompatible \/ DeadlinePasses \/ TimedOut
    \/ Relaunch \/ RestartForgotten
    \/ \E b \in Bridges :
          ChildExit(b) \/ BridgeServes(b) \/ BridgeWithdraws(b) \/ BridgeEnds(b)

Spec == Init /\ [][Next]_vars

(* Timers fire, exit events are delivered, and calls resolve or reject:    *)
(* /health has a timeout, the token read is assumed to end.  Nothing       *)
(* forces a bridge to boot in time or to live.                             *)
FairSpec ==
    /\ Spec
    /\ WF_vars(StartStep) /\ WF_vars(DeadlinePasses) /\ WF_vars(Relaunch)
    /\ \A c \in Bridges \union {None} : WF_vars(StopReturns(c))
    /\ \A b \in Bridges : WF_vars(ChildExit(b))

-----------------------------------------------------------------------------
TypeOK ==
    /\ status \in Statuses
    /\ child \in Bridges \union {None, Unspawned}
    /\ info \in Bridges \union {None}
    /\ restarts \in 0..MaxRestarts
    /\ start \in {"none", "token", "poll", "probe", "answered"}
    /\ waited \in Bridges \union {None, Unspawned}
    /\ target \in Bridges \union {None}
    /\ late \in BOOLEAN
    /\ stopping \subseteq Bridges \union {None}
    /\ relaunching \in Nat
    /\ life \in [Bridges -> {"gone", "booting", "serving", "ending"}]
    /\ runtime \in Bridges \union {None}
    /\ unreported \subseteq Bridges
    /\ installed \in BOOLEAN
    /\ disposed \in BOOLEAN
    /\ calls \in 0..MaxCalls

(* The status shown and the connection handed out agree at every await:    *)
(* commands are posted (they test getInfo) exactly when keys show a ready  *)
(* bridge (they test getStatus).                                           *)
InfoIffReady ==
    info # None <=> status = "ready"

(* The port handed out is that of the bridge the plugin launched, as long  *)
(* as it has one, never one that another process left in the runtime file  *)
(* or that a start overtaken by exits and reconnections was still probing. *)
ConnectedToChild ==
    info # None /\ child \in Bridges => info = child

(* start() has an end, so that ensureRunning answers its callers.          *)
StartConcludes ==
    start # "none" ~> start = "none"

(* When the child of a ready plugin dies, the plugin comes to start        *)
(* another one, or says that it gave up, whatever it was asked meanwhile.  *)
(* Only the child is watched: a plugin made ready by a bridge that is not  *)
(* its child (an orphan accepted without a pid), or after its child has    *)
(* gone, stays ready when that bridge is no more.                          *)
CrashAnswered ==
    \A b \in Bridges :
        (status = "ready" /\ child = b /\ ~Alive(b))
            ~> (status \in {"starting", "failed"} \/ disposed)

(* A bridge that exits is relaunched, as long as the limit allows.         *)
ExitRelaunched ==
    \A b \in Bridges :
        (installed /\ child = b /\ ~Alive(b) /\ restarts < MaxRestarts)
            ~> (child # None /\ child # b) \/ disposed

(* The manager as the service sees it: a connection is lost once its       *)
(* process has ended, reported or not.                                     *)
View == INSTANCE ManagerView WITH
           starting <- start # "none",
           lost <- info # None /\ ~Alive(info)

(* Whatever starts, exits, stops and timeouts interleave inside it, the    *)
(* manager changes its status and its connection only in the ways on which *)
(* BridgeService is built; above all it never gives up, unasked, the       *)
(* connection to a bridge that runs.                                       *)
ImplementsView == View!ViewSpec
=============================================================================
