----------------------------- MODULE BridgeProcess -----------------------------
(***************************************************************************)
(* Bridge processes and the two files they share in the data directory     *)
(* (apps/bridge/src/runtime.rs, lib.rs): the lock that should keep a       *)
(* second bridge out, and the runtime file in which the plugin finds the   *)
(* port of the running one.  A process can be killed between any two       *)
(* steps, leaving both files behind, and a pid can later belong to a       *)
(* program that is not a bridge.  A bridge that serves looks after the     *)
(* process that launched it, and stops once it does not find it twice, a   *)
(* grace apart.                                                            *)
(*                                                                         *)
(* Pids are opaque; two writes to one open lock file leave the last one    *)
(* (pids have the same number of digits).                                  *)
(***************************************************************************)
EXTENDS Naturals, FiniteSets

CONSTANTS
    Pids,         \* process identifiers the system may give
    Parents,      \* those it may give to the processes that launch bridges
    NoParent,     \* DEEZER_BRIDGE_PARENT_PID is not set
    NoFile,       \* the file does not exist
    Blank,        \* the lock file has been created and not written
    MaxStarting   \* bound on the processes between launch and acquired lock

ASSUME PidAssumption ==
    /\ IsFiniteSet(Pids)
    /\ NoFile \notin Pids /\ Blank \notin Pids /\ NoFile # Blank
ASSUME ParentAssumption == NoParent \notin Parents
ASSUME StartingAssumption == MaxStarting \in Nat \ {0}

VARIABLES
    lock,     \* content of bridge.lock
    runtime,  \* pid in bridge-runtime.json
    pc,       \* where each process stands
    linked,   \* the lock file p has open is the one in the directory
    parents,  \* the pids of Parents that some process has
    parent,   \* config.parent_pid of each bridge
    grace     \* watch_parent has not found the parent once

watch == <<parents, parent, grace>>
vars == <<lock, runtime, pc, linked, watch>>

Acquiring == {"start", "remove", "create", "write"}
Holding == {"locked", "serving", "stopping"}
Gone == {"absent", "refused"}   \* no process; "refused": it ended on the lock
Phases == Gone \union {"other"} \union Acquiring \union Holding \union {"unlocked"}

Init ==
    /\ lock = NoFile
    /\ runtime = NoFile
    /\ pc = [p \in Pids |-> "absent"]
    /\ linked = [p \in Pids |-> FALSE]
    /\ parents = {}
    /\ parent = [p \in Pids |-> NoParent]
    /\ grace = [p \in Pids |-> FALSE]

Goto(p, phase) == pc' = [pc EXCEPT ![p] = phase]

(* is_process_alive: any program under that pid, bridge or not.            *)
IsProcessAlive(p) == pc[p] \notin Gone

NobodyLinked == linked' = [p \in Pids |-> FALSE]

(* The plugin, which gives its own pid, or a user starts a bridge.         *)
Launch(p) ==
    /\ ~IsProcessAlive(p)
    /\ Cardinality({q \in Pids : pc[q] \in Acquiring}) < MaxStarting
    /\ Goto(p, "start")
    /\ \E by \in parents \union {NoParent} : parent' = [parent EXCEPT ![p] = by]
    /\ grace' = [grace EXCEPT ![p] = FALSE]
    /\ UNCHANGED <<lock, runtime, linked, parents>>

(* Faulty variant: the guard is built before the test, so a refused        *)
(* process drops it and removes the lock of the other.                     *)
ReadLockDropsGuard(p) ==
    /\ pc[p] = "start"
    /\ UNCHANGED <<runtime, watch>>
    /\ \/ /\ lock = NoFile
          /\ Goto(p, "create")
          /\ UNCHANGED <<lock, linked>>
       \/ /\ lock \in Pids \ {p}
          /\ IsProcessAlive(lock)
          /\ Goto(p, "refused")
          /\ lock' = NoFile
          /\ NobodyLinked
       \/ /\ lock # NoFile
          /\ lock \in Pids \ {p} => ~IsProcessAlive(lock)
          /\ Goto(p, "remove")
          /\ UNCHANGED <<lock, linked>>

(* Faulty variant: any lock is taken for an orphan.                      *)
ReadLockUnchecked(p) ==
    /\ pc[p] = "start"
    /\ Goto(p, IF lock = NoFile THEN "create" ELSE "remove")
    /\ UNCHANGED <<lock, runtime, linked, watch>>

(* Faulty variant: content that is not a pid counts as a live bridge.      *)
ReadLockStrict(p) ==
    /\ pc[p] = "start"
    /\ Goto(p, IF lock = NoFile THEN "create"
               ELSE IF lock = Blank \/ (lock # p /\ IsProcessAlive(lock)) THEN "refused"
               ELSE "remove")
    /\ UNCHANGED <<lock, runtime, linked, watch>>

(* ProcessLock::acquire reads the lock.  A pid that is alive and not ours  *)
(* ends the process; anything else that was read is an orphan to remove.   *)
ReadLock(p) ==
    /\ pc[p] = "start"
    /\ \/ /\ lock = NoFile
          /\ Goto(p, "create")
       \/ /\ lock \in Pids \ {p}
          /\ IsProcessAlive(lock)
          /\ Goto(p, "refused")
       \/ /\ lock # NoFile
          /\ lock \in Pids \ {p} => ~IsProcessAlive(lock)
          /\ Goto(p, "remove")
    /\ UNCHANGED <<lock, runtime, linked, watch>>

RemoveOrphan(p) ==
    /\ pc[p] = "remove"
    /\ lock' = NoFile
    /\ NobodyLinked
    /\ Goto(p, "create")
    /\ UNCHANGED <<runtime, watch>>

(* File::create: a new file, or the existing one truncated.                *)
CreateLock(p) ==
    /\ pc[p] = "create"
    /\ lock' = Blank
    /\ linked' = [linked EXCEPT ![p] = TRUE]
    /\ Goto(p, "write")
    /\ UNCHANGED <<runtime, watch>>

(* The pid goes to the open file, which may have been removed meanwhile.   *)
WriteLock(p) ==
    /\ pc[p] = "write"
    /\ lock' = IF linked[p] THEN p ELSE lock
    /\ linked' = [linked EXCEPT ![p] = FALSE]
    /\ Goto(p, "locked")
    /\ UNCHANGED <<runtime, watch>>

(* Drop of ProcessLock: whatever is there is removed.                      *)
RemoveLock ==
    /\ lock' = NoFile
    /\ NobodyLinked

(* The adapter does not start or the port cannot be bound: bind returns an *)
(* error, the lock is dropped and the process ends.                        *)
BindFails(p) ==
    /\ pc[p] = "locked"
    /\ RemoveLock
    /\ Goto(p, "absent")
    /\ UNCHANGED <<runtime, watch>>

(* Faulty variant: an existing file is left alone.                         *)
WriteRuntimeOnce(p) ==
    /\ pc[p] = "locked"
    /\ runtime' = IF runtime = NoFile THEN p ELSE runtime
    /\ Goto(p, "serving")
    /\ UNCHANGED <<lock, linked, watch>>

(* RuntimeFile::write, the last step of bind.                              *)
WriteRuntime(p) ==
    /\ pc[p] = "locked"
    /\ runtime' = p
    /\ Goto(p, "serving")
    /\ UNCHANGED <<lock, linked, watch>>

-----------------------------------------------------------------------------
(* What ends a bridge that serves.                                         *)

(* Ctrl+C: serve returns.                                                  *)
Stop(p) ==
    /\ pc[p] = "serving"
    /\ Goto(p, "stopping")
    /\ UNCHANGED <<lock, runtime, linked, watch>>

ParentFound(p) == parent[p] \in parents

(* A turn of watch_parent that does not find the parent.                   *)
LookAtParent(p) ==
    /\ pc[p] = "serving" /\ ~grace[p]
    /\ parent[p] # NoParent /\ ~ParentFound(p)
    /\ grace' = [grace EXCEPT ![p] = TRUE]
    /\ UNCHANGED <<lock, runtime, pc, linked, parents, parent>>

(* Faulty variant: the second look is taken the wrong way.                 *)
LookAgainInverted(p) ==
    /\ pc[p] = "serving" /\ grace[p]
    /\ grace' = [grace EXCEPT ![p] = FALSE]
    /\ Goto(p, IF ParentFound(p) THEN "stopping" ELSE "serving")
    /\ UNCHANGED <<lock, runtime, linked, parents, parent>>

(* The look after the grace: serve returns, or the watch goes on, be it on *)
(* another process of the same pid.                                        *)
LookAgain(p) ==
    /\ pc[p] = "serving" /\ grace[p]
    /\ grace' = [grace EXCEPT ![p] = FALSE]
    /\ Goto(p, IF ParentFound(p) THEN "serving" ELSE "stopping")
    /\ UNCHANGED <<lock, runtime, linked, parents, parent>>

ParentStarts(q) ==
    /\ q \notin parents
    /\ parents' = parents \union {q}
    /\ UNCHANGED <<lock, runtime, pc, linked, parent, grace>>

ParentEnds(q) ==
    /\ q \in parents
    /\ parents' = parents \ {q}
    /\ UNCHANGED <<lock, runtime, pc, linked, parent, grace>>

-----------------------------------------------------------------------------
(* The fields of Bridge are dropped in order: first the lock ...           *)
DropLock(p) ==
    /\ pc[p] = "stopping"
    /\ RemoveLock
    /\ Goto(p, "unlocked")
    /\ UNCHANGED <<runtime, watch>>

(* Faulty variant: the file is emptied, not removed.                     *)
DropRuntimeTruncates(p) ==
    /\ pc[p] = "unlocked"
    /\ runtime' = Blank
    /\ Goto(p, "absent")
    /\ UNCHANGED <<lock, linked, watch>>

(* ... then the runtime file, and the process ends.                        *)
DropRuntime(p) ==
    /\ pc[p] = "unlocked"
    /\ runtime' = NoFile
    /\ Goto(p, "absent")
    /\ UNCHANGED <<lock, linked, watch>>

(* Killed: SIGKILL, TerminateProcess, the job object of Stream Deck.       *)
Kill(p) ==
    /\ pc[p] \notin Gone \union {"other"}
    /\ Goto(p, "absent")
    /\ linked' = [linked EXCEPT ![p] = FALSE]
    /\ UNCHANGED <<lock, runtime, watch>>

(* The pid comes to belong to a program that is not a bridge, which ends.  *)
ReusePid(p) ==
    /\ ~IsProcessAlive(p)
    /\ Goto(p, "other")
    /\ UNCHANGED <<lock, runtime, linked, watch>>

OtherEnds(p) ==
    /\ pc[p] = "other"
    /\ Goto(p, "absent")
    /\ UNCHANGED <<lock, runtime, linked, watch>>

BridgeStep(p) ==
    \/ ReadLock(p) \/ RemoveOrphan(p) \/ CreateLock(p) \/ WriteLock(p)
    \/ WriteRuntime(p) \/ LookAtParent(p) \/ LookAgain(p) \/ DropLock(p) \/ DropRuntime(p)

Next ==
    \/ \E p \in Pids :
        \/ Launch(p)
        \/ ReadLock(p) \/ RemoveOrphan(p) \/ CreateLock(p) \/ WriteLock(p)
        \/ BindFails(p) \/ WriteRuntime(p)
        \/ LookAtParent(p) \/ LookAgain(p)
        \/ Stop(p) \/ DropLock(p) \/ DropRuntime(p)
        \/ Kill(p) \/ ReusePid(p) \/ OtherEnds(p)
    \/ \E q \in Parents : ParentStarts(q) \/ ParentEnds(q)

Spec == Init /\ [][Next]_vars

(* A process that runs gets on with its startup, its watch and its         *)
(* shutdown.                                                               *)
FairSpec == Spec /\ \A p \in Pids : WF_vars(BridgeStep(p))

-----------------------------------------------------------------------------
TypeOK ==
    /\ lock \in Pids \union {NoFile, Blank}
    /\ runtime \in Pids \union {NoFile}
    /\ pc \in [Pids -> Phases]
    /\ linked \in [Pids -> BOOLEAN]
    /\ parents \subseteq Parents
    /\ parent \in [Pids -> Parents \union {NoParent}]
    /\ grace \in [Pids -> BOOLEAN]

(* runtime.rs: a lock that keeps two bridges from running concurrently.    *)
OneBridge ==
    \A p, q \in Pids : pc[p] \in Holding /\ pc[q] \in Holding => p = q

(* The lock names its holder from acquisition to release: no failed        *)
(* acquisition, orphan removal or late release of another process touches  *)
(* it.                                                                     *)
LockNamesHolder ==
    \A p \in Pids : pc[p] \in Holding => lock = p

(* While a bridge serves, the runtime file names no other process, dead or *)
(* ending: the plugin finds the right port, or none yet.                   *)
RuntimeNotMisleading ==
    \A p \in Pids : pc[p] = "serving" => runtime \in {p, NoFile}

(* An orphan lock, blank or naming a dead process, does not keep the next  *)
(* bridge from serving, unless it is killed, fails to bind, or another     *)
(* process comes to life meanwhile: it is never refused.                   *)
Alone(p) == \A q \in Pids \ {p} : ~IsProcessAlive(q)

OrphanLockRecovered ==
    \A p \in Pids :
        (pc[p] = "start" /\ Alone(p)) ~> (pc[p] \in {"serving", "absent"} \/ ~Alone(p))

(* runtime.rs: no process outlives the plugin that launched it, whenever   *)
(* that ends, unless the pid of the plugin is in use again meanwhile: then *)
(* the watch cannot tell.                                                  *)
Orphan(p) ==
    /\ pc[p] \notin Gone \union {"other"}
    /\ parent[p] # NoParent /\ ~ParentFound(p)

OrphanEnds == \A p \in Pids : Orphan(p) ~> ~Orphan(p)

(* A process boots until it has written the runtime file, and ends as soon *)
(* as its shutdown begins.                                                 *)
Stage(point) ==
    CASE point \in Acquiring \union {"locked"} -> "booting"
      [] point = "serving" -> "serving"
      [] point \in {"stopping", "unlocked"} -> "ending"
      [] OTHER -> "gone"

Life == INSTANCE BridgeLife WITH
           Processes <- Pids,
           Exclusive <- MaxStarting = 1,
           life <- [p \in Pids |-> Stage(pc[p])]

(* The lock, the runtime file, the watch on the parent and the order in    *)
(* which files are dropped give the plugin the bridges it counts on: one   *)
(* that begins to serve is the one the runtime file names, and is alone as *)
(* long as startups do not overlap.                                        *)
ImplementsLife == Life!LifeSpec
=============================================================================
