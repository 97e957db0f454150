------------------------- MODULE BridgeProcessProofs -------------------------
(***************************************************************************)
(* The lock of the bridge, for any finite set of pids and any number of    *)
(* launches, kills and reuses of pids: it is typed whatever the number of  *)
(* processes in their startup, and it keeps bridges apart when they start  *)
(* one at a time.                                                          *)
(***************************************************************************)
EXTENDS BridgeProcess, FiniteSetTheorems, TLAPS

LEMMA TypeStep == TypeOK /\ [Next]_vars => TypeOK'
<1> SUFFICES ASSUME TypeOK, [Next]_vars PROVE TypeOK'
  OBVIOUS
<1> USE DEF TypeOK, Goto, Phases, Gone, Acquiring, Holding, NobodyLinked, RemoveLock, watch
<1>1. CASE UNCHANGED vars
  BY <1>1 DEF vars
<1>2. ASSUME NEW p \in Pids,
             Launch(p) \/ ReadLock(p) \/ RemoveOrphan(p) \/ CreateLock(p) \/ WriteLock(p)
      PROVE TypeOK'
  BY <1>2 DEF Launch, ReadLock, RemoveOrphan, CreateLock, WriteLock
<1>3. ASSUME NEW p \in Pids,
             BindFails(p) \/ WriteRuntime(p) \/ Stop(p) \/ DropLock(p) \/ DropRuntime(p)
      PROVE TypeOK'
  BY <1>3 DEF BindFails, WriteRuntime, Stop, DropLock, DropRuntime
<1>4. ASSUME NEW p \in Pids, Kill(p) \/ ReusePid(p) \/ OtherEnds(p)
      PROVE TypeOK'
  BY <1>4 DEF Kill, ReusePid, OtherEnds
<1>5. ASSUME NEW p \in Pids, LookAtParent(p) \/ LookAgain(p)
      PROVE TypeOK'
  BY <1>5 DEF LookAtParent, LookAgain
<1>6. ASSUME NEW q \in Parents, ParentStarts(q) \/ ParentEnds(q)
      PROVE TypeOK'
  BY <1>6 DEF ParentStarts, ParentEnds
<1> QED
  BY <1>1, <1>2, <1>3, <1>4, <1>5, <1>6 DEF Next

(* Every shared file and every process stays in its type, whatever         *)
(* MaxStarting is: runtime.rs writes only pids, and removes what it does   *)
(* not keep.                                                               *)
THEOREM TypeCorrect == Spec => []TypeOK
<1>1. Init => TypeOK
  BY DEF Init, TypeOK, Phases, Gone
<1> QED
  BY <1>1, TypeStep, PTL DEF Spec

-----------------------------------------------------------------------------
(* Startups do not overlap.                                                *)
OneStarting ==
    \A p, q \in Pids : pc[p] \in Acquiring /\ pc[q] \in Acquiring => p = q

(* A process that found no valid lock starts when no bridge holds it.      *)
ClearToCreate ==
    \A p \in Pids :
        pc[p] \in {"remove", "create", "write"} => \A q \in Pids : pc[q] \notin Holding

(* The file being written is the one in the directory.                     *)
WritesTheLock ==
    \A p \in Pids : pc[p] = "write" => linked[p]

LockInv ==
    TypeOK /\ OneStarting /\ ClearToCreate /\ WritesTheLock /\ LockNamesHolder

(* Why a launch finds nobody else in its startup.                          *)
LEMMA StartsAlone ==
    ASSUME MaxStarting = 1, NEW p \in Pids, Launch(p)
    PROVE  \A q \in Pids : pc[q] \notin Acquiring
<1> DEFINE Starting == {q \in Pids : pc[q] \in Acquiring}
<1>1. IsFiniteSet(Starting)
  BY PidAssumption, FS_Subset
<1>2. Cardinality(Starting) \in Nat
  BY <1>1, FS_CardinalityType
<1>3. Cardinality(Starting) < 1
  BY DEF Launch
<1>4. Starting = {}
  BY <1>1, <1>2, <1>3, FS_EmptySet
<1> QED
  BY <1>4

(* One process takes one step of its own; the others keep theirs.          *)
LEMMA LockInvStep ==
    ASSUME MaxStarting = 1, LockInv, [Next]_vars
    PROVE  LockInv'
<1>1. TypeOK'
  BY TypeStep DEF LockInv
<1> SUFFICES (OneStarting /\ ClearToCreate /\ WritesTheLock /\ LockNamesHolder)'
  BY <1>1 DEF LockInv
<1> USE DEF LockInv, TypeOK, OneStarting, ClearToCreate, WritesTheLock, LockNamesHolder,
            Goto, Acquiring, Holding
<1>2. CASE UNCHANGED vars
  BY <1>2 DEF vars
<1>3. ASSUME NEW p \in Pids, Launch(p)
      PROVE (OneStarting /\ ClearToCreate /\ WritesTheLock /\ LockNamesHolder)'
  <2>1. \A q \in Pids : pc[q] \notin Acquiring
    BY <1>3, StartsAlone
  <2> QED
    BY <1>3, <2>1 DEF Launch
<1>4. ASSUME NEW p \in Pids, ReadLock(p)
      PROVE (OneStarting /\ ClearToCreate /\ WritesTheLock /\ LockNamesHolder)'
  <2>1. CASE pc'[p] = "refused"
    BY <1>4, <2>1 DEF ReadLock
  <2>2. CASE pc'[p] # "refused"
    <3>1. lock \in Pids \ {p} => pc[lock] \in Gone
      BY <1>4, <2>2, PidAssumption DEF ReadLock, IsProcessAlive
    <3>2. \A q \in Pids : pc[q] \notin Holding
      BY <1>4, <3>1 DEF ReadLock, Gone
    <3> QED
      BY <1>4, <2>2, <3>2 DEF ReadLock
  <2> QED
    BY <2>1, <2>2
<1>5. ASSUME NEW p \in Pids, RemoveOrphan(p)
      PROVE (OneStarting /\ ClearToCreate /\ WritesTheLock /\ LockNamesHolder)'
  BY <1>5 DEF RemoveOrphan, NobodyLinked
<1>6. ASSUME NEW p \in Pids, CreateLock(p)
      PROVE (OneStarting /\ ClearToCreate /\ WritesTheLock /\ LockNamesHolder)'
  BY <1>6 DEF CreateLock
<1>7. ASSUME NEW p \in Pids, WriteLock(p)
      PROVE (OneStarting /\ ClearToCreate /\ WritesTheLock /\ LockNamesHolder)'
  BY <1>7 DEF WriteLock
<1>8. ASSUME NEW p \in Pids, BindFails(p) \/ DropLock(p)
      PROVE (OneStarting /\ ClearToCreate /\ WritesTheLock /\ LockNamesHolder)'
  <2>1. pc[p] \in Holding /\ lock = p
    BY <1>8 DEF BindFails, DropLock
  <2>2. \A q \in Pids : pc[q] \notin {"remove", "create", "write"}
    BY <2>1
  <2>3. \A q \in Pids : pc[q] \in Holding => q = p
    BY <2>1
  <2> QED
    BY <1>8, <2>1, <2>2, <2>3 DEF BindFails, DropLock, RemoveLock, NobodyLinked
<1>9. ASSUME NEW p \in Pids, WriteRuntime(p) \/ Stop(p)
      PROVE (OneStarting /\ ClearToCreate /\ WritesTheLock /\ LockNamesHolder)'
  BY <1>9 DEF WriteRuntime, Stop
<1>10. ASSUME NEW p \in Pids, DropRuntime(p) \/ Kill(p) \/ ReusePid(p) \/ OtherEnds(p)
       PROVE (OneStarting /\ ClearToCreate /\ WritesTheLock /\ LockNamesHolder)'
  BY <1>10 DEF DropRuntime, Kill, ReusePid, OtherEnds
<1>11. ASSUME NEW p \in Pids, LookAtParent(p) \/ LookAgain(p)
       PROVE (OneStarting /\ ClearToCreate /\ WritesTheLock /\ LockNamesHolder)'
  BY <1>11 DEF LookAtParent, LookAgain
<1>12. ASSUME NEW q \in Parents, ParentStarts(q) \/ ParentEnds(q)
       PROVE (OneStarting /\ ClearToCreate /\ WritesTheLock /\ LockNamesHolder)'
  BY <1>12 DEF ParentStarts, ParentEnds
<1> QED
  BY <1>2, <1>3, <1>4, <1>5, <1>6, <1>7, <1>8, <1>9, <1>10, <1>11, <1>12 DEF Next

LEMMA LockInvariant ==
    ASSUME MaxStarting = 1
    PROVE  Spec => []LockInv
<1>1. Init => LockInv
  BY DEF Init, LockInv, TypeOK, Phases, Gone, OneStarting, ClearToCreate, WritesTheLock,
         LockNamesHolder, Acquiring, Holding
<1>2. LockInv /\ [Next]_vars => LockInv'
  BY LockInvStep
<1> QED
  BY <1>1, <1>2, PTL DEF Spec

(* With one startup at a time, no step of another process, refused,        *)
(* killed, failing to bind or ending late, takes the lock of the bridge    *)
(* that holds it.                                                          *)
THEOREM LockKept ==
    ASSUME MaxStarting = 1
    PROVE  Spec => []LockNamesHolder
<1>1. LockInv => LockNamesHolder
  BY DEF LockInv
<1> QED
  BY <1>1, LockInvariant, PTL

(* With one startup at a time, two bridges never run concurrently.         *)
THEOREM OneBridgeAtATime ==
    ASSUME MaxStarting = 1
    PROVE  Spec => []OneBridge
<1>1. LockNamesHolder => OneBridge
  BY DEF LockNamesHolder, OneBridge
<1> QED
  BY <1>1, LockKept, PTL
-----------------------------------------------------------------------------
(* Only the holder of the lock writes the runtime file, so that a file     *)
(* that names another process is older than the bridge that serves.        *)
LEMMA RuntimeStep ==
    LockInv /\ RuntimeNotMisleading /\ [Next]_vars => RuntimeNotMisleading'
<1> SUFFICES ASSUME LockInv, RuntimeNotMisleading, [Next]_vars PROVE RuntimeNotMisleading'
  OBVIOUS
<1> USE DEF LockInv, TypeOK, RuntimeNotMisleading, Goto, Phases, Gone, Acquiring, Holding
<1>1. CASE UNCHANGED vars
  BY <1>1 DEF vars
<1>2. ASSUME NEW p \in Pids, WriteRuntime(p)
      PROVE RuntimeNotMisleading'
  <2>1. \A q \in Pids : pc[q] = "serving" => q = p
    BY <1>2 DEF WriteRuntime, LockNamesHolder
  <2> QED
    BY <1>2, <2>1 DEF WriteRuntime
<1>3. ASSUME NEW p \in Pids, DropRuntime(p)
      PROVE RuntimeNotMisleading'
  BY <1>3 DEF DropRuntime
<1>4. ASSUME NEW p \in Pids,
             Launch(p) \/ ReadLock(p) \/ RemoveOrphan(p) \/ CreateLock(p) \/ WriteLock(p)
      PROVE RuntimeNotMisleading'
  BY <1>4 DEF Launch, ReadLock, RemoveOrphan, CreateLock, WriteLock
<1>5. ASSUME NEW p \in Pids,
             BindFails(p) \/ Stop(p) \/ DropLock(p) \/ Kill(p) \/ ReusePid(p) \/ OtherEnds(p)
      PROVE RuntimeNotMisleading'
  BY <1>5 DEF BindFails, Stop, DropLock, Kill, ReusePid, OtherEnds
<1>6. ASSUME NEW p \in Pids, LookAtParent(p) \/ LookAgain(p)
      PROVE RuntimeNotMisleading'
  BY <1>6 DEF LookAtParent, LookAgain
<1>7. ASSUME NEW q \in Parents, ParentStarts(q) \/ ParentEnds(q)
      PROVE RuntimeNotMisleading'
  BY <1>7 DEF ParentStarts, ParentEnds
<1> QED
  BY <1>1, <1>2, <1>3, <1>4, <1>5, <1>6, <1>7 DEF Next

(* With one startup at a time, the runtime file never sends the plugin to  *)
(* another process than the bridge that serves.                            *)
THEOREM RuntimeTrusted ==
    ASSUME MaxStarting = 1
    PROVE  Spec => []RuntimeNotMisleading
<1>1. Init => RuntimeNotMisleading
  BY DEF Init, RuntimeNotMisleading
<1> QED
  BY <1>1, RuntimeStep, LockInvariant, PTL DEF Spec

-----------------------------------------------------------------------------
(* What the move of one process to another point of the code is to the     *)
(* rest of the system.                                                     *)
LEMMA LifeMoves ==
    ASSUME TypeOK, NEW p \in Pids, NEW point, Goto(p, point)
    PROVE  /\ [q \in Pids |-> Stage(pc[q])]'
                 = [[q \in Pids |-> Stage(pc[q])] EXCEPT ![p] = Stage(point)]
           /\ [q \in Pids |-> Stage(pc[q])][p] = Stage(pc[p])
BY DEF TypeOK, Goto

LEMMA LifeStays ==
    ASSUME TypeOK, UNCHANGED runtime, NEW p \in Pids, NEW point, Goto(p, point),
           Stage(point) = Stage(pc[p])
    PROVE  UNCHANGED Life!lifeVars
<1> DEFINE life == [q \in Pids |-> Stage(pc[q])]
<1>1. life' = [life EXCEPT ![p] = Stage(point)] /\ life[p] = Stage(point)
  BY LifeMoves
<1>2. life' = life
  BY <1>1
<1> QED
  BY <1>2 DEF Life!lifeVars

(* A step that leaves the runtime file alone can only begin, withdraw or   *)
(* end a process.                                                          *)
LEMMA LifeStepMaps ==
    ASSUME TypeOK, MaxStarting = 1 => LockInv, [Next]_vars
    PROVE  [Life!LifeNext]_(Life!lifeVars)
<1> DEFINE life == [q \in Pids |-> Stage(pc[q])]
<1>1. ASSUME UNCHANGED <<pc, runtime>> PROVE UNCHANGED Life!lifeVars
  BY <1>1 DEF Stage, Life!lifeVars
<1>2. ASSUME NEW p \in Pids, Launch(p) PROVE Life!LifeNext
  <2>1. Goto(p, "start") /\ UNCHANGED runtime
    BY <1>2 DEF Launch
  <2>2. Stage(pc[p]) = "gone" /\ Stage("start") = "booting"
    BY <1>2 DEF Launch, IsProcessAlive, Gone, Stage, Acquiring
  <2>3. Life!Start(p)
    BY <2>1, <2>2, LifeMoves DEF Life!Start, Life!Becomes
  <2> QED
    BY <2>3 DEF Life!LifeNext
<1>3. ASSUME NEW p \in Pids,
             Goto(p, "absent") \/ Goto(p, "refused"), pc[p] \notin Gone \union {"other"},
             UNCHANGED runtime
      PROVE  Life!LifeNext
  <2>1. PICK point \in Gone : Goto(p, point)
    BY <1>3 DEF Gone
  <2>2. Stage(pc[p]) # "gone" /\ Stage(point) = "gone"
    BY <1>3, <2>1 DEF TypeOK, Phases, Gone, Holding, Acquiring, Stage
  <2>3. Life!Leave(p)
    BY <1>3, <2>1, <2>2, LifeMoves DEF Life!Leave, Life!Becomes
  <2> QED
    BY <2>3 DEF Life!LifeNext
<1>4. ASSUME NEW p \in Pids, ReadLock(p) PROVE [Life!LifeNext]_(Life!lifeVars)
  <2>1. CASE Goto(p, "refused")
    <3>1. pc[p] \notin Gone \union {"other"} /\ UNCHANGED runtime
      BY <1>4 DEF ReadLock, Gone
    <3> QED
      BY <1>3, <2>1, <3>1
  <2>2. ASSUME NEW point \in {"create", "remove"}, Goto(p, point)
        PROVE  UNCHANGED Life!lifeVars
    BY <1>4, <2>2, LifeStays DEF ReadLock, Stage, Acquiring
  <2> QED
    BY <1>4, <2>1, <2>2 DEF ReadLock
<1>5. ASSUME NEW p \in Pids, RemoveOrphan(p) \/ CreateLock(p) \/ WriteLock(p)
      PROVE  UNCHANGED Life!lifeVars
  <2>1. PICK point \in {"create", "write", "locked"} : Goto(p, point)
    BY <1>5 DEF RemoveOrphan, CreateLock, WriteLock
  <2>2. Stage(point) = Stage(pc[p]) /\ UNCHANGED runtime
    BY <1>5 DEF RemoveOrphan, CreateLock, WriteLock, Stage, Acquiring
  <2> QED
    BY <2>1, <2>2, LifeStays
<1>6. ASSUME NEW p \in Pids, BindFails(p) \/ Kill(p) PROVE Life!LifeNext
  BY <1>3, <1>6 DEF BindFails, Kill, Gone
<1>7. ASSUME NEW p \in Pids, WriteRuntime(p) PROVE Life!LifeNext
  <2>1. Goto(p, "serving") /\ runtime' = p
    BY <1>7 DEF WriteRuntime
  <2>2. Stage(pc[p]) = "booting" /\ Stage("serving") = "serving"
    BY <1>7 DEF WriteRuntime, Stage, Acquiring
  <2>3. MaxStarting = 1 => \A q \in Pids : life[q] # "serving"
    BY <1>7 DEF WriteRuntime, LockInv, LockNamesHolder, Holding, Stage, Acquiring
  <2>4. Life!Serve(p)
    BY <2>1, <2>2, <2>3, LifeMoves DEF Life!Serve, Life!Becomes
  <2> QED
    BY <2>4 DEF Life!LifeNext
<1>8. ASSUME NEW p \in Pids, pc[p] = "serving", Goto(p, "stopping"), UNCHANGED runtime
      PROVE  Life!LifeNext
  <2>1. Stage(pc[p]) = "serving" /\ Stage("stopping") = "ending"
    BY <1>8 DEF Stage, Acquiring
  <2>2. Life!Withdraw(p)
    BY <1>8, <2>1, LifeMoves DEF Life!Withdraw, Life!Becomes
  <2> QED
    BY <2>2 DEF Life!LifeNext
<1>9. ASSUME NEW p \in Pids, LookAgain(p) PROVE [Life!LifeNext]_(Life!lifeVars)
  <2>1. CASE Goto(p, "stopping")
    BY <1>8, <1>9, <2>1 DEF LookAgain
  <2>2. CASE Goto(p, "serving")
    BY <1>9, <2>2, LifeStays DEF LookAgain
  <2> QED
    BY <1>9, <2>1, <2>2 DEF LookAgain
<1>10. ASSUME NEW p \in Pids, DropLock(p) PROVE UNCHANGED Life!lifeVars
  BY <1>10, LifeStays DEF DropLock, Stage, Acquiring
<1>11. ASSUME NEW p \in Pids, DropRuntime(p) PROVE Life!LifeNext
  <2>1. Goto(p, "absent") /\ runtime' = NoFile
    BY <1>11 DEF DropRuntime
  <2>2. Stage(pc[p]) = "ending" /\ Stage("absent") = "gone"
    BY <1>11 DEF DropRuntime, Stage, Acquiring
  <2>3. Life!Remove(p)
    BY <2>1, <2>2, LifeMoves DEF Life!Remove, Life!Becomes
  <2> QED
    BY <2>3 DEF Life!LifeNext
<1>12. ASSUME NEW p \in Pids, ReusePid(p) \/ OtherEnds(p) PROVE UNCHANGED Life!lifeVars
  <2>1. PICK point \in {"other", "absent"} : Goto(p, point)
    BY <1>12 DEF ReusePid, OtherEnds
  <2>2. Stage(point) = Stage(pc[p]) /\ UNCHANGED runtime
    BY <1>12 DEF ReusePid, OtherEnds, IsProcessAlive, Gone, Stage, Acquiring
  <2> QED
    BY <2>1, <2>2, LifeStays
<1>13. CASE UNCHANGED vars \/ \E q \in Parents : ParentStarts(q) \/ ParentEnds(q)
  BY <1>1, <1>13 DEF vars, ParentStarts, ParentEnds
<1>14. ASSUME NEW p \in Pids, Stop(p) PROVE Life!LifeNext
  BY <1>8, <1>14 DEF Stop
<1>15. ASSUME NEW p \in Pids, LookAtParent(p) PROVE UNCHANGED Life!lifeVars
  BY <1>1, <1>15 DEF LookAtParent
<1> QED
  BY <1>2, <1>4, <1>5, <1>6, <1>7, <1>9, <1>10, <1>11, <1>12, <1>13, <1>14, <1>15 DEF Next

(* However many startups there are at once, the bridges appear to the      *)
(* plugin as BridgeLife says, and with one at a time each of them begins   *)
(* to serve alone.                                                         *)
THEOREM ProcessImplementsLife == Spec => ImplementsLife
<1>1. Init => Life!LifeInit
  BY DEF Init, Life!LifeInit, Stage, Acquiring
<1>2. Spec => [](MaxStarting = 1 => LockInv)
  <2>1. CASE MaxStarting = 1
    <3>1. LockInv => (MaxStarting = 1 => LockInv)
      OBVIOUS
    <3> QED
      BY <2>1, <3>1, LockInvariant, PTL
  <2>2. CASE MaxStarting # 1
    <3>1. MaxStarting = 1 => LockInv
      BY <2>2
    <3> QED
      BY <3>1, PTL
  <2> QED
    BY <2>1, <2>2
<1>3. TypeOK /\ (MaxStarting = 1 => LockInv) /\ [Next]_vars => [Life!LifeNext]_(Life!lifeVars)
  BY LifeStepMaps
<1> QED
  BY <1>1, <1>2, <1>3, TypeCorrect, PTL DEF Spec, ImplementsLife, Life!LifeSpec
=============================================================================
