------------------------- MODULE BridgeManagerProofs -------------------------
(***************************************************************************)
(* Invariants of the supervisor, for any set of bridges and any limits:    *)
(* its status and the connection it hands out agree, and the connection is *)
(* that of its child.                                                      *)
(***************************************************************************)
EXTENDS BridgeManager, TLAPS

(* What ensureRunning may leave behind, from a typed status.               *)
LEMMA EnsureRunningType ==
    ASSUME TypeOK, NEW st \in Statuses, NEW inf, EnsureRunning(st, inf)
    PROVE  /\ status' \in Statuses
           /\ start' \in {"none", "token", "poll", "probe", "answered"}
           /\ UNCHANGED <<waited, target, late>>
BY DEF EnsureRunning, TypeOK, Statuses, starting

LEMMA TypeStep == TypeOK /\ [Next]_vars => TypeOK'
<1> SUFFICES ASSUME TypeOK, [Next]_vars PROVE TypeOK'
  OBVIOUS
<1> USE BridgeAssumption, LimitAssumption DEF TypeOK, manager, starting, system
<1>1. CASE UNCHANGED vars
  BY <1>1 DEF vars
<1>2. CASE CallEnsureRunning
  BY <1>2, EnsureRunningType DEF CallEnsureRunning
<1>3. CASE Reconnect \/ Dispose
  <2>1. stopping' \subseteq Bridges \union {None}
    BY <1>3 DEF Reconnect, Dispose, NotReaped
  <2>2. calls' \in 0..MaxCalls /\ restarts' \in 0..MaxRestarts
    BY <1>3 DEF Reconnect, Dispose
  <2> QED
    BY <1>3, <2>1, <2>2 DEF Reconnect, Dispose, Stop, Statuses
<1>4. ASSUME NEW c \in Bridges \union {None}, StopReturns(c)
      PROVE TypeOK'
  BY <1>4, EnsureRunningType DEF StopReturns
<1>5. ASSUME NEW b \in Bridges, Spawn(b)
      PROVE TypeOK'
  BY <1>5 DEF Spawn, Life!Start, Life!Becomes
<1>6. CASE SpawnFails \/ Poll \/ HealthAnswered \/ ProbeFails
  BY <1>6 DEF SpawnFails, Poll, HealthAnswered, ProbeFails, Statuses
<1>7. CASE StartThrows \/ Ready \/ Incompatible \/ DeadlinePasses \/ TimedOut
  BY <1>7 DEF StartThrows, Ready, Incompatible, DeadlinePasses, TimedOut, StartEnds, Statuses
<1>8. CASE Relaunch
  BY <1>8, EnsureRunningType DEF Relaunch
<1>9. CASE RestartForgotten
  BY <1>9 DEF RestartForgotten
<1>10. ASSUME NEW b \in Bridges, ChildExit(b)
       PROVE TypeOK'
  BY <1>10 DEF ChildExit, Statuses
<1>11. ASSUME NEW b \in Bridges, BridgeServes(b) \/ BridgeWithdraws(b) \/ BridgeEnds(b)
       PROVE TypeOK'
  BY <1>11 DEF BridgeServes, BridgeWithdraws, BridgeEnds,
     Life!Serve, Life!Withdraw, Life!Leave, Life!Remove, Life!Becomes
<1> QED
  BY <1>1, <1>2, <1>3, <1>4, <1>5, <1>6, <1>7, <1>8, <1>9, <1>10, <1>11 DEF Next

(* The fields of BridgeManager keep their types, and the history of        *)
(* restarts never exceeds MAX_RESTARTS.                                    *)
THEOREM TypeCorrect == Spec => []TypeOK
<1>1. ASSUME Init PROVE TypeOK
  <2>1. PICK stage \in {"gone", "booting", "serving", "ending"} :
           life = [b \in Bridges |-> IF b = Orphan THEN stage ELSE "gone"]
    BY <1>1 DEF Init
  <2>2. life \in [Bridges -> {"gone", "booting", "serving", "ending"}]
    BY <2>1
  <2>3. restarts \in 0..MaxRestarts /\ calls \in 0..MaxCalls /\ relaunching \in Nat
    BY <1>1, LimitAssumption DEF Init
  <2> QED
    BY <1>1, <2>2, <2>3, BridgeAssumption DEF Init, TypeOK, Statuses
<1> QED
  BY <1>1, TypeStep, PTL DEF Spec

-----------------------------------------------------------------------------
(* While start() is under way there is no connection yet, so that the      *)
(* statuses it sets never contradict one; and a probe has a bridge to      *)
(* probe.                                                                  *)
StatusInv ==
    /\ InfoIffReady
    /\ start # "none" => info = None
    /\ start \in {"probe", "answered"} => target # None

LEMMA StatusStep == TypeOK /\ StatusInv /\ [Next]_vars => StatusInv'
<1> SUFFICES ASSUME TypeOK, StatusInv, [Next]_vars PROVE StatusInv'
  OBVIOUS
<1> USE BridgeAssumption DEF StatusInv, InfoIffReady, manager, starting, system
<1>1. CASE UNCHANGED vars
  BY <1>1 DEF vars
<1>2. CASE CallEnsureRunning
  BY <1>2 DEF CallEnsureRunning, EnsureRunning
<1>3. CASE Reconnect \/ Dispose
  BY <1>3 DEF Reconnect, Dispose, Stop
<1>4. ASSUME NEW c \in Bridges \union {None}, StopReturns(c)
      PROVE StatusInv'
  BY <1>4 DEF StopReturns, EnsureRunning
<1>5. ASSUME NEW b \in Bridges, Spawn(b)
      PROVE StatusInv'
  BY <1>5 DEF Spawn
<1>6. CASE SpawnFails \/ HealthAnswered \/ ProbeFails
  BY <1>6 DEF SpawnFails, HealthAnswered, ProbeFails
<1>7. CASE Poll
  BY <1>7 DEF Poll
<1>8. CASE Ready
  BY <1>8 DEF Ready, StartEnds
<1>9. CASE StartThrows \/ Incompatible \/ DeadlinePasses \/ TimedOut
  BY <1>9 DEF StartThrows, Incompatible, DeadlinePasses, TimedOut, StartEnds
<1>10. CASE Relaunch
  BY <1>10 DEF Relaunch, EnsureRunning
<1>11. CASE RestartForgotten
  BY <1>11 DEF RestartForgotten
<1>12. ASSUME NEW b \in Bridges, ChildExit(b)
       PROVE StatusInv'
  BY <1>12 DEF ChildExit
<1>13. ASSUME NEW b \in Bridges, BridgeServes(b) \/ BridgeWithdraws(b) \/ BridgeEnds(b)
       PROVE StatusInv'
  BY <1>13 DEF BridgeServes, BridgeWithdraws, BridgeEnds
<1> QED
  BY <1>1, <1>2, <1>3, <1>4, <1>5, <1>6, <1>7, <1>8, <1>9, <1>10, <1>11, <1>12, <1>13 DEF Next

(* getStatus() and getInfo() never disagree, whatever exits, restarts,     *)
(* timeouts and spawn errors interleave.                                   *)
THEOREM StatusMatchesInfo == Spec => []InfoIffReady
<1>1. Init => StatusInv
  BY DEF Init, StatusInv, InfoIffReady
<1>2. StatusInv => InfoIffReady
  BY DEF StatusInv
<1> QED
  BY <1>1, <1>2, StatusStep, TypeCorrect, PTL DEF Spec

-----------------------------------------------------------------------------
(* The start under way follows the child, and probes no other bridge.      *)
ChildInv ==
    /\ ConnectedToChild
    /\ start \in {"poll", "probe", "answered"} /\ child \in Bridges => waited = child
    /\ start \in {"probe", "answered"} /\ waited \in Bridges => target = waited

LEMMA ChildStep == TypeOK /\ StatusInv /\ ChildInv /\ [Next]_vars => ChildInv'
<1> SUFFICES ASSUME TypeOK, StatusInv, ChildInv, [Next]_vars PROVE ChildInv'
  OBVIOUS
<1> USE BridgeAssumption DEF ChildInv, ConnectedToChild, manager, starting, system
<1>1. CASE UNCHANGED vars
  BY <1>1 DEF vars
<1>2. CASE CallEnsureRunning \/ Reconnect \/ Dispose \/ Relaunch
  BY <1>2 DEF CallEnsureRunning, Reconnect, Dispose, Stop, Relaunch, EnsureRunning
<1>3. ASSUME NEW c \in Bridges \union {None}, StopReturns(c)
      PROVE ChildInv'
  BY <1>3 DEF StopReturns, EnsureRunning
<1>4. ASSUME NEW b \in Bridges, Spawn(b)
      PROVE ChildInv'
  <2>1. info = None
    BY <1>4 DEF Spawn, StatusInv
  <2> QED
    BY <1>4, <2>1 DEF Spawn
<1>5. CASE SpawnFails \/ HealthAnswered \/ ProbeFails
  BY <1>5 DEF SpawnFails, HealthAnswered, ProbeFails
<1>6. CASE Poll
  BY <1>6 DEF Poll
<1>7. CASE Ready
  <2>1. child \in Bridges => target = child
    BY <1>7 DEF Ready
  <2> QED
    BY <1>7, <2>1 DEF Ready, StartEnds
<1>8. CASE StartThrows \/ Incompatible \/ DeadlinePasses \/ TimedOut
  BY <1>8 DEF StartThrows, Incompatible, DeadlinePasses, TimedOut, StartEnds
<1>9. CASE RestartForgotten
  BY <1>9 DEF RestartForgotten
<1>10. ASSUME NEW b \in Bridges,
              ChildExit(b) \/ BridgeServes(b) \/ BridgeWithdraws(b) \/ BridgeEnds(b)
       PROVE ChildInv'
  BY <1>10 DEF ChildExit, BridgeServes, BridgeWithdraws, BridgeEnds
<1> QED
  BY <1>1, <1>2, <1>3, <1>4, <1>5, <1>6, <1>7, <1>8, <1>9, <1>10 DEF Next

(* A live child is the one the connection leads to, whatever exits, stops  *)
(* and restarts overtake the start that found it.                          *)
THEOREM ConnectionIsOfChild == Spec => []ConnectedToChild
<1>1. Init => StatusInv /\ ChildInv
  BY DEF Init, StatusInv, InfoIffReady, ChildInv, ConnectedToChild
<1>2. ChildInv => ConnectedToChild
  BY DEF ChildInv
<1> QED
  BY <1>1, <1>2, ChildStep, StatusStep, TypeCorrect, PTL DEF Spec

-----------------------------------------------------------------------------
(* An exit that has not been reported is that of a process that has ended, *)
(* and the exit of a child that has ended is still to be reported: the     *)
(* event that makes the manager relaunch it is never missed.               *)
ExitPending ==
    /\ \A b \in unreported : ~Alive(b)
    /\ child \in Bridges => child # Orphan /\ NotReaped(child)

LEMMA ExitPendingStep == TypeOK /\ ExitPending /\ [Next]_vars => ExitPending'
<1> SUFFICES ASSUME TypeOK, ExitPending, [Next]_vars PROVE ExitPending'
  OBVIOUS
<1> USE BridgeAssumption DEF ExitPending, NotReaped, Alive, manager, starting, system
<1>1. CASE UNCHANGED <<life, unreported>> /\ child' \in {child, None, Unspawned}
  BY <1>1
<1>2. ASSUME NEW c \in Bridges \union {None},
             \/ UNCHANGED vars \/ CallEnsureRunning \/ Reconnect \/ Dispose \/ StopReturns(c)
             \/ StartThrows \/ SpawnFails \/ Poll \/ HealthAnswered \/ ProbeFails
             \/ Ready \/ Incompatible \/ DeadlinePasses \/ TimedOut
             \/ Relaunch \/ RestartForgotten
      PROVE ExitPending'
  BY <1>1, <1>2 DEF vars, CallEnsureRunning, Reconnect, Dispose, Stop, StopReturns, StartThrows,
     SpawnFails, Poll, HealthAnswered, ProbeFails, Ready, Incompatible, DeadlinePasses, TimedOut, Relaunch,
     RestartForgotten
<1>3. ASSUME NEW b \in Bridges, Spawn(b) PROVE ExitPending'
  BY <1>3 DEF Spawn, Free, Life!Start, Life!Becomes, TypeOK
<1>4. ASSUME NEW b \in Bridges, ChildExit(b) PROVE ExitPending'
  BY <1>4 DEF ChildExit
<1>5. ASSUME NEW b \in Bridges, BridgeServes(b) \/ BridgeWithdraws(b) PROVE ExitPending'
  BY <1>5 DEF BridgeServes, BridgeWithdraws, Life!Serve, Life!Withdraw, Life!Becomes, TypeOK
<1>6. ASSUME NEW b \in Bridges, BridgeEnds(b) PROVE ExitPending'
  <2>1. life' = [life EXCEPT ![b] = "gone"]
    BY <1>6 DEF BridgeEnds, Life!Leave, Life!Remove, Life!Becomes
  <2> QED
    BY <1>6, <2>1 DEF BridgeEnds, TypeOK
<1> QED
  BY <1>2, <1>3, <1>4, <1>5, <1>6 DEF Next

(* However starts, stops and exits overtake each other, the manager has no *)
(* child that has ended without an exit event to come: CrashAnswered and   *)
(* the relaunch rest on it.                                                *)
THEOREM ExitPendingInvariant == Spec => []ExitPending
<1>1. Init => ExitPending
  BY BridgeAssumption DEF Init, ExitPending
<1> QED
  BY <1>1, ExitPendingStep, TypeCorrect, PTL DEF Spec

-----------------------------------------------------------------------------
(* ensureRunning changes the view by the start it begins, if any.          *)
LEMMA EnsureRunningMaps ==
    ASSUME TypeOK, StatusInv, EnsureRunning(status, info), UNCHANGED <<info, life>>
    PROVE  [View!ViewNext]_(View!viewVars)
<1>1. CASE UNCHANGED <<status, start>>
  BY <1>1 DEF View!viewVars, Alive
<1>2. CASE status # "ready" /\ start = "none" /\ start' = "token" /\ status' = "starting"
  <2>1. info = None
    BY <1>2 DEF StatusInv, InfoIffReady
  <2> QED
    BY <1>2, <2>1 DEF View!ViewNext, View!StartBegins, View!Disconnected
<1>3. CASE status # "ready" /\ start = "none" /\ start' = "none" /\ status' = "failed"
  <2>1. info = None
    BY <1>3 DEF StatusInv, InfoIffReady
  <2> QED
    BY <1>3, <2>1 DEF View!ViewNext, View!StartsInVain, View!Disconnected
<1> QED
  BY <1>1, <1>2, <1>3 DEF EnsureRunning, StatusInv, InfoIffReady, starting

(* Every step inside the manager is one the service may see, or is none.   *)
LEMMA ViewStepMaps ==
    TypeOK /\ StatusInv /\ ChildInv /\ ExitPending /\ [Next]_vars => [View!ViewNext]_(View!viewVars)
<1> SUFFICES ASSUME TypeOK, StatusInv, ChildInv, ExitPending, [Next]_vars
             PROVE  [View!ViewNext]_(View!viewVars)
  OBVIOUS
<1> USE BridgeAssumption DEF manager, starting, system
<1>1. CASE UNCHANGED <<status, info, start, life>>
  BY <1>1 DEF View!viewVars, Alive
<1>2. CASE CallEnsureRunning \/ Relaunch
  BY <1>2, EnsureRunningMaps DEF CallEnsureRunning, Relaunch
<1>3. ASSUME NEW c \in Bridges \union {None}, StopReturns(c)
      PROVE  [View!ViewNext]_(View!viewVars)
  BY <1>3, EnsureRunningMaps DEF StopReturns
<1>4. CASE Reconnect \/ Dispose
  <2>1. View!Stop
    BY <1>4 DEF Reconnect, Dispose, Stop, View!Stop, View!Disconnected
  <2> QED
    BY <2>1 DEF View!ViewNext
<1>5. ASSUME NEW b \in Bridges, Life!Becomes(b, life'[b]),
             UNCHANGED <<status, info>>, (start # "none") = (start' # "none"),
             b = info => Alive(b) \/ ~Alive(b)'
      PROVE  [View!ViewNext]_(View!viewVars)
  <2>1. info # None /\ info # b => Alive(info)' = Alive(info)
    BY <1>5 DEF Life!Becomes, Alive, TypeOK
  <2>2. CASE info = b /\ Alive(b) /\ ~Alive(b)'
    <3>1. status = "ready" /\ info # None
      BY <2>2 DEF StatusInv, InfoIffReady
    <3>2. View!Lost
      BY <1>5, <2>2, <3>1 DEF View!Lost
    <3> QED
      BY <3>2 DEF View!ViewNext
  <2>3. CASE ~(info = b /\ Alive(b) /\ ~Alive(b)')
    <3>1. info # None => Alive(info)' = Alive(info)
      BY <1>5, <2>1, <2>3 DEF Alive
    <3> QED
      BY <1>5, <3>1 DEF View!viewVars
  <2> QED
    BY <2>2, <2>3
<1>6. ASSUME NEW b \in Bridges, Spawn(b) PROVE [View!ViewNext]_(View!viewVars)
  <2>1. b # info /\ Life!Becomes(b, life'[b])
    BY <1>6 DEF Spawn, Free, Life!Start, Life!Becomes, TypeOK
  <2> QED
    BY <1>5, <1>6, <2>1 DEF Spawn
<1>7. ASSUME NEW b \in Bridges, BridgeServes(b) \/ BridgeWithdraws(b) \/ BridgeEnds(b)
      PROVE  [View!ViewNext]_(View!viewVars)
  <2>1. Alive(b) /\ Life!Becomes(b, life'[b])
    BY <1>7 DEF BridgeServes, BridgeWithdraws, BridgeEnds, Alive, TypeOK,
       Life!Serve, Life!Withdraw, Life!Leave, Life!Remove, Life!Becomes
  <2> QED
    BY <1>5, <1>7, <2>1 DEF BridgeServes, BridgeWithdraws, BridgeEnds
<1>8. ASSUME NEW b \in Bridges, ChildExit(b) PROVE [View!ViewNext]_(View!viewVars)
  <2>1. CASE child # b
    BY <1>1, <1>8, <2>1 DEF ChildExit
  <2>2. CASE child = b
    <3>1. status = "ready" => info # None /\ ~Alive(info)
      BY <1>8, <2>2 DEF ChildExit, StatusInv, InfoIffReady, ChildInv, ConnectedToChild,
         ExitPending
    <3>2. \E st \in {"stopped", "failed"} : View!ChildExits(st)
      BY <1>8, <2>2, <3>1 DEF ChildExit, View!ChildExits, View!Disconnected
    <3> QED
      BY <3>2 DEF View!ViewNext
  <2> QED
    BY <2>1, <2>2
<1>9. CASE SpawnFails
  <2>1. View!SpawnFails
    BY <1>9 DEF SpawnFails, View!SpawnFails, View!Disconnected, StatusInv
  <2> QED
    BY <2>1 DEF View!ViewNext
<1>10. CASE Ready
  <2>1. \E b \in Bridges : View!Ready(b)
    BY <1>10 DEF Ready, StartEnds, View!Ready, StatusInv, TypeOK
  <2> QED
    BY <2>1 DEF View!ViewNext
<1>11. CASE Incompatible \/ TimedOut
  <2>1. View!StartFails
    BY <1>11 DEF Incompatible, TimedOut, StartEnds, View!StartFails, View!Disconnected, StatusInv
  <2> QED
    BY <2>1 DEF View!ViewNext
<1>12. CASE StartThrows
  <2>1. View!StartThrows
    BY <1>12 DEF StartThrows, StartEnds, View!StartThrows, Alive
  <2> QED
    BY <2>1 DEF View!ViewNext
<1>13. CASE Poll \/ HealthAnswered \/ ProbeFails
  BY <1>13 DEF Poll, HealthAnswered, ProbeFails, View!viewVars, Alive
<1>14. CASE UNCHANGED vars \/ DeadlinePasses \/ RestartForgotten
  BY <1>1, <1>14 DEF vars, DeadlinePasses, RestartForgotten
<1> QED
  BY <1>2, <1>3, <1>4, <1>6, <1>7, <1>8, <1>9, <1>10, <1>11, <1>12, <1>13, <1>14 DEF Next

(* For any set of bridges and any limits, the service sees of the manager  *)
(* nothing but what ManagerView allows.                                    *)
THEOREM ManagerImplementsView == Spec => ImplementsView
<1>1. Init => View!ViewInit /\ StatusInv /\ ChildInv
  BY DEF Init, View!ViewInit, StatusInv, InfoIffReady, ChildInv, ConnectedToChild
<1> QED
  BY <1>1, TypeCorrect, StatusStep, ChildStep, ExitPendingInvariant, ViewStepMaps, PTL
     DEF Spec, ImplementsView, View!ViewSpec
=============================================================================
