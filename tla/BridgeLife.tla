-------------------------------- MODULE BridgeLife --------------------------------
(***************************************************************************)
(* What the rest of the system sees of the bridge processes: the runtime   *)
(* file names the last that began to serve; a bridge that stops removes    *)
(* that file at some later point, whichever bridge it names by then; and a *)
(* process can end at any point without removing anything.  If startups do *)
(* not overlap, one bridge at most serves at a time.                       *)
(***************************************************************************)
CONSTANTS
    Processes,
    NoFile,
    Exclusive  \* startups do not overlap

VARIABLES
    life,     \* gone, booting, serving or ending
    runtime   \* the process named in the runtime file

lifeVars == <<life, runtime>>

LifeInit ==
    /\ life = [p \in Processes |-> "gone"]
    /\ runtime = NoFile

Becomes(p, stage) == life' = [life EXCEPT ![p] = stage]

Start(p) ==
    /\ life[p] = "gone"
    /\ Becomes(p, "booting")
    /\ UNCHANGED runtime

Serve(p) ==
    /\ life[p] = "booting"
    /\ Exclusive => \A q \in Processes : life[q] # "serving"
    /\ Becomes(p, "serving")
    /\ runtime' = p

Withdraw(p) ==
    /\ life[p] = "serving"
    /\ Becomes(p, "ending")
    /\ UNCHANGED runtime

Remove(p) ==
    /\ life[p] = "ending"
    /\ Becomes(p, "gone")
    /\ runtime' = NoFile

(* Killed, kept out by the lock, or unable to start.                       *)
Leave(p) ==
    /\ life[p] # "gone"
    /\ Becomes(p, "gone")
    /\ UNCHANGED runtime

LifeNext ==
    \E p \in Processes : Start(p) \/ Serve(p) \/ Withdraw(p) \/ Remove(p) \/ Leave(p)

LifeSpec == LifeInit /\ [][LifeNext]_lifeVars
=============================================================================
