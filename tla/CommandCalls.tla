------------------------------ MODULE CommandCalls ------------------------------
(***************************************************************************)
(* What a caller of a media command may count on: the command is carried   *)
(* out at most once, "done" is said only of a command that was carried     *)
(* out, and a failure leaves it open: the command may have been carried    *)
(* out, or be carried out later.  Once the call is forgotten it no longer  *)
(* is.                                                                     *)
(***************************************************************************)
EXTENDS Naturals

CONSTANT Calls

VARIABLES
    state,     \* free, pending, done or failed
    executed   \* how often the player carried it out

callVars == <<state, executed>>

CallInit ==
    /\ state = [c \in Calls |-> "free"]
    /\ executed = [c \in Calls |-> 0]

Submit(c) ==
    /\ state[c] = "free"
    /\ state' = [state EXCEPT ![c] = "pending"]
    /\ executed' = executed

Carry(c) ==
    /\ state[c] \in {"pending", "failed"} /\ executed[c] = 0
    /\ executed' = [executed EXCEPT ![c] = 1]
    /\ state' = state

Succeed(c) ==
    /\ state[c] = "pending" /\ executed[c] = 1
    /\ state' = [state EXCEPT ![c] = "done"]
    /\ executed' = executed

(* Any set of pending calls: the thread that serves them may end.          *)
Fail(failing) ==
    /\ \A c \in failing : state[c] = "pending"
    /\ state' = [c \in Calls |-> IF c \in failing THEN "failed" ELSE state[c]]
    /\ executed' = executed

Release(c) ==
    /\ state[c] \in {"done", "failed"}
    /\ state' = [state EXCEPT ![c] = "free"]
    /\ executed' = [executed EXCEPT ![c] = 0]

CallNext ==
    \/ \E c \in Calls : Submit(c) \/ Carry(c) \/ Succeed(c) \/ Release(c)
    \/ \E failing \in SUBSET Calls : Fail(failing)

CallSpec == CallInit /\ [][CallNext]_callVars
=============================================================================
