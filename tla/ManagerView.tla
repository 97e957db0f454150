------------------------------- MODULE ManagerView -------------------------------
(***************************************************************************)
(* What BridgeManager promises the rest of the plugin: the status its      *)
(* listeners hear of (getStatus), the connection it hands out (getInfo),   *)
(* and whether a start is under way.  There is a connection exactly when   *)
(* the status is "ready"; a ready bridge is only given up at the plugin's  *)
(* own request or because it has ended; and a start that is under way can  *)
(* make any bridge the present one, whatever has happened meanwhile.  The  *)
(* status does not tell whether a start is under way: one that throws      *)
(* leaves it as it is, most often "starting".                              *)
(***************************************************************************)
CONSTANTS Bridges, None

VARIABLES
    status, info,
    starting,  \* a start() is under way
    lost       \* the bridge of the present connection has ended

viewVars == <<status, info, starting, lost>>

ViewInit ==
    /\ status = "stopped" /\ info = None
    /\ starting = FALSE /\ lost = FALSE

Disconnected(st) ==
    /\ status' = st
    /\ info' = None
    /\ lost' = FALSE

StartBegins ==
    /\ status # "ready" /\ ~starting
    /\ starting' = TRUE
    /\ Disconnected("starting")

(* There is no binary: the start is over as soon as it has begun.          *)
StartsInVain ==
    /\ status # "ready" /\ ~starting
    /\ starting' = starting
    /\ Disconnected("failed")

(* The bridge may have ended since it answered.                            *)
Ready(b) ==
    /\ starting
    /\ starting' = FALSE
    /\ status' = "ready" /\ info' = b
    /\ lost' \in BOOLEAN

StartFails ==
    /\ starting
    /\ starting' = FALSE
    /\ Disconnected("failed")

(* No token, or spawn throws: the start is over and nothing says so.       *)
StartThrows ==
    /\ starting
    /\ starting' = FALSE
    /\ UNCHANGED <<status, info, lost>>

(* The process cannot be created; the start goes on.                       *)
SpawnFails ==
    /\ starting
    /\ starting' = starting
    /\ Disconnected("failed")

(* The child exits: it will be relaunched, or the manager gives up.        *)
ChildExits(st) ==
    /\ status = "ready" => lost
    /\ starting' = starting
    /\ Disconnected(st)

(* stop, called by the plugin.                                             *)
Stop ==
    /\ starting' = starting
    /\ Disconnected("stopped")

Lost ==
    /\ status = "ready" /\ ~lost
    /\ lost' = TRUE
    /\ UNCHANGED <<status, info, starting>>

ViewNext ==
    \/ StartBegins \/ StartsInVain \/ StartFails \/ StartThrows \/ SpawnFails
    \/ \E b \in Bridges : Ready(b)
    \/ \E st \in {"stopped", "failed"} : ChildExits(st)
    \/ Stop \/ Lost

ViewSpec == ViewInit /\ [][ViewNext]_viewVars
=============================================================================
