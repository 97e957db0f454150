----------------------------- MODULE ArtworkShelf -----------------------------
(***************************************************************************)
(* What the bridge's artwork cache promises its HTTP readers, without its  *)
(* representation: a set of at most CacheSize keys that GET /v1/artwork    *)
(* can serve, and the key the published state points at, always among      *)
(* them.  Storing one more key may cost exactly one other, and only when   *)
(* the shelf is full.                                                      *)
(***************************************************************************)
EXTENDS Naturals, FiniteSets

CONSTANTS Keys, CacheSize, NoArtwork

VARIABLES served,   \* keys a reader can fetch
          shown     \* key of the artwork the published state names

shelfVars == <<served, shown>>

ShelfInit ==
    /\ served = {}
    /\ shown = NoArtwork

(* The published state names k, which is fetchable from the same instant. *)
Show(k) ==
    /\ shown' = k
    /\ \/ /\ k \in served
          /\ served' = served
       \/ /\ k \notin served
          /\ Cardinality(served) < CacheSize
          /\ served' = served \union {k}
       \/ /\ k \notin served
          /\ Cardinality(served) = CacheSize
          /\ \E old \in served : served' = (served \ {old}) \union {k}

ShowNothing ==
    /\ shown' = NoArtwork
    /\ served' = served

ShelfNext == ShowNothing \/ \E k \in Keys : Show(k)

ShelfSpec == ShelfInit /\ [][ShelfNext]_shelfVars
=============================================================================
