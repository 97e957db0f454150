----------------------------- MODULE ArtworkCache -----------------------------
(***************************************************************************)
(* The artwork cache of PlaybackStore (apps/bridge/src/store.rs): a vector *)
(* of artworks in insertion order and a map from key to position in it,    *)
(* updated together under the store's write lock.  A key is derived from   *)
(* the bytes of the image, so a key stands for its image.                  *)
(***************************************************************************)
EXTENDS Naturals, Sequences, FiniteSets

CONSTANTS
    Keys,        \* keys of the artworks the adapter may report
    CacheSize,   \* ARTWORK_CACHE_SIZE
    NoArtwork    \* a snapshot that carries no artwork

ASSUME CacheSizeAssumption == CacheSize \in Nat \ {0}
ASSUME NoArtworkAssumption == NoArtwork \notin Keys

VARIABLES
    artworks,       \* StoreInner::artworks, the keys in vector order
    artwork_index,  \* StoreInner::artwork_index, a partial map Keys -> position
    artwork_url     \* key in the artworkUrl of the published state

vars == <<artworks, artwork_index, artwork_url>>

(* usize::saturating_sub(1) *)
SaturatingPred(i) == IF i = 0 THEN 0 ELSE i - 1

Init ==
    /\ artworks = <<>>
    /\ artwork_index = [k \in {} |-> 0]
    /\ artwork_url = NoArtwork

(* Faulty variants, each a slip one could make in cache_artwork: the room  *)
(* test off by one; Vec::swap_remove for Vec::remove; positions not        *)
(* shifted; the evicted key left in the map.                               *)
FullOffByOne == Len(artworks) > CacheSize

Full == Len(artworks) >= CacheSize

KeptSwapRemove ==
    IF Full
    THEN IF Len(artworks) = 1
         THEN <<>>
         ELSE [i \in 1..(Len(artworks) - 1) |->
                  IF i = 1 THEN artworks[Len(artworks)] ELSE artworks[i]]
    ELSE artworks

KeptIndexUnshifted ==
    [k \in DOMAIN artwork_index \ (IF Full THEN {Head(artworks)} ELSE {}) |->
        artwork_index[k]]

KeptIndexWithEvicted ==
    IF Full
    THEN [k \in DOMAIN artwork_index |-> SaturatingPred(artwork_index[k])]
    ELSE artwork_index

(* The vector and the map once room for one more artwork has been made.    *)
Kept == IF Full THEN Tail(artworks) ELSE artworks

KeptIndex ==
    IF Full
    THEN [k \in DOMAIN artwork_index \ {Head(artworks)} |->
              SaturatingPred(artwork_index[k])]
    ELSE artwork_index

InsertArtwork(key) ==
    /\ artwork_index' =
           [k \in DOMAIN KeptIndex \union {key} |->
               IF k = key THEN Len(Kept) ELSE KeptIndex[k]]
    /\ artworks' = Append(Kept, key)

(* StoreInner::cache_artwork: a hit leaves the order alone. *)
CacheArtwork(key) ==
    \/ /\ key \in DOMAIN artwork_index
       /\ UNCHANGED <<artworks, artwork_index>>
    \/ /\ key \notin DOMAIN artwork_index
       /\ InsertArtwork(key)

(* PlaybackStore::apply of a snapshot that carries the artwork `key`. *)
ApplyArtwork(key) ==
    /\ CacheArtwork(key)
    /\ artwork_url' = key

(* PlaybackStore::apply of a snapshot without artwork. *)
ApplyNoArtwork ==
    /\ artwork_url' = NoArtwork
    /\ UNCHANGED <<artworks, artwork_index>>

Next == ApplyNoArtwork \/ \E key \in Keys : ApplyArtwork(key)

Spec == Init /\ [][Next]_vars

(* PlaybackStore::artwork, as GET /v1/artwork/{key} calls it: the artwork  *)
(* found at the indexed position, or NoArtwork (404).                      *)
Artwork(key) ==
    IF key \in DOMAIN artwork_index /\ artwork_index[key] < Len(artworks)
    THEN artworks[artwork_index[key] + 1]
    ELSE NoArtwork

-----------------------------------------------------------------------------
(* Types, and the memory bound ARTWORK_CACHE_SIZE promises: the vector     *)
(* never outgrows it and the map never points past it.                     *)
TypeOK ==
    /\ artworks \in Seq(Keys)
    /\ Len(artworks) <= CacheSize
    /\ DOMAIN artwork_index \subseteq Keys
    /\ artwork_index \in [DOMAIN artwork_index -> 0..(CacheSize - 1)]
    /\ artwork_url \in Keys \union {NoArtwork}

(* The vector and the map describe the same cache: every indexed key is    *)
(* found at its position and every artwork in the vector is indexed there, *)
(* however many evictions have shifted the positions.                      *)
IndexMatchesVector ==
    /\ \A key \in DOMAIN artwork_index :
          /\ artwork_index[key] < Len(artworks)
          /\ artworks[artwork_index[key] + 1] = key
    /\ \A i \in 1..Len(artworks) :
          /\ artworks[i] \in DOMAIN artwork_index
          /\ artwork_index[artworks[i]] = i - 1

(* The artwork the published state names can be fetched, and the bytes     *)
(* served for any key are the bytes of that key and of no other.           *)
CurrentArtworkServed ==
    /\ artwork_url # NoArtwork => Artwork(artwork_url) = artwork_url
    /\ \A key \in Keys : Artwork(key) \in {key, NoArtwork}

(* Every key that can be fetched, computed through the map and the vector. *)
Served == {key \in Keys : Artwork(key) = key}

Shelf == INSTANCE ArtworkShelf WITH served <- Served, shown <- artwork_url

(* Readers see a shelf that loses at most one artwork per new one, and     *)
(* only when it is full: eviction never drops or mixes up another entry.   *)
ImplementsShelf == Shelf!ShelfSpec
=============================================================================
