-------------------------- MODULE ArtworkCacheProofs --------------------------
(***************************************************************************)
(* For every set of keys and every CacheSize >= 1: the vector and the map  *)
(* of the artwork cache never disagree, the published artwork can always   *)
(* be fetched, and readers see the abstract shelf of ArtworkShelf.         *)
(***************************************************************************)
EXTENDS ArtworkCache, FiniteSetTheorems, TLAPS

(* Nothing is current before the first artwork, and a current artwork is   *)
(* in the map: apply caches it under the same lock.                        *)
CurrentIndexed == artwork_url # NoArtwork => artwork_url \in DOMAIN artwork_index

CacheInv == TypeOK /\ IndexMatchesVector /\ CurrentIndexed

(* The vector that makes room for one more artwork: shorter than CacheSize *)
(* and, when it was full, without its first element.                       *)
LEMMA KeptVector ==
    ASSUME TypeOK
    PROVE  /\ Kept \in Seq(Keys)
           /\ Len(Kept) < CacheSize
           /\ Full => /\ Len(Kept) = Len(artworks) - 1
                      /\ \A i \in 1..Len(Kept) : Kept[i] = artworks[i + 1]
           /\ ~Full => Kept = artworks
<1>1. CASE Full
  <2>1. artworks # <<>> /\ Len(artworks) = CacheSize
    BY <1>1, CacheSizeAssumption DEF Full, TypeOK
  <2>2. Kept = Tail(artworks)
    BY <1>1 DEF Kept
  <2> QED
    BY <1>1, <2>1, <2>2, CacheSizeAssumption DEF TypeOK
<1>2. CASE ~Full
  BY <1>2, CacheSizeAssumption DEF Full, Kept, TypeOK
<1> QED
  BY <1>1, <1>2

(* Making room keeps the vector and the map in agreement.                  *)
LEMMA KeptAgree ==
    ASSUME TypeOK, IndexMatchesVector
    PROVE  /\ DOMAIN KeptIndex \subseteq DOMAIN artwork_index
           /\ \A k \in DOMAIN KeptIndex :
                 /\ KeptIndex[k] \in 0..(Len(Kept) - 1)
                 /\ Kept[KeptIndex[k] + 1] = k
           /\ \A i \in 1..Len(Kept) :
                 /\ Kept[i] \in DOMAIN KeptIndex
                 /\ KeptIndex[Kept[i]] = i - 1
<1>1. CASE Full
  <2>1. artworks # <<>> /\ Head(artworks) = artworks[1] /\ Len(artworks) >= 1
    BY <1>1, CacheSizeAssumption DEF Full, TypeOK
  <2>2. Len(Kept) = Len(artworks) - 1 /\ \A i \in 1..Len(Kept) : Kept[i] = artworks[i + 1]
    BY <1>1, KeptVector
  <2>3. DOMAIN KeptIndex = DOMAIN artwork_index \ {artworks[1]}
    BY <1>1, <2>1 DEF KeptIndex
  <2>4. ASSUME NEW k \in DOMAIN KeptIndex
        PROVE  /\ KeptIndex[k] = artwork_index[k] - 1
               /\ KeptIndex[k] \in 0..(Len(Kept) - 1)
               /\ Kept[KeptIndex[k] + 1] = k
    <3>1. KeptIndex[k] = SaturatingPred(artwork_index[k])
      BY <1>1, <2>1, <2>3 DEF KeptIndex
    <3>2. /\ artwork_index[k] \in Nat
          /\ artwork_index[k] < Len(artworks)
          /\ artworks[artwork_index[k] + 1] = k
      BY <2>3, CacheSizeAssumption DEF TypeOK, IndexMatchesVector
    <3>3. artwork_index[k] # 0
      BY <2>3, <3>2
    <3> QED
      BY <2>2, <3>1, <3>2, <3>3 DEF SaturatingPred, TypeOK
  <2>5. ASSUME NEW i \in 1..Len(Kept)
        PROVE  Kept[i] \in DOMAIN KeptIndex /\ KeptIndex[Kept[i]] = i - 1
    <3>1. i + 1 \in 1..Len(artworks) /\ 1 \in 1..Len(artworks) /\ i \in Nat /\ i >= 1
      BY <2>1, <2>2 DEF TypeOK
    <3>2. Kept[i] = artworks[i + 1]
      BY <2>2
    <3>3. /\ artworks[i + 1] \in DOMAIN artwork_index
          /\ artwork_index[artworks[i + 1]] = i
          /\ artwork_index[artworks[1]] = 0
      BY <3>1 DEF IndexMatchesVector
    <3>4. Kept[i] \in DOMAIN KeptIndex
      BY <2>3, <3>1, <3>2, <3>3
    <3> QED
      BY <2>4, <3>2, <3>3, <3>4
  <2> QED
    BY <2>3, <2>4, <2>5
<1>2. CASE ~Full
  <2>1. Kept = artworks /\ KeptIndex = artwork_index
    BY <1>2 DEF Kept, KeptIndex
  <2> QED
    BY <2>1, CacheSizeAssumption DEF TypeOK, IndexMatchesVector
<1> QED
  BY <1>1, <1>2

(* One insertion preserves types and agreement, and indexes the new key.   *)
LEMMA InsertPreserves ==
    ASSUME TypeOK, IndexMatchesVector,
           NEW key \in Keys, key \notin DOMAIN artwork_index, InsertArtwork(key)
    PROVE  /\ artworks' \in Seq(Keys)
           /\ Len(artworks') <= CacheSize
           /\ DOMAIN artwork_index' \subseteq Keys
           /\ artwork_index' \in [DOMAIN artwork_index' -> 0..(CacheSize - 1)]
           /\ IndexMatchesVector'
           /\ key \in DOMAIN artwork_index'
<1>1. Kept \in Seq(Keys) /\ Len(Kept) \in Nat /\ Len(Kept) < CacheSize
  BY KeptVector
<1>2. /\ artworks' \in Seq(Keys)
      /\ Len(artworks') = Len(Kept) + 1
      /\ \A i \in 1..Len(Kept) : artworks'[i] = Kept[i]
      /\ artworks'[Len(Kept) + 1] = key
  BY <1>1 DEF InsertArtwork
<1>3. /\ DOMAIN artwork_index' = DOMAIN KeptIndex \union {key}
      /\ artwork_index'[key] = Len(Kept)
  BY DEF InsertArtwork
<1>4. key \notin DOMAIN KeptIndex
  BY KeptAgree
<1>5. \A k \in DOMAIN KeptIndex : artwork_index'[k] = KeptIndex[k]
  BY <1>4 DEF InsertArtwork
<1>6. DOMAIN artwork_index' \subseteq Keys
  BY <1>3, KeptAgree DEF TypeOK
<1>7. \A k \in DOMAIN artwork_index' : artwork_index'[k] \in 0..(CacheSize - 1)
  BY <1>1, <1>3, <1>5, KeptAgree, CacheSizeAssumption
<1>8. artwork_index' \in [DOMAIN artwork_index' -> 0..(CacheSize - 1)]
  BY <1>7 DEF InsertArtwork
<1>9. ASSUME NEW k \in DOMAIN artwork_index'
      PROVE  artwork_index'[k] < Len(artworks') /\ artworks'[artwork_index'[k] + 1] = k
  <2>1. CASE k = key
    BY <2>1, <1>1, <1>2, <1>3
  <2>2. CASE k \in DOMAIN KeptIndex
    <3>1. /\ artwork_index'[k] = KeptIndex[k]
          /\ KeptIndex[k] \in 0..(Len(Kept) - 1)
          /\ Kept[KeptIndex[k] + 1] = k
      BY <2>2, <1>5, KeptAgree
    <3> QED
      BY <3>1, <1>1, <1>2
  <2> QED
    BY <1>3, <2>1, <2>2
<1>10. ASSUME NEW i \in 1..Len(artworks')
       PROVE  artworks'[i] \in DOMAIN artwork_index' /\ artwork_index'[artworks'[i]] = i - 1
  <2>1. CASE i = Len(Kept) + 1
    BY <2>1, <1>1, <1>2, <1>3
  <2>2. CASE i \in 1..Len(Kept)
    <3>1. artworks'[i] = Kept[i] /\ Kept[i] \in DOMAIN KeptIndex /\ KeptIndex[Kept[i]] = i - 1
      BY <2>2, <1>2, KeptAgree
    <3> QED
      BY <3>1, <1>3, <1>5
  <2> QED
    BY <1>1, <1>2, <2>1, <2>2
<1>11. IndexMatchesVector'
  BY <1>9, <1>10 DEF IndexMatchesVector
<1>12. Len(artworks') <= CacheSize
  BY <1>1, <1>2, CacheSizeAssumption
<1> QED
  BY <1>2, <1>3, <1>6, <1>8, <1>11, <1>12

LEMMA CacheInvInit == Init => CacheInv
  BY CacheSizeAssumption DEF Init, CacheInv, TypeOK, IndexMatchesVector, CurrentIndexed

LEMMA CacheInvNext == CacheInv /\ [Next]_vars => CacheInv'
<1> SUFFICES ASSUME CacheInv, [Next]_vars PROVE CacheInv'
  OBVIOUS
<1> USE DEF CacheInv
<1>1. CASE ApplyNoArtwork
  BY <1>1 DEF ApplyNoArtwork, TypeOK, IndexMatchesVector, CurrentIndexed
<1>2. ASSUME NEW key \in Keys, ApplyArtwork(key) PROVE CacheInv'
  <2>1. artwork_url' = key
    BY <1>2 DEF ApplyArtwork
  <2>2. CASE key \in DOMAIN artwork_index /\ UNCHANGED <<artworks, artwork_index>>
    BY <2>1, <2>2 DEF TypeOK, IndexMatchesVector, CurrentIndexed
  <2>3. CASE key \notin DOMAIN artwork_index /\ InsertArtwork(key)
    <3>1. /\ artworks' \in Seq(Keys)
          /\ Len(artworks') <= CacheSize
          /\ DOMAIN artwork_index' \subseteq Keys
          /\ artwork_index' \in [DOMAIN artwork_index' -> 0..(CacheSize - 1)]
          /\ IndexMatchesVector'
          /\ key \in DOMAIN artwork_index'
      BY <2>3, InsertPreserves
    <3> QED
      BY <2>1, <3>1 DEF TypeOK, CurrentIndexed
  <2> QED
    BY <1>2, <2>2, <2>3 DEF ApplyArtwork, CacheArtwork
<1>3. CASE UNCHANGED vars
  BY <1>3 DEF vars, TypeOK, IndexMatchesVector, CurrentIndexed
<1> QED
  BY <1>1, <1>2, <1>3 DEF Next

LEMMA CacheInvariant == Spec => []CacheInv
  BY CacheInvInit, CacheInvNext, PTL DEF Spec

(* The cache is bounded by CacheSize and well typed, for every CacheSize.  *)
THEOREM TypeCorrect == Spec => []TypeOK
  BY CacheInvariant, PTL DEF CacheInv

(* cache_artwork keeps the positions in the map equal to the positions in  *)
(* the vector through any sequence of hits, insertions and evictions.      *)
THEOREM IndexConsistent == Spec => []IndexMatchesVector
  BY CacheInvariant, PTL DEF CacheInv

(* The URL in the published state never leads to a 404 nor to the image of *)
(* another track, as long as it is the published one.                      *)
THEOREM CurrentFetchable == Spec => []CurrentArtworkServed
<1>1. CacheInv => CurrentArtworkServed
  BY NoArtworkAssumption, CacheSizeAssumption
     DEF CacheInv, TypeOK, IndexMatchesVector, CurrentIndexed, CurrentArtworkServed, Artwork
<1> QED
  BY <1>1, CacheInvariant, PTL

-----------------------------------------------------------------------------
(* What a reader can fetch is exactly what the map knows.                  *)
LEMMA ServedIsIndexed ==
    ASSUME CacheInv
    PROVE  Served = DOMAIN artwork_index
<1>1. ASSUME NEW key \in DOMAIN artwork_index
      PROVE  key \in Keys /\ Artwork(key) = key
  BY DEF CacheInv, TypeOK, IndexMatchesVector, Artwork
<1>2. ASSUME NEW key \in Keys, key \notin DOMAIN artwork_index
      PROVE  Artwork(key) # key
  BY <1>2, NoArtworkAssumption DEF Artwork
<1> QED
  BY <1>1, <1>2 DEF Served

(* The vector holds each indexed key once, so its length counts them.      *)
LEMMA ServedCardinality ==
    ASSUME CacheInv
    PROVE  Cardinality(DOMAIN artwork_index) = Len(artworks)
<1> DEFINE slot == [i \in 1..Len(artworks) |-> artworks[i]]
<1>1. Len(artworks) \in Nat
  BY DEF CacheInv, TypeOK
<1>2. slot \in [1..Len(artworks) -> DOMAIN artwork_index]
  BY DEF CacheInv, IndexMatchesVector
<1>3. ASSUME NEW i \in 1..Len(artworks), NEW j \in 1..Len(artworks), slot[i] = slot[j]
      PROVE  i = j
  <2>1. artwork_index[artworks[i]] = i - 1 /\ artwork_index[artworks[j]] = j - 1
    BY DEF CacheInv, IndexMatchesVector
  <2> QED
    BY <1>3, <2>1, <1>1
<1>4. ASSUME NEW key \in DOMAIN artwork_index
      PROVE  \E i \in 1..Len(artworks) : slot[i] = key
  <2>1. artwork_index[key] + 1 \in 1..Len(artworks) /\ artworks[artwork_index[key] + 1] = key
    BY <1>1, CacheSizeAssumption DEF CacheInv, TypeOK, IndexMatchesVector
  <2> QED
    BY <2>1
<1>5. slot \in Bijection(1..Len(artworks), DOMAIN artwork_index)
  BY <1>2, <1>3, <1>4 DEF Bijection, Injection, IsInjective, Surjection
<1>6. ExistsBijection(1..Len(artworks), DOMAIN artwork_index)
  BY <1>5 DEF ExistsBijection
<1> QED
  BY <1>1, <1>6, FS_CountingElements

(* ArtworkShelf counts with the same operator.                             *)
LEMMA ShelfCounts == \A S : Shelf!Cardinality(S) = Cardinality(S)
  BY DEF Shelf!Cardinality, Cardinality

LEMMA ShelfInitMaps == Init => Shelf!ShelfInit
  BY NoArtworkAssumption DEF Init, Shelf!ShelfInit, Served, Artwork

LEMMA ShelfStepMaps ==
    CacheInv /\ CacheInv' /\ [Next]_vars => [Shelf!ShelfNext]_(Shelf!shelfVars)
<1> SUFFICES ASSUME CacheInv, CacheInv', [Next]_vars
             PROVE  [Shelf!ShelfNext]_(Shelf!shelfVars)
  OBVIOUS
<1>1. Served = DOMAIN artwork_index
  BY ServedIsIndexed
<1>2. Served' = DOMAIN artwork_index'
  <2>1. ASSUME NEW key \in DOMAIN artwork_index'
        PROVE  key \in Keys /\ Artwork(key)' = key
    BY DEF CacheInv, TypeOK, IndexMatchesVector, Artwork
  <2>2. ASSUME NEW key \in Keys, key \notin DOMAIN artwork_index'
        PROVE  Artwork(key)' # key
    BY <2>2, NoArtworkAssumption DEF Artwork
  <2> QED
    BY <2>1, <2>2 DEF Served
<1>3. Shelf!Cardinality(Served) = Len(artworks)
  BY <1>1, ServedCardinality, ShelfCounts
<1>4. CASE ApplyNoArtwork
  <2>1. Served' = Served /\ artwork_url' = NoArtwork
    BY <1>1, <1>2, <1>4 DEF ApplyNoArtwork
  <2> QED
    BY <2>1 DEF Shelf!ShelfNext, Shelf!ShowNothing
<1>5. ASSUME NEW key \in Keys, ApplyArtwork(key) PROVE Shelf!Show(key)
  <2>1. artwork_url' = key
    BY <1>5 DEF ApplyArtwork
  <2>2. CASE key \in DOMAIN artwork_index /\ UNCHANGED <<artworks, artwork_index>>
    BY <1>1, <1>2, <2>1, <2>2 DEF Shelf!Show
  <2>3. CASE key \notin DOMAIN artwork_index /\ InsertArtwork(key)
    <3>1. Served' = DOMAIN KeptIndex \union {key}
      BY <1>2, <2>3 DEF InsertArtwork
    <3>2. CASE ~Full
      <4>1. Shelf!Cardinality(Served) < CacheSize
        BY <1>3, <3>2, CacheSizeAssumption DEF Full, CacheInv, TypeOK
      <4>2. DOMAIN KeptIndex = Served
        BY <1>1, <3>2 DEF KeptIndex
      <4> QED
        BY <1>1, <2>1, <2>3, <3>1, <4>1, <4>2 DEF Shelf!Show
    <3>3. CASE Full
      <4>1. Shelf!Cardinality(Served) = CacheSize
        BY <1>3, <3>3, CacheSizeAssumption DEF Full, CacheInv, TypeOK
      <4>2. DOMAIN KeptIndex = Served \ {Head(artworks)}
        BY <1>1, <3>3 DEF KeptIndex
      <4>3. Head(artworks) \in Served
        <5>1. 1 \in 1..Len(artworks) /\ Head(artworks) = artworks[1]
          BY <3>3, CacheSizeAssumption DEF Full, CacheInv, TypeOK
        <5> QED
          BY <1>1, <5>1 DEF CacheInv, IndexMatchesVector
      <4> QED
        BY <1>1, <2>1, <2>3, <3>1, <4>1, <4>2, <4>3 DEF Shelf!Show
    <3> QED
      BY <3>2, <3>3
  <2> QED
    BY <1>5, <2>2, <2>3 DEF ApplyArtwork, CacheArtwork
<1>6. CASE UNCHANGED vars
  BY <1>1, <1>2, <1>6 DEF vars, Shelf!shelfVars
<1> QED
  BY <1>4, <1>5, <1>6 DEF Next, Shelf!ShelfNext

(* The vector and the map implement the abstract shelf: storing a new      *)
(* artwork costs readers at most one other, and none while there is room.  *)
THEOREM CacheImplementsShelf == Spec => ImplementsShelf
<1>1. CacheInv /\ [Next]_vars => CacheInv'
  BY CacheInvNext
<1> QED
  BY CacheInvariant, ShelfInitMaps, ShelfStepMaps, PTL
     DEF Spec, ImplementsShelf, Shelf!ShelfSpec
=============================================================================
