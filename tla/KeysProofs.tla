------------------------------ MODULE KeysProofs ------------------------------
(***************************************************************************)
(* The artwork cache and the suspension of keys, for any number of keys,   *)
(* renderings, artworks and presses.                                       *)
(***************************************************************************)
EXTENDS Keys, TLAPS

(* A sequence built index by index over another one.                       *)
LEMMA SeqByIndex ==
    ASSUME NEW S, NEW n \in Nat, NEW f \in [1..n -> S]
    PROVE  f \in Seq(S) /\ Len(f) = n
OBVIOUS

Truthful(c) == \A i \in 1..Len(c) : c[i].art = c[i].path

(* Dropping the oldest entry leaves room and tells no lie.                 *)
LEMMA DropOldest ==
    ASSUME NEW c \in Seq(CacheEntries), c # <<>>
    PROVE  /\ Tail(c) \in Seq(CacheEntries)
           /\ Len(Tail(c)) = Len(c) - 1
           /\ Truthful(c) => Truthful(Tail(c))
<1>1. Tail(c) \in Seq(CacheEntries) /\ Len(Tail(c)) = Len(c) - 1
  OBVIOUS
<1>2. \A i \in 1..Len(Tail(c)) : i + 1 \in 1..Len(c) /\ Tail(c)[i] = c[i + 1]
  BY <1>1
<1>3. Truthful(c) => Truthful(Tail(c))
  BY <1>2 DEF Truthful
<1> QED
  BY <1>1, <1>3

(* Setting an entry of a cache that has room: it stays typed, one longer   *)
(* at most, and truthful if the entry is.                                  *)
LEMMA SetEntry ==
    ASSUME NEW c \in Seq(CacheEntries), NEW p \in Paths, NEW a \in Paths \union {NoArt},
           NEW d, d = IF \E i \in 1..Len(c) : c[i].path = p
                      THEN [i \in 1..Len(c) |-> IF c[i].path = p THEN [path |-> p, art |-> a]
                                                                 ELSE c[i]]
                      ELSE Append(c, [path |-> p, art |-> a])
    PROVE  /\ d \in Seq(CacheEntries)
           /\ Len(d) <= Len(c) + 1
           /\ (\E i \in 1..Len(c) : c[i].path = p) => Len(d) = Len(c)
           /\ Truthful(c) /\ a = p => Truthful(d)
<1> DEFINE e == [path |-> p, art |-> a]
<1>1. e \in CacheEntries /\ e.path = p /\ e.art = a
  BY DEF CacheEntries
<1>2. Len(c) \in Nat /\ \A i \in 1..Len(c) : c[i] \in CacheEntries
  OBVIOUS
<1>3. CASE \E i \in 1..Len(c) : c[i].path = p
  <2> DEFINE f == [i \in 1..Len(c) |-> IF c[i].path = p THEN e ELSE c[i]]
  <2>1. d = f
    BY <1>3
  <2>2. f \in [1..Len(c) -> CacheEntries]
    BY <1>1, <1>2
  <2>3. f \in Seq(CacheEntries) /\ Len(f) = Len(c)
    BY ONLY <1>2, <2>2, SeqByIndex
  <2>4. Truthful(c) /\ a = p => Truthful(f)
    BY <1>1, <2>3 DEF Truthful
  <2> HIDE DEF f
  <2> QED
    BY ONLY <1>2, <2>1, <2>3, <2>4
<1>4. CASE ~\E i \in 1..Len(c) : c[i].path = p
  <2>1. d = Append(c, e)
    BY <1>4
  <2>2. /\ d \in Seq(CacheEntries) /\ Len(d) = Len(c) + 1
        /\ \A i \in 1..Len(c) : d[i] = c[i]
        /\ d[Len(c) + 1] = e
    BY <1>1, <2>1
  <2>3. Truthful(c) /\ a = p => Truthful(d)
    BY <1>1, <1>2, <2>2 DEF Truthful
  <2> QED
    BY <1>2, <1>4, <2>2, <2>3
<1> QED
  BY <1>3, <1>4

CacheOK(c) == c \in Seq(CacheEntries) /\ Len(c) <= CacheSize

(* What a download leaves in the cache.                                    *)
LEMMA InsertKeeps ==
    ASSUME CacheOK(artworkCache), NEW p \in Paths, NEW a \in Paths \union {NoArt}
    PROVE  /\ CacheOK(Insert(p, a))
           /\ Truthful(artworkCache) /\ a = p => Truthful(Insert(p, a))
<1> DEFINE kept == IF Len(artworkCache) >= CacheSize THEN Tail(artworkCache) ELSE artworkCache
<1>1. /\ kept \in Seq(CacheEntries) /\ Len(kept) + 1 <= CacheSize
      /\ Truthful(artworkCache) => Truthful(kept)
  <2>1. CASE Len(artworkCache) >= CacheSize
    <3>1. artworkCache # <<>> /\ Len(artworkCache) = CacheSize
      BY <2>1, KeysAssumption DEF CacheOK
    <3>2. kept = Tail(artworkCache)
      BY <2>1
    <3> QED
      BY <3>1, <3>2, DropOldest, KeysAssumption DEF CacheOK
  <2>2. CASE ~(Len(artworkCache) >= CacheSize)
    BY <2>2, KeysAssumption DEF CacheOK
  <2> QED
    BY <2>1, <2>2
<1>2. Insert(p, a) = IF \E i \in 1..Len(kept) : kept[i].path = p
                     THEN [i \in 1..Len(kept) |-> IF kept[i].path = p THEN [path |-> p, art |-> a]
                                                                      ELSE kept[i]]
                     ELSE Append(kept, [path |-> p, art |-> a])
  BY DEF Insert
<1> HIDE DEF kept
<1>3. /\ Insert(p, a) \in Seq(CacheEntries)
      /\ Len(Insert(p, a)) <= Len(kept) + 1
      /\ Truthful(kept) /\ a = p => Truthful(Insert(p, a))
  BY <1>1, <1>2, SetEntry
<1>4. Len(kept) \in Nat /\ Len(Insert(p, a)) \in Nat
  BY <1>1, <1>3
<1> QED
  BY <1>1, <1>3, <1>4, KeysAssumption DEF CacheOK

-----------------------------------------------------------------------------
Records == [Keys -> [Slots -> Renderings]]

LEMMA StatesTyped == /\ Unavailable \in States
                     /\ Idle \in Renderings
                     /\ \A s \in States : s.path \in Paths \union {NoArt} /\ s.playing \in BOOLEAN
BY DEF Unavailable, Idle, States, Renderings

LEMMA PictureTyped ==
    ASSUME NEW s \in States, NEW a \in Paths \union {NoArt}
    PROVE  Picture(s, a) \in Pictures
BY DEF Picture, Pictures

(* Starting renderings keeps renderings and images what they are.          *)
LEMMA RenderTyped ==
    ASSUME TypeOK, NEW ks \in SUBSET Keys, NEW next \in States, Render(ks, next)
    PROVE  renders' \in Records /\ image' \in [Keys -> Pictures]
<1>1. \A k \in ks : FreeSlot(k) \in Slots
  BY DEF Render, Room, FreeSlot
<1> DEFINE new == [at |-> IF next.available THEN "settings" ELSE "title",
                   snapshot |-> next, path |-> NoArt]
<1>2. new \in Renderings
  BY DEF Renderings
<1>3. \A k \in Keys : renders[k] \in [Slots -> Renderings] /\ image[k] \in Pictures
  BY DEF TypeOK
<1>4. Picture(next, NoArt) \in Pictures
  BY PictureTyped
<1>5. renders' = [k \in Keys |-> IF k \in ks THEN [renders[k] EXCEPT ![FreeSlot(k)] = new]
                                             ELSE renders[k]]
  BY DEF Render
<1> HIDE DEF new
<1>6. renders' \in Records
  BY <1>1, <1>2, <1>3, <1>5 DEF Records
<1>7. image' \in [Keys -> Pictures]
  BY <1>3, <1>4 DEF Render
<1> QED
  BY <1>6, <1>7

LEMMA SetImageTyped ==
    ASSUME TypeOK, NEW k \in Keys, NEW s \in Slots, NEW a \in Paths \union {NoArt},
           SetImage(k, s, a)
    PROVE  renders' \in Records /\ image' \in [Keys -> Pictures]
<1>1. renders[k][s] \in Renderings
  BY DEF TypeOK
<1>2. renders[k][s].snapshot \in States
  BY <1>1 DEF Renderings
<1>3. Picture(renders[k][s].snapshot, a) \in Pictures
  BY <1>2, PictureTyped
<1>4. image' \in [Keys -> Pictures]
  BY <1>3 DEF TypeOK, SetImage
<1>5. [renders[k][s] EXCEPT !.at = "title", !.path = NoArt] \in Renderings
  BY <1>1 DEF Renderings
<1>6. renders' \in Records
  BY <1>5 DEF TypeOK, SetImage, Records
<1> QED
  BY <1>4, <1>6

(* Types, and the truth of the cache, which is what makes a cached image a *)
(* path or nothing.                                                        *)
TruthInv == TypeOK /\ CacheTruthful

LEMMA TruthStep == TruthInv /\ [Next]_vars => TruthInv'
<1> SUFFICES ASSUME TruthInv, [Next]_vars PROVE TruthInv'
  OBVIOUS
<1>t. TypeOK /\ CacheTruthful
  BY DEF TruthInv
<1>c. CacheOK(artworkCache) /\ Truthful(artworkCache)
  BY <1>t DEF TypeOK, CacheOK, CacheTruthful, Truthful
<1>same. ASSUME UNCHANGED artworkCache PROVE CacheTruthful'
  BY <1>t, <1>same DEF CacheTruthful
<1>1. CASE UNCHANGED vars
  BY <1>t, <1>same, <1>1 DEF vars, keyVars, TruthInv, TypeOK
<1>2. ASSUME NEW k \in Keys, NEW s \in Slots, DrawAtOnce(k, s) PROVE TruthInv'
  <2>1. PICK a \in Paths \union {NoArt} : SetImage(k, s, a)
    <3>1. ASSUME NEW i \in Cached(WantedPath(k, s)) PROVE artworkCache[i].art \in Paths \union {NoArt}
      <4>1. i \in 1..Len(artworkCache)
        BY DEF Cached
      <4>2. artworkCache[i] \in CacheEntries
        BY <1>c, <4>1 DEF CacheOK
      <4> QED
        BY <4>2 DEF CacheEntries
    <3> QED
      BY <1>2, <3>1 DEF DrawAtOnce
  <2>2. renders' \in Records /\ image' \in [Keys -> Pictures]
    BY <1>t, <2>1, SetImageTyped
  <2> QED
    BY <1>t, <1>2, <1>same, <2>2 DEF DrawAtOnce, TruthInv, TypeOK, Records
<1>3. ASSUME NEW k \in Keys, NEW s \in Slots, StartFetch(k, s) PROVE TruthInv'
  <2>1. renders[k][s] \in Renderings /\ WantedPath(k, s) \in Paths \union {NoArt}
    BY <1>t, StatesTyped DEF TypeOK, WantedPath
  <2>2. [renders[k][s] EXCEPT !.at = "fetch", !.path = WantedPath(k, s)] \in Renderings
    BY <1>3, <2>1 DEF Renderings, StartFetch
  <2>3. renders' \in Records
    BY <1>t, <1>3, <2>2 DEF TypeOK, StartFetch, Records
  <2> QED
    BY <1>t, <1>3, <1>same, <2>3 DEF StartFetch, TruthInv, TypeOK, Records, keyVars
<1>4. ASSUME NEW k \in Keys, NEW s \in Slots, Fetched(k, s) PROVE TruthInv'
  <2>1. renders[k][s] \in Renderings /\ renders[k][s].at = "fetch"
    BY <1>t, <1>4 DEF Fetched, TypeOK
  <2>2. renders[k][s].path \in Paths
    BY <2>1 DEF Renderings
  <2>4. renders' \in Records /\ image' \in [Keys -> Pictures]
    BY <1>t, <1>4, <2>2, SetImageTyped DEF Fetched
  <2>3. CacheOK(artworkCache') /\ Truthful(artworkCache')
    BY <1>c, <1>4, <2>2, InsertKeeps DEF Fetched
  <2> QED
    BY <1>t, <1>4, <2>4, <2>3 DEF Fetched, TruthInv, TypeOK, Records, CacheOK, CacheTruthful, Truthful
<1>5. ASSUME NEW k \in Keys, NEW s \in Slots, FetchFails(k, s) PROVE TruthInv'
  <2>1. renders' \in Records /\ image' \in [Keys -> Pictures]
    BY <1>t, <1>5, SetImageTyped DEF FetchFails
  <2> QED
    BY <1>t, <1>5, <1>same, <2>1 DEF FetchFails, TruthInv, TypeOK, Records
<1>6. ASSUME NEW k \in Keys, NEW s \in Slots, ClearTitle(k, s) PROVE TruthInv'
  BY <1>t, <1>6, <1>same, StatesTyped DEF ClearTitle, TruthInv, TypeOK
<1>7. ASSUME NEW next \in States, Notify(next) PROVE TruthInv'
  <2>1. renders' \in Records /\ image' \in [Keys -> Pictures]
    BY <1>t, <1>7, RenderTyped DEF Notify, Refresh
  <2> QED
    BY <1>t, <1>7, <1>same, <2>1, KeysAssumption DEF Notify, TruthInv, TypeOK, Records
<1>8. ASSUME Refresh(state), UNCHANGED <<state, artworkCache, message, flashes, entry, strays, events>>
      PROVE  TruthInv'
  <2>1. renders' \in Records /\ image' \in [Keys -> Pictures]
    BY <1>t, <1>8, RenderTyped DEF Refresh, TypeOK
  <2> QED
    BY <1>t, <1>8, <1>same, <2>1 DEF TruthInv, TypeOK, Records
<1>9. ASSUME NEW k \in Keys, Render({k}, state) PROVE renders' \in Records /\ image' \in [Keys -> Pictures]
  BY <1>t, <1>9, RenderTyped DEF TypeOK
<1>10. ASSUME NEW k \in Keys, Appear(k) PROVE TruthInv'
  <2>1. renders' \in Records /\ image' \in [Keys -> Pictures]
    BY <1>9, <1>10 DEF Appear
  <2> QED
    BY <1>t, <1>10, <1>same, <2>1, KeysAssumption DEF Appear, TruthInv, TypeOK, Records
<1>11. ASSUME NEW k \in Keys, Flash(k) PROVE TruthInv'
  BY <1>t, <1>11, <1>same, KeysAssumption DEF Flash, TruthInv, TypeOK
<1>12. ASSUME NEW k \in Keys, Arm(k) PROVE TruthInv'
  BY <1>t, <1>12, <1>same DEF Arm, TruthInv, TypeOK
<1>13. ASSUME NEW k \in Keys, TimerFires(k) PROVE TruthInv'
  <2>1. renders' \in Records /\ image' \in [Keys -> Pictures]
    BY <1>9, <1>13 DEF TimerFires
  <2> QED
    BY <1>t, <1>13, <1>same, <2>1 DEF TimerFires, TruthInv, TypeOK, Records
<1>14. ASSUME NEW k \in Keys, StrayFires(k) PROVE TruthInv'
  <2>1. renders' \in Records /\ image' \in [Keys -> Pictures]
    BY <1>9, <1>14 DEF StrayFires
  <2>2. strays' \in [Keys -> Nat] /\ entry' \in [Keys -> {"none", "live", "cleared"}]
    <3>1. strays \in [Keys -> Nat] /\ strays[k] - 1 \in Nat
      BY <1>t, <1>14 DEF StrayFires, TypeOK
    <3> QED
      BY <1>t, <1>14, <3>1 DEF StrayFires, TypeOK
  <2> QED
    BY <1>t, <1>14, <1>same, <2>1, <2>2 DEF StrayFires, TruthInv, TypeOK, Records
<1>15. CASE Tick \/ Animate
  BY <1>8, <1>15 DEF Tick, Animate
<1> QED
  BY <1>1, <1>2, <1>3, <1>4, <1>5, <1>6, <1>7, <1>10, <1>11, <1>12, <1>13, <1>14, <1>15 DEF Next

LEMMA TruthInvariant == Spec => []TruthInv
<1>1. Init => TruthInv
  <2> SUFFICES ASSUME Init PROVE TruthInv
    OBVIOUS
  <2>1. TypeOK
    BY StatesTyped, PictureTyped, KeysAssumption DEF Init, TypeOK
  <2>2. CacheTruthful
    BY DEF Init, CacheTruthful
  <2> QED
    BY <2>1, <2>2 DEF TruthInv
<1> QED
  BY <1>1, TruthStep, PTL DEF Spec

(* The types of the keys and of their renderings, and the bound of the     *)
(* cache: several renderings that fill it at once do not outgrow it.       *)
THEOREM TypeCorrect == Spec => []TypeOK
<1>1. TruthInv => TypeOK
  BY DEF TruthInv
<1> QED
  BY <1>1, TruthInvariant, PTL

(* The plugin's artwork cache holds under each path the image of that      *)
(* path, whatever the state became during the download.                    *)
THEOREM ArtworkIsOfPath == Spec => []CacheTruthful
<1>1. TruthInv => CacheTruthful
  BY DEF TruthInv
<1> QED
  BY <1>1, TruthInvariant, PTL

-----------------------------------------------------------------------------
LEMMA FrozenStep == TypeOK /\ NotFrozen /\ [Next]_vars => NotFrozen'
<1> SUFFICES ASSUME TypeOK, NotFrozen, [Next]_vars PROVE NotFrozen'
  OBVIOUS
<1>1. CASE UNCHANGED <<entry, flashes>>
  BY <1>1 DEF NotFrozen
<1>2. ASSUME NEW k \in Keys, Flash(k) PROVE NotFrozen'
  BY <1>2 DEF Flash, NotFrozen, TypeOK
<1>3. ASSUME NEW k \in Keys, Arm(k) PROVE NotFrozen'
  BY <1>3 DEF Arm, NotFrozen, TypeOK
<1>4. ASSUME NEW k \in Keys, TimerFires(k) \/ StrayFires(k) PROVE NotFrozen'
  BY <1>4 DEF TimerFires, StrayFires, NotFrozen, TypeOK
<1> QED
  BY <1>1, <1>2, <1>3, <1>4 DEF Next, vars, keyVars, DrawAtOnce, StartFetch, Fetched, FetchFails,
      ClearTitle, Notify, Tick, Animate, Appear

(* However presses, timers and renderings interleave, a key that refresh   *)
(* skips has a timer that will bring it back, or is about to have one.     *)
THEOREM NeverFrozen == Spec => []NotFrozen
<1>1. Init => NotFrozen
  BY DEF Init, NotFrozen
<1> QED
  BY <1>1, FrozenStep, TypeCorrect, PTL DEF Spec

-----------------------------------------------------------------------------
(* Something is under way that will take the message off the key: a timer, *)
(* in the map or overwritten, a call of flash that is about to set one, or *)
(* a rendering, which ends by clearing the title.                          *)
Rendering(k) == \E s \in Slots : renders[k][s].at # "idle"

EndUnderWay(k) == entry[k] = "live" \/ strays[k] > 0 \/ flashes[k] > 0 \/ Rendering(k)

MessageEndsUnderWay == \A k \in Keys : message[k] => EndUnderWay(k)

(* The renderings that start take free slots, and are renderings.          *)
LEMMA RenderGoesOn ==
    ASSUME TypeOK, NEW ks \in SUBSET Keys, NEW next \in States, Render(ks, next), NEW k \in Keys
    PROVE  (k \in ks \/ Rendering(k)) => Rendering(k)'
<1> DEFINE new == [at |-> IF next.available THEN "settings" ELSE "title",
                   snapshot |-> next, path |-> NoArt]
<1>1. renders[k] \in [Slots -> Renderings]
  BY DEF TypeOK
<1>2. renders'[k] = IF k \in ks THEN [renders[k] EXCEPT ![FreeSlot(k)] = new] ELSE renders[k]
  BY DEF Render
<1>3. new.at # "idle"
  OBVIOUS
<1>4. CASE k \in ks
  <2>1. FreeSlot(k) \in Slots
    BY <1>4 DEF Render, Room, FreeSlot
  <2>2. renders'[k][FreeSlot(k)] = new
    BY <1>1, <1>2, <1>4, <2>1
  <2>3. renders'[k][FreeSlot(k)].at # "idle"
    BY <1>3, <2>2
  <2> QED
    BY <2>1, <2>3 DEF Rendering
<1>5. CASE k \notin ks
  BY <1>2, <1>5 DEF Rendering
<1> QED
  BY <1>4, <1>5

(* No step of a rendering but its last ends it.                            *)
LEMMA RenderStepGoesOn ==
    ASSUME TypeOK, NEW k \in Keys, NEW s \in Slots,
           DrawAtOnce(k, s) \/ StartFetch(k, s) \/ Fetched(k, s) \/ FetchFails(k, s),
           NEW j \in Keys, Rendering(j)
    PROVE  Rendering(j)'
<1>1. renders \in [Keys -> [Slots -> Renderings]] /\ renders[k][s] \in Renderings
  BY DEF TypeOK
<1>2. renders[k][s].at # "idle"
  BY DEF DrawAtOnce, StartFetch, Fetched, FetchFails
<1>3. PICK p : \/ renders' = [renders EXCEPT ![k][s].at = "title", ![k][s].path = p]
               \/ renders' = [renders EXCEPT ![k][s].at = "fetch", ![k][s].path = p]
  BY DEF DrawAtOnce, StartFetch, Fetched, FetchFails, SetImage
<1>4. PICK t \in Slots : renders[j][t].at # "idle"
  BY DEF Rendering
<1>5. PICK a \in {"title", "fetch"} :
         renders' = [renders EXCEPT ![k][s].at = a, ![k][s].path = p]
  BY <1>3
<1>6. renders' = [renders EXCEPT ![k] = [renders[k] EXCEPT
                    ![s] = [renders[k][s] EXCEPT !.at = a, !.path = p]]]
  BY <1>1, <1>5
<1>7. [renders[k][s] EXCEPT !.at = a, !.path = p].at = a
  BY <1>1 DEF Renderings
<1>8. renders'[j][t].at # "idle"
  <2>1. CASE j = k /\ t = s
    BY <1>1, <1>6, <1>7, <2>1
  <2>2. CASE ~(j = k /\ t = s)
    BY <1>1, <1>4, <1>6, <2>2
  <2> QED
    BY <2>1, <2>2
<1> QED
  BY <1>8 DEF Rendering

LEMMA MessageStep == TypeOK /\ MessageEndsUnderWay /\ [Next]_vars => MessageEndsUnderWay'
<1> SUFFICES ASSUME TypeOK, MessageEndsUnderWay, [Next]_vars, NEW j \in Keys, message'[j]
             PROVE  EndUnderWay(j)'
  BY DEF MessageEndsUnderWay
<1>t. message[j] => EndUnderWay(j)
  BY DEF MessageEndsUnderWay
<1>1. CASE UNCHANGED vars
  BY <1>t, <1>1 DEF vars, keyVars, EndUnderWay, Rendering
<1>2. ASSUME NEW k \in Keys, NEW s \in Slots,
             DrawAtOnce(k, s) \/ StartFetch(k, s) \/ Fetched(k, s) \/ FetchFails(k, s)
      PROVE  EndUnderWay(j)'
  <2>1. UNCHANGED <<message, entry, strays, flashes>>
    BY <1>2 DEF DrawAtOnce, StartFetch, Fetched, FetchFails, keyVars
  <2>2. Rendering(j) => Rendering(j)'
    BY <1>2, RenderStepGoesOn
  <2> QED
    BY <1>t, <2>1, <2>2 DEF EndUnderWay
<1>3. ASSUME NEW k \in Keys, NEW s \in Slots, ClearTitle(k, s) PROVE EndUnderWay(j)'
  <2>1. j # k
    BY <1>3 DEF ClearTitle, TypeOK
  <2>2. message'[j] = message[j] /\ renders'[j] = renders[j]
    BY <1>3, <2>1 DEF ClearTitle, TypeOK
  <2> QED
    BY <1>t, <1>3, <2>2 DEF ClearTitle, EndUnderWay, Rendering
<1>4. ASSUME NEW ks \in SUBSET Keys, NEW next \in States, Render(ks, next),
             UNCHANGED <<message, flashes, entry, strays>>
      PROVE  EndUnderWay(j)'
  <2>1. Rendering(j) => Rendering(j)'
    BY <1>4, RenderGoesOn
  <2> QED
    BY <1>t, <1>4, <2>1 DEF EndUnderWay
<1>5. state \in States
  BY DEF TypeOK
<1>6. CASE \E next \in States : Notify(next)
  BY <1>4, <1>6 DEF Notify, Refresh
<1>7. CASE Tick \/ Animate
  BY <1>4, <1>5, <1>7 DEF Tick, Animate, Refresh
<1>8. ASSUME NEW k \in Keys, Appear(k) PROVE EndUnderWay(j)'
  BY <1>4, <1>5, <1>8 DEF Appear
<1>9. ASSUME NEW k \in Keys, Flash(k) PROVE EndUnderWay(j)'
  <2>1. CASE j = k
    BY <1>9, <2>1 DEF Flash, EndUnderWay, TypeOK
  <2>2. CASE j # k
    BY <1>t, <1>9, <2>2 DEF Flash, EndUnderWay, Rendering, TypeOK
  <2> QED
    BY <2>1, <2>2
<1>10. ASSUME NEW k \in Keys, Arm(k) PROVE EndUnderWay(j)'
  <2>1. CASE j = k
    BY <1>10, <2>1 DEF Arm, EndUnderWay, TypeOK
  <2>2. CASE j # k
    BY <1>t, <1>10, <2>2 DEF Arm, EndUnderWay, Rendering, TypeOK
  <2> QED
    BY <2>1, <2>2
<1>11. ASSUME NEW k \in Keys, TimerFires(k) \/ StrayFires(k) PROVE EndUnderWay(j)'
  <2>1. (j = k \/ Rendering(j)) => Rendering(j)'
    BY <1>5, <1>11, RenderGoesOn DEF TimerFires, StrayFires
  <2>2. j # k => UNCHANGED <<message[j], flashes[j], entry[j], strays[j]>>
    BY <1>11 DEF TimerFires, StrayFires, TypeOK
  <2> QED
    BY <1>t, <2>1, <2>2 DEF EndUnderWay
<1> QED
  BY <1>1, <1>2, <1>3, <1>6, <1>7, <1>8, <1>9, <1>10, <1>11 DEF Next

(* The end of every short message is under way as long as it shows, even   *)
(* when presses overwrite each other's timers; MessageRestored follows     *)
(* once timers fire and renderings end.                                    *)
THEOREM MessagesAreTemporary == Spec => []MessageEndsUnderWay
<1>1. Init => MessageEndsUnderWay
  BY DEF Init, MessageEndsUnderWay
<1> QED
  BY <1>1, MessageStep, TypeCorrect, PTL DEF Spec
=============================================================================
