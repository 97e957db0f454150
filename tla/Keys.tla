--------------------------------- MODULE Keys ---------------------------------
(***************************************************************************)
(* The keys that show an artwork (actions/base.ts, actions/info.ts) and    *)
(* the plugin's artwork cache (artworkDataUrl of bridge-service.ts).  A    *)
(* rendering takes a snapshot of the state, awaits the settings, then      *)
(* reads the state *again* for the path of the artwork, awaits its         *)
(* download, and only then sets the image; nothing keeps two renderings of *)
(* a key in order.  A short message suspends a key until its timer fires.  *)
(*                                                                         *)
(* One step is the code between two awaits of the plugin's only thread.    *)
(***************************************************************************)
EXTENDS Naturals, Sequences

CONSTANTS
    Keys,               \* the visible keys
    Paths,              \* paths of artworks
    NoArt,
    CacheSize,          \* ARTWORK_CACHE_SIZE
    ShowArtworkOnKeys,  \* the global setting of that name
    MaxRenders,         \* bound: renderings in flight for one key
    MaxEvents           \* bound: state changes, appearances and presses

ASSUME KeysAssumption ==
    /\ NoArt \notin Paths
    /\ CacheSize \in Nat \ {0}
    /\ ShowArtworkOnKeys \in BOOLEAN
    /\ MaxRenders \in Nat \ {0} /\ MaxEvents \in Nat

Slots == 1..MaxRenders

(* What a snapshot shows; every field that only changes the text is left   *)
(* out.                                                                    *)
States ==
    [available : {TRUE}, playing : BOOLEAN, path : Paths \union {NoArt}]
        \union [available : {FALSE}, playing : {FALSE}, path : {NoArt}]

Unavailable == [available |-> FALSE, playing |-> FALSE, path |-> NoArt]

VARIABLES
    state,         \* BridgeService.state
    artworkCache,  \* its cache, oldest entry first
    renders,       \* the renderings of each key, one slot each
    image,         \* what setImage was last called with, for each key
    message,       \* whether the title of the key is a short message
    flashes,       \* calls of flash that await their setTitle
    entry,         \* the key's timer in transientTimers, and what became of it
    strays,        \* live timers of the key that the map no longer holds
    events

keyVars == <<image, message, flashes, entry, strays>>
vars == <<state, artworkCache, renders, keyVars, events>>

Idle == [at |-> "idle", snapshot |-> Unavailable, path |-> NoArt]

Picture(snapshot, art) == [snapshot |-> snapshot, art |-> art]

Init ==
    /\ state = Unavailable
    /\ artworkCache = <<>>
    /\ renders = [k \in Keys |-> [s \in Slots |-> Idle]]
    /\ image = [k \in Keys |-> Picture(Unavailable, NoArt)]
    /\ message = [k \in Keys |-> FALSE]
    /\ flashes = [k \in Keys |-> 0]
    /\ entry = [k \in Keys |-> "none"]
    /\ strays = [k \in Keys |-> 0]
    /\ events = 0

-----------------------------------------------------------------------------
(* Renderings.                                                             *)

Room(k) == \E s \in Slots : renders[k][s].at = "idle"

FreeSlot(k) == CHOOSE s \in Slots : renders[k][s].at = "idle"

(* Starts a rendering of a snapshot on each of these keys.  Without a      *)
(* player the image is set at once; else the settings are awaited first.   *)
Render(ks, snapshot) ==
    /\ \A k \in ks : Room(k)
    /\ renders' = [k \in Keys |->
          IF k \in ks
          THEN [renders[k] EXCEPT ![FreeSlot(k)] =
                   [at |-> IF snapshot.available THEN "settings" ELSE "title",
                    snapshot |-> snapshot, path |-> NoArt]]
          ELSE renders[k]]
    /\ image' = [k \in Keys |->
          IF k \in ks /\ ~snapshot.available THEN Picture(snapshot, NoArt) ELSE image[k]]

(* BridgeAction.refresh, on the keys that show no message.                 *)
Refresh(snapshot) == Render({k \in Keys : entry[k] = "none"}, snapshot)

Cached(path) == {i \in 1..Len(artworkCache) : artworkCache[i].path = path}

(* Faulty variant: the size of the cache is not tested.                    *)
InsertUnbounded(path, art) ==
    IF Cached(path) # {} THEN artworkCache
    ELSE Append(artworkCache, [path |-> path, art |-> art])

(* The end of artworkDataUrl: the size is tested and the entry set after   *)
(* the download, when another rendering may have set it already; a Map     *)
(* keeps the place of an entry that is set again.                          *)
Insert(path, art) ==
    LET kept == IF Len(artworkCache) >= CacheSize THEN Tail(artworkCache) ELSE artworkCache
    IN  IF \E i \in 1..Len(kept) : kept[i].path = path
        THEN [i \in 1..Len(kept) |-> IF kept[i].path = path THEN [path |-> path, art |-> art]
                                                            ELSE kept[i]]
        ELSE Append(kept, [path |-> path, art |-> art])

SetImage(k, s, art) ==
    /\ image' = [image EXCEPT ![k] = Picture(renders[k][s].snapshot, art)]
    /\ renders' = [renders EXCEPT ![k][s].at = "title", ![k][s].path = NoArt]

(* The path that artwork and artworkDataUrl go by: the snapshot tells only *)
(* whether there is one.                                                   *)
WantedPath(k, s) ==
    IF ShowArtworkOnKeys /\ renders[k][s].snapshot.path # NoArt THEN state.path ELSE NoArt

(* The settings are there and no download is needed.                       *)
DrawAtOnce(k, s) ==
    /\ renders[k][s].at = "settings"
    /\ \/ /\ WantedPath(k, s) = NoArt
          /\ SetImage(k, s, NoArt)
       \/ \E i \in Cached(WantedPath(k, s)) : SetImage(k, s, artworkCache[i].art)
    /\ UNCHANGED <<state, artworkCache, message, flashes, entry, strays, events>>

StartFetch(k, s) ==
    /\ renders[k][s].at = "settings"
    /\ WantedPath(k, s) # NoArt /\ Cached(WantedPath(k, s)) = {}
    /\ renders' = [renders EXCEPT ![k][s].at = "fetch", ![k][s].path = WantedPath(k, s)]
    /\ UNCHANGED <<state, artworkCache, keyVars, events>>

(* Faulty variant: the image is kept under the path of the present state.  *)
FetchedUnderState(k, s) ==
    /\ renders[k][s].at = "fetch"
    /\ artworkCache' = Insert(state.path, renders[k][s].path)
    /\ SetImage(k, s, renders[k][s].path)
    /\ UNCHANGED <<state, message, flashes, entry, strays, events>>

(* The bridge serves the image a path names, since keys derive from bytes. *)
Fetched(k, s) ==
    /\ renders[k][s].at = "fetch"
    /\ artworkCache' = Insert(renders[k][s].path, renders[k][s].path)
    /\ SetImage(k, s, renders[k][s].path)
    /\ UNCHANGED <<state, message, flashes, entry, strays, events>>

(* No answer in three seconds, an error, or an image too large.            *)
FetchFails(k, s) ==
    /\ renders[k][s].at = "fetch"
    /\ SetImage(k, s, NoArt)
    /\ UNCHANGED <<state, artworkCache, message, flashes, entry, strays, events>>

(* The title is cleared once Stream Deck has taken the image.              *)
ClearTitle(k, s) ==
    /\ renders[k][s].at = "title"
    /\ message' = [message EXCEPT ![k] = FALSE]
    /\ renders' = [renders EXCEPT ![k][s] = Idle]
    /\ UNCHANGED <<state, artworkCache, image, flashes, entry, strays, events>>

-----------------------------------------------------------------------------
(* What starts renderings.                                                 *)

(* BridgeService.notify after a new state, or the same once more.          *)
Notify(next) ==
    /\ events < MaxEvents
    /\ events' = events + 1
    /\ state' = next
    /\ Refresh(next)
    /\ UNCHANGED <<artworkCache, message, flashes, entry, strays>>

(* Faulty variant: keys that already show the state are left alone.        *)
TickUnlessShown ==
    /\ state.playing
    /\ \E k \in Keys : image[k].snapshot # state
    /\ Refresh(state)
    /\ UNCHANGED <<state, artworkCache, message, flashes, entry, strays, events>>

(* The timer of plugin.ts that makes the position go on.                   *)
Tick ==
    /\ state.playing
    /\ Refresh(state)
    /\ UNCHANGED <<state, artworkCache, message, flashes, entry, strays, events>>

(* The timer that scrolls the texts that overflow, playing or not.         *)
Animate ==
    /\ state.available
    /\ Refresh(state)
    /\ UNCHANGED <<state, artworkCache, message, flashes, entry, strays, events>>

(* The end of onWillAppear, which does not look at the messages.           *)
Appear(k) ==
    /\ events < MaxEvents
    /\ events' = events + 1
    /\ Render({k}, state)
    /\ UNCHANGED <<state, artworkCache, message, flashes, entry, strays>>

-----------------------------------------------------------------------------
(* Short messages.                                                         *)

(* flash up to its await, when a press could not be carried out.           *)
Flash(k) ==
    /\ events < MaxEvents
    /\ events' = events + 1
    /\ entry' = [entry EXCEPT ![k] = IF entry[k] = "live" THEN "cleared" ELSE entry[k]]
    /\ message' = [message EXCEPT ![k] = TRUE]
    /\ flashes' = [flashes EXCEPT ![k] = @ + 1]
    /\ UNCHANGED <<state, artworkCache, renders, image, strays>>

(* Faulty variant: a timer is set only if the map has none.                *)
ArmOnce(k) ==
    /\ flashes[k] > 0
    /\ flashes' = [flashes EXCEPT ![k] = @ - 1]
    /\ entry' = [entry EXCEPT ![k] = IF entry[k] = "none" THEN "live" ELSE entry[k]]
    /\ UNCHANGED <<state, artworkCache, renders, image, message, strays, events>>

(* The rest of flash.  The timer of another call that got here first is    *)
(* overwritten, not cleared.                                               *)
Arm(k) ==
    /\ flashes[k] > 0
    /\ flashes' = [flashes EXCEPT ![k] = @ - 1]
    /\ entry' = [entry EXCEPT ![k] = "live"]
    /\ strays' = [strays EXCEPT ![k] = IF entry[k] = "live" THEN @ + 1 ELSE @]
    /\ UNCHANGED <<state, artworkCache, renders, image, message, events>>

(* Faulty variant: the key is left to the next refresh.                    *)
TimerFiresSilently(k) ==
    /\ entry[k] = "live"
    /\ entry' = [entry EXCEPT ![k] = "none"]
    /\ UNCHANGED <<state, artworkCache, renders, image, message, flashes, strays, events>>

TimerFires(k) ==
    /\ entry[k] = "live"
    /\ entry' = [entry EXCEPT ![k] = "none"]
    /\ Render({k}, state)
    /\ UNCHANGED <<state, artworkCache, message, flashes, strays, events>>

(* A timer that was overwritten also removes the entry of its successor.   *)
StrayFires(k) ==
    /\ strays[k] > 0
    /\ strays' = [strays EXCEPT ![k] = IF entry[k] = "live" THEN @ ELSE @ - 1]
    /\ entry' = [entry EXCEPT ![k] = "none"]
    /\ Render({k}, state)
    /\ UNCHANGED <<state, artworkCache, message, flashes, events>>

-----------------------------------------------------------------------------
RenderStep(k, s) ==
    DrawAtOnce(k, s) \/ StartFetch(k, s) \/ Fetched(k, s) \/ FetchFails(k, s) \/ ClearTitle(k, s)

Next ==
    \/ \E k \in Keys, s \in Slots :
          DrawAtOnce(k, s) \/ StartFetch(k, s) \/ Fetched(k, s) \/ FetchFails(k, s)
          \/ ClearTitle(k, s)
    \/ \E next \in States : Notify(next)
    \/ Tick \/ Animate
    \/ \E k \in Keys : Appear(k) \/ Flash(k) \/ Arm(k) \/ TimerFires(k) \/ StrayFires(k)

Spec == Init /\ [][Next]_vars

(* Awaited calls end (the download has a timeout), timers fire, and not    *)
(* every download of an artwork fails.  Strong fairness of what starts a   *)
(* rendering only makes up for the bound on renderings in flight.          *)
FairSpec ==
    /\ Spec
    /\ SF_vars(Tick)
    /\ \A k \in Keys : WF_vars(Arm(k)) /\ SF_vars(TimerFires(k)) /\ SF_vars(StrayFires(k))
    /\ \A k \in Keys, s \in Slots : WF_vars(RenderStep(k, s)) /\ SF_vars(Fetched(k, s))

-----------------------------------------------------------------------------
Renderings ==
    [at : {"idle", "settings", "title"}, snapshot : States, path : {NoArt}]
        \union [at : {"fetch"}, snapshot : States, path : Paths]

Pictures == [snapshot : States, art : Paths \union {NoArt}]

CacheEntries == [path : Paths, art : Paths \union {NoArt}]

(* The cache stays within its size, however many renderings fill it at     *)
(* once.                                                                   *)
TypeOK ==
    /\ state \in States
    /\ artworkCache \in Seq(CacheEntries) /\ Len(artworkCache) <= CacheSize
    /\ renders \in [Keys -> [Slots -> Renderings]]
    /\ image \in [Keys -> Pictures]
    /\ message \in [Keys -> BOOLEAN]
    /\ flashes \in [Keys -> Nat] /\ strays \in [Keys -> Nat]
    /\ entry \in [Keys -> {"none", "live", "cleared"}]
    /\ events \in 0..MaxEvents

(* artworkDataUrl never hands out the image of another path, although the  *)
(* state has often moved on when a download ends.                          *)
CacheTruthful ==
    \A i \in 1..Len(artworkCache) : artworkCache[i].art = artworkCache[i].path

(* A key that refresh skips is not skipped for ever: a timer will remove   *)
(* its entry, or a call of flash is about to set one.  Presses overtake    *)
(* each other inside flash.                                                *)
NotFrozen ==
    \A k \in Keys : entry[k] # "none" => entry[k] = "live" \/ flashes[k] > 0

(* Every message goes, and the key is drawn again.                         *)
MessageRestored == \A k \in Keys : message[k] ~> ~message[k]

Expected(s) == Picture(s, IF ShowArtworkOnKeys THEN s.path ELSE NoArt)

(* While a state with a player that plays lasts, every key ends up, and    *)
(* stays, with that state and its own artwork: the renderings of earlier   *)
(* states that are still waiting for a download are overwritten.           *)
PlayingShown ==
    \A s \in States : s.playing =>
        (<>[](state = s) => <>[](\A k \in Keys : image[k] = Expected(s)))
=============================================================================
