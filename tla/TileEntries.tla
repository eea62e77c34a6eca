------------------------------ MODULE TileEntries ------------------------------
(* A tile shared by the queries of a provider: TiledEntriesCollection, its     *)
(* entries with a state, and the loops of obtainTiledPrimitives(),             *)
(* obtainTiledObfMapObjects() (its coastline tiles), GeoTileObjectsProvider_P, *)
(* AmenitySymbolsProvider_P and MapObjectsProvider_P around them.              *)
(*                                                                             *)
(* One tile of the collection is modelled, with every entry that existed for   *)
(* it. The entry refers to the data weakly, except for coastlines: the data    *)
(* lives while a consumer or the provider's cache holds it. Data is known by   *)
(* the entry it was loaded for, also when the entry itself is gone.            *)
EXTENDS Naturals, FiniteSets

CONSTANTS
    Queries,   \* threads that ask for the tile
    Entries,   \* identities of entries, used again when nobody refers to them
    NoEntry,
    Styles,    \* the providers, named for the filter they give removeEntry() or
               \* for what is particular: "key" MapPrimitivesProvider_P, "empty"
               \* GeoTileObjectsProvider_P, "identity" AmenitySymbolsProvider_P
               \* with cacheSize = 0 and "cached" with cacheSize > 0,
               \* "coastline" ObfMapObjectsProvider_P, "objects" MapObjectsProvider_P
    MaxAsked   \* bound on the requests for the tile and on invalidations

ASSUME TileBoundAssumption == MaxAsked \in Nat
ASSUME TileNamesAssumption == NoEntry \notin Entries
ASSUME TileStylesAssumption ==
    Styles \subseteq {"key", "empty", "identity", "cached", "coastline", "objects"}

VARIABLES
    teStyle,   \* the provider
    teWorld,   \* there is data for the tile
    teCurrent, \* the entry in the collection
    teState,   \* [Entries -> TileState]
    tePresent, \* [Entries -> dataIsPresent]
    teHeld,    \* [Entries -> consumers that hold the data of the entry]
    teKept,    \* entries whose data a cache keeps: _dataCache of height data, or
               \* owner->cache of amenities
    tePc,      \* [Queries -> step]
    teEntry,   \* [Queries -> tileEntry]
    teResult,  \* [Queries -> what obtainData() returned last]
    teAborted, \* queries whose controller says isAborted()
    teClearer, \* invalidateTiles(): its step and the entry it found
    teStale,   \* entries whose load began before the last invalidateTiles() ended
    teLate,    \* entries whose load an invalidateTiles() overtook: it had cleared the
               \* cache before their amenities were put there
    teOld,     \* queries that began before the last invalidateTiles() ended
    teAsked    \* requests and invalidations left

entryPart == <<teStyle, teWorld, teCurrent, teState, tePresent, teHeld, teKept, teStale, teLate>>
queryPart == <<teEntry, teResult, teAborted, teOld, teAsked>>
teVars == <<entryPart, queryPart, tePc, teClearer>>

\* Destructors hold the last reference to the data, and none to the entry.
Referred(e) ==
    \/ teCurrent = e \/ teClearer.entry = e \/ teHeld[e] # {} \/ e \in teKept
    \/ \E q \in Queries : teEntry[q] = e
Alive(e) == IF teStyle = "coastline" THEN tePresent[e] ELSE teHeld[e] # {} \/ e \in teKept
Loader(e) == {q \in Queries : teEntry[q] = e /\ tePc[q] \in {"load", "put", "publish"}}
\* Symbols and coastlines of a tile are kept even if there are none.
Amenities == teStyle \in {"identity", "cached"}
KeepsEmpty == Amenities \/ teStyle = "coastline"
NoClearer == [pc |-> "none", entry |-> NoEntry]

TileInit ==
    /\ teStyle \in Styles /\ teWorld \in BOOLEAN
    /\ teCurrent = NoEntry
    /\ teState = [e \in Entries |-> "undefined"]
    /\ tePresent = [e \in Entries |-> FALSE]
    /\ teHeld = [e \in Entries |-> {}] /\ teKept = {} /\ teLate = {}
    /\ tePc = [q \in Queries |-> "idle"]
    /\ teEntry = [q \in Queries |-> NoEntry]
    /\ teResult = [q \in Queries |-> "none"]
    /\ teAborted = {} /\ teClearer = NoClearer
    /\ teStale = {} /\ teOld = {} /\ teAsked = MaxAsked

\* removeEntry() by key, with the provider's filter
RemoveFor(e) ==
    teCurrent' = IF \/ teStyle \in {"key", "objects"}
                    \/ Amenities /\ teCurrent = e
                    \/ teStyle \in {"empty", "coastline"} /\ teCurrent # NoEntry /\ ~Alive(teCurrent)
                 THEN NoEntry ELSE teCurrent

\* A faulty variant: a query that returns data forgets which entry holds it.
ReturnForgetful(q, result) ==
    /\ tePc' = [tePc EXCEPT ![q] = IF result = "data" THEN "holds" ELSE "idle"]
    /\ teResult' = [teResult EXCEPT ![q] = result]
    /\ teEntry' = [teEntry EXCEPT ![q] = NoEntry]
    /\ teAborted' = teAborted \ {q}
    /\ UNCHANGED <<teOld, teAsked>>
Return(q, result) ==
    /\ tePc' = [tePc EXCEPT ![q] = IF result = "data" THEN "holds" ELSE "idle"]
    /\ teResult' = [teResult EXCEPT ![q] = result]
    /\ teEntry' = [teEntry EXCEPT ![q] = IF result = "data" THEN @ ELSE NoEntry]
    /\ teAborted' = teAborted \ {q}
    /\ UNCHANGED <<teOld, teAsked>>
Goto(q, pc) == tePc' = [tePc EXCEPT ![q] = pc] /\ UNCHANGED queryPart

-----------------------------------------------------------------------------
AskTile(q) ==
    /\ tePc[q] = "idle" /\ teAsked > 0
    /\ tePc' = [tePc EXCEPT ![q] = IF teStyle = "cached" THEN "lookup" ELSE "obtain"]
    /\ teAsked' = teAsked - 1
    /\ teOld' = teOld \ {q}
    /\ teResult' = [teResult EXCEPT ![q] = "none"]
    /\ UNCHANGED <<entryPart, teEntry, teAborted, teClearer>>

\* MapObjectsProvider_P asks no controller.
AbortTile(q) ==
    /\ teStyle # "objects" /\ q \notin teAborted
    /\ tePc[q] \in {"lookup", "obtain", "claim", "wait", "locked", "asleep", "check", "remove",
                    "load", "put"}
    /\ teAborted' = teAborted \cup {q}
    /\ UNCHANGED <<entryPart, tePc, teEntry, teResult, teClearer, teOld, teAsked>>

\* Amenities that the cache holds are given at once, whatever the entry says. The
\* symbols are made for the query, which may be aborted meanwhile.
GiveKept(q) ==
    \E e \in teKept :
        \/ /\ teHeld' = [teHeld EXCEPT ![e] = @ \cup {q}]
           /\ tePc' = [tePc EXCEPT ![q] = "holds"]
           /\ teEntry' = [teEntry EXCEPT ![q] = e]
           /\ teResult' = [teResult EXCEPT ![q] = "data"]
           /\ teAborted' = teAborted \ {q}
           /\ UNCHANGED <<teOld, teAsked>>
        \/ q \in teAborted /\ Return(q, "aborted") /\ UNCHANGED teHeld

LookInCache(q) ==
    /\ tePc[q] = "lookup"
    /\ \/ GiveKept(q)
       \/ teKept = {} /\ q \in teAborted /\ Return(q, "aborted") /\ UNCHANGED teHeld
       \/ teKept = {} /\ q \notin teAborted /\ Goto(q, "obtain") /\ UNCHANGED teHeld
    /\ UNCHANGED <<teStyle, teWorld, teCurrent, teState, tePresent, teKept, teStale, teLate,
                   teClearer>>

\* obtainOrAllocateEntry(): identities of entries are interchangeable.
ObtainEntry(q) ==
    /\ tePc[q] = "obtain"
    /\ \/ /\ teCurrent # NoEntry
          /\ teEntry' = [teEntry EXCEPT ![q] = teCurrent]
          /\ UNCHANGED <<teCurrent, teState, tePresent, teStale, teLate>>
       \/ /\ teCurrent = NoEntry
          /\ \E e \in Entries :
                /\ ~Referred(e) /\ e = CHOOSE f \in Entries : ~Referred(f)
                /\ teCurrent' = e
                /\ teEntry' = [teEntry EXCEPT ![q] = e]
                /\ teState' = [teState EXCEPT ![e] = "undefined"]
                /\ tePresent' = [tePresent EXCEPT ![e] = FALSE]
                /\ teStale' = teStale \ {e} /\ teLate' = teLate \ {e}
    /\ tePc' = [tePc EXCEPT ![q] = "claim"]
    /\ UNCHANGED <<teStyle, teWorld, teHeld, teKept, teResult, teAborted, teClearer,
                   teOld, teAsked>>

\* setStateIf(Undefined, Loading), or else getState()
\* A faulty variant: an entry whose load was cancelled is claimed again.
ClaimCancelled(q) ==
    LET e == teEntry[q] IN
    /\ tePc[q] = "claim"
    /\ \/ /\ teState[e] \in {"undefined", "cancelled"}
          /\ teState' = [teState EXCEPT ![e] = "loading"]
          /\ Goto(q, "load")
       \/ teState[e] = "loading" /\ Goto(q, "wait") /\ UNCHANGED teState
       \/ teState[e] = "loaded" /\ Goto(q, "check") /\ UNCHANGED teState
    /\ UNCHANGED <<teStyle, teWorld, teCurrent, tePresent, teHeld, teKept, teStale, teLate,
                   teClearer>>
ClaimEntry(q) ==
    LET e == teEntry[q] IN
    /\ tePc[q] = "claim"
    /\ \/ /\ teState[e] = "undefined"
          /\ teState' = [teState EXCEPT ![e] = "loading"]
          /\ Goto(q, "load")
       \/ teState[e] = "loading" /\ Goto(q, "wait") /\ UNCHANGED teState
       \/ teState[e] \in {"loaded", "cancelled"} /\ Goto(q, "check") /\ UNCHANGED teState
    /\ UNCHANGED <<teStyle, teWorld, teCurrent, tePresent, teHeld, teKept, teStale, teLate,
                   teClearer>>

\* With loadedConditionLock taken for reading, the state is looked at, and the
\* lock is let go only in the wait for the condition.
LookAtState(q) ==
    /\ tePc[q] = "wait"
    /\ Goto(q, IF teState[teEntry[q]] = "loading" THEN "locked" ELSE "check")
    /\ UNCHANGED <<entryPart, teClearer>>
FallAsleep(q) ==
    /\ tePc[q] = "locked"
    /\ Goto(q, "asleep")
    /\ UNCHANGED <<entryPart, teClearer>>

\* wakeAll() under loadedConditionLock taken for writing
LockFreeOf(e) == \A q \in Queries : tePc[q] = "locked" => teEntry[q] # e
Awoken(e) == [q \in Queries |-> IF tePc[q] = "asleep" /\ teEntry[q] = e THEN "wait" ELSE tePc[q]]

\* What the entry says is returned, or the entry has expired. A tile of primitives
\* may be of another detailed zoom. Only coastlines are tried again if their load
\* was cancelled: any other entry without data is taken for a tile without data.
\* With a cache of amenities only the cache is asked.
CheckEntry(q) ==
    LET e == teEntry[q]
        cached == teStyle = "cached"
        trusted == tePresent[e] /\ Alive(e)
                   /\ (teStyle \in {"key", "empty", "coastline"} => teState[e] = "loaded")
        expired == IF cached THEN teKept = {}
                   ELSE (tePresent[e] \/ teStyle = "coastline") /\ (trusted => teStyle = "key")
    IN
    /\ tePc[q] = "check"
    /\ \/ cached /\ GiveKept(q)
       \/ /\ ~cached /\ teStyle # "coastline" /\ ~tePresent[e]
          /\ Return(q, "nodata") /\ UNCHANGED teHeld
       \/ /\ ~cached /\ trusted
          /\ teHeld' = [teHeld EXCEPT ![e] = @ \cup {q}]
          /\ Return(q, "data")
       \/ expired /\ Goto(q, "remove") /\ UNCHANGED teHeld
    /\ UNCHANGED <<teStyle, teWorld, teCurrent, teState, tePresent, teKept, teStale, teLate,
                   teClearer>>

RemoveExpired(q) ==
    /\ tePc[q] = "remove"
    /\ RemoveFor(teEntry[q])
    /\ IF q \in teAborted THEN Return(q, "aborted")
       ELSE /\ tePc' = [tePc EXCEPT ![q] = "obtain"]
            /\ teEntry' = [teEntry EXCEPT ![q] = NoEntry]
            /\ UNCHANGED <<teResult, teAborted, teOld, teAsked>>
    /\ UNCHANGED <<teStyle, teWorld, teState, tePresent, teHeld, teKept, teStale, teLate,
                   teClearer>>

-----------------------------------------------------------------------------
(* The loader.                                                                 *)

\* An aborted load, or a failed one of height data, is marked, those who wait are
\* woken, and the entry is removed.
CancelLoad(q) ==
    /\ \/ tePc[q] = "load" /\ (q \in teAborted \/ teStyle = "empty")
       \/ tePc[q] = "put" /\ q \in teAborted
    /\ teState' = [teState EXCEPT ![teEntry[q]] = "cancelled"]
    /\ Goto(q, "tellfail")
    /\ UNCHANGED <<teStyle, teWorld, teCurrent, tePresent, teHeld, teKept, teStale, teLate,
                   teClearer>>

RemoveFailed(q) ==
    /\ tePc[q] = "fail"
    /\ RemoveFor(teEntry[q]) /\ Return(q, "aborted")
    /\ UNCHANGED <<teStyle, teWorld, teState, tePresent, teHeld, teKept, teStale, teLate,
                   teClearer>>

\* cache->put(), before the symbols are made: neither the state of the entry nor a
\* cache that was cleared meanwhile stands in its way.
PutInCache(q) ==
    LET e == teEntry[q] IN
    /\ teStyle = "cached" /\ tePc[q] = "load" /\ q \notin teAborted
    /\ teKept' = {e}
    /\ teLate' = IF teClearer # NoClearer \/ e \in teStale THEN teLate \cup {e} ELSE teLate
    /\ Goto(q, "put")
    /\ UNCHANGED <<teStyle, teWorld, teCurrent, teState, tePresent, teHeld, teStale, teClearer>>

\* The flag and the reference to the data are stored, and then the state. Height
\* data that is there is also kept.
Ready(q) == q \notin teAborted /\ tePc[q] = IF teStyle = "cached" THEN "put" ELSE "load"
\* A faulty variant: the state is stored first.
StoreDataLate(q) ==
    LET e == teEntry[q] IN
    /\ Ready(q)
    /\ teState' = [teState EXCEPT ![e] = "loaded"]
    /\ IF teWorld \/ KeepsEmpty
       THEN teHeld' = [teHeld EXCEPT ![e] = @ \cup {q}]
       ELSE UNCHANGED teHeld
    /\ Goto(q, "publish")
    /\ UNCHANGED <<teStyle, teWorld, teCurrent, tePresent, teKept, teStale, teLate,
                   teClearer>>
StoreData(q) ==
    LET e == teEntry[q] IN
    /\ Ready(q)
    /\ IF teWorld \/ KeepsEmpty
       THEN /\ tePresent' = [tePresent EXCEPT ![e] = TRUE]
            /\ teHeld' = [teHeld EXCEPT ![e] = @ \cup {q}]
            /\ teKept' = IF teStyle = "empty" THEN teKept \cup {e} ELSE teKept
       ELSE UNCHANGED <<tePresent, teHeld, teKept>>
    /\ Goto(q, "publish")
    /\ UNCHANGED <<teStyle, teWorld, teCurrent, teState, teStale, teLate,
                   teClearer>>

\* MapObjectsProvider_P wakes nobody if there is data.
PublishLoaded(q) ==
    LET e == teEntry[q] IN
    /\ tePc[q] = "publish"
    /\ teState' = [teState EXCEPT ![e] = "loaded"]
    /\ IF teStyle = "objects" /\ q \in teHeld[e] THEN Return(q, "data") ELSE Goto(q, "tell")
    /\ UNCHANGED <<teStyle, teWorld, teCurrent, tePresent, teHeld, teKept, teStale, teLate,
                   teClearer>>

\* A faulty variant: wakeAll() without the lock misses who is about to wait.
TellUnlocked(q) ==
    LET e == teEntry[q]
        next == IF tePc[q] = "tellfail" THEN "fail" ELSE "told"
    IN
    /\ tePc[q] \in {"tell", "tellfail"}
    /\ tePc' = [Awoken(e) EXCEPT ![q] = next]
    /\ UNCHANGED <<entryPart, queryPart, teClearer>>
Tell(q) ==
    LET e == teEntry[q]
        next == IF tePc[q] = "tellfail" THEN "fail" ELSE "told"
    IN
    /\ tePc[q] \in {"tell", "tellfail"} /\ LockFreeOf(e)
    /\ tePc' = [Awoken(e) EXCEPT ![q] = next]
    /\ UNCHANGED <<entryPart, queryPart, teClearer>>

LoadReturns(q) ==
    /\ tePc[q] = "told"
    /\ Return(q, IF q \in teHeld[teEntry[q]] THEN "data" ELSE "nodata")
    /\ UNCHANGED <<entryPart, teClearer>>

-----------------------------------------------------------------------------
\* The consumer lets the data go. The last one runs ~RetainableCacheMetadata(), if
\* the data has one: the entry is found through its weak reference, and removed by
\* its key. A tile of map objects with a coastline removes the coastline's entry,
\* whoever else holds the coastline; a query that was aborted before it had a tile
\* leaves none to destroy. Height data, and amenities made from the cache, have no
\* such destructor.
DropData(q) ==
    LET e == teEntry[q]
        removes == \/ teStyle \in {"key", "identity"} /\ teHeld[e] = {q}
                   \/ teStyle = "coastline"
    IN
    /\ tePc[q] = "holds"
    /\ teHeld' = [teHeld EXCEPT ![e] = @ \ {q}]
    /\ \/ removes /\ teCurrent = e /\ Goto(q, "destroy")
       \/ /\ (removes /\ teCurrent = e) => teStyle = "coastline"
          /\ tePc' = [tePc EXCEPT ![q] = "idle"]
          /\ teEntry' = [teEntry EXCEPT ![q] = NoEntry]
          /\ UNCHANGED <<teResult, teAborted, teOld, teAsked>>
    /\ UNCHANGED <<teStyle, teWorld, teCurrent, teState, tePresent, teKept, teStale, teLate,
                   teClearer>>

DestroyData(q) ==
    /\ tePc[q] = "destroy"
    /\ teCurrent' = NoEntry
    /\ tePc' = [tePc EXCEPT ![q] = "idle"]
    /\ teEntry' = [teEntry EXCEPT ![q] = NoEntry]
    /\ UNCHANGED <<teStyle, teWorld, teState, tePresent, teHeld, teKept, teResult, teAborted,
                   teStale, teLate, teClearer, teOld, teAsked>>

\* The cache of height data or of amenities has grown: what is oldest goes.
Evict ==
    /\ \E e \in teKept : teKept' = teKept \ {e}
    /\ UNCHANGED <<teStyle, teWorld, teCurrent, teState, tePresent, teHeld, teStale, teLate,
                   queryPart, tePc, teClearer>>

-----------------------------------------------------------------------------
(* AmenitySymbolsProvider_P::invalidateTiles(): clear the cache, list the       *)
(* entries, cancel the loads under way, which go on, and remove what the        *)
(* collection holds then.                                                       *)

\* A faulty variant: the cache of amenities is left as it is.
ClearOnlyEntries ==
    /\ Amenities /\ teClearer = NoClearer /\ teAsked > 0
    /\ teClearer' = [NoClearer EXCEPT !.pc = "list"]
    /\ teAsked' = teAsked - 1
    /\ UNCHANGED <<entryPart, teEntry, teResult, teAborted, teOld, tePc>>
ClearCache ==
    /\ Amenities /\ teClearer = NoClearer /\ teAsked > 0
    /\ teKept' = {}
    /\ teClearer' = [NoClearer EXCEPT !.pc = "list"]
    /\ teAsked' = teAsked - 1
    /\ UNCHANGED <<teStyle, teWorld, teCurrent, teState, tePresent, teHeld, teStale, teLate,
                   teEntry, teResult, teAborted, teOld, tePc>>

ListEntries ==
    /\ teClearer.pc = "list"
    /\ teClearer' = [pc |-> IF teCurrent = NoEntry THEN "clear" ELSE "look", entry |-> teCurrent]
    /\ UNCHANGED <<entryPart, queryPart, tePc>>

LookIfLoading ==
    /\ teClearer.pc = "look"
    /\ teClearer' = [teClearer EXCEPT
                       !.pc = IF teState[teClearer.entry] = "loading" THEN "cancel" ELSE "clear"]
    /\ UNCHANGED <<entryPart, queryPart, tePc>>

CancelListed ==
    /\ teClearer.pc = "cancel"
    /\ teState' = [teState EXCEPT ![teClearer.entry] = "cancelled"]
    /\ teClearer' = [teClearer EXCEPT !.pc = "tell"]
    /\ UNCHANGED <<teStyle, teWorld, teCurrent, tePresent, teHeld, teKept, teStale, teLate, queryPart,
                   tePc>>

TellListed ==
    /\ teClearer.pc = "tell" /\ LockFreeOf(teClearer.entry)
    /\ tePc' = Awoken(teClearer.entry)
    /\ teClearer' = [teClearer EXCEPT !.pc = "clear"]
    /\ UNCHANGED <<entryPart, queryPart>>

\* removeAllEntries()
\* A faulty variant: what is no longer loading stays.
ClearCancelled ==
    /\ teClearer.pc = "clear"
    /\ teCurrent' = IF teCurrent # NoEntry /\ teState[teCurrent] = "loaded" THEN teCurrent ELSE NoEntry
    /\ teStale' = Entries /\ teOld' = {q \in Queries : tePc[q] # "idle"}
    /\ teClearer' = NoClearer
    /\ UNCHANGED <<teStyle, teWorld, teState, tePresent, teHeld, teKept, teLate, tePc, teEntry,
                   teResult, teAborted, teAsked>>
ClearEntries ==
    /\ teClearer.pc = "clear"
    /\ teCurrent' = NoEntry
    /\ teStale' = Entries /\ teOld' = {q \in Queries : tePc[q] # "idle"}
    /\ teClearer' = NoClearer
    /\ UNCHANGED <<teStyle, teWorld, teState, tePresent, teHeld, teKept, teLate, tePc, teEntry,
                   teResult, teAborted, teAsked>>

-----------------------------------------------------------------------------
TileStep(q) ==
    \/ LookInCache(q) \/ ObtainEntry(q) \/ ClaimEntry(q) \/ LookAtState(q) \/ FallAsleep(q)
    \/ CheckEntry(q) \/ RemoveExpired(q) \/ CancelLoad(q) \/ RemoveFailed(q) \/ PutInCache(q)
    \/ StoreData(q) \/ PublishLoaded(q) \/ Tell(q) \/ LoadReturns(q) \/ DestroyData(q)
ClearerStep == ListEntries \/ LookIfLoading \/ CancelListed \/ TellListed \/ ClearEntries
TileNext == \/ \E q \in Queries : AskTile(q) \/ AbortTile(q) \/ TileStep(q) \/ DropData(q)
            \/ Evict \/ ClearCache \/ ClearerStep

\* A thread that is not waiting goes on.
TileFairness == (\A q \in Queries : WF_teVars(TileStep(q))) /\ WF_teVars(ClearerStep)
TileSpec == TileInit /\ [][TileNext]_teVars /\ TileFairness

-----------------------------------------------------------------------------
\* Types, and that a query refers to an entry from obtaining it to returning.
TileTypeOK ==
    /\ \A q \in Queries : teEntry[q] = NoEntry <=> tePc[q] \in {"idle", "lookup", "obtain"}
    /\ teStyle \in Styles /\ teWorld \in BOOLEAN /\ teCurrent \in Entries \cup {NoEntry}
    /\ teState \in [Entries -> {"undefined", "loading", "loaded", "cancelled"}]
    /\ tePresent \in [Entries -> BOOLEAN] /\ teHeld \in [Entries -> SUBSET Queries]
    /\ tePc \in [Queries -> {"idle", "lookup", "obtain", "claim", "wait", "locked", "asleep",
                             "check", "remove", "load", "fail", "put", "publish", "tell",
                             "tellfail", "told", "holds", "destroy"}]
    /\ teEntry \in [Queries -> Entries \cup {NoEntry}]
    /\ teResult \in [Queries -> {"none", "nodata", "data", "aborted"}]
    /\ teClearer \in [pc : {"none", "list", "look", "cancel", "tell", "clear"},
                      entry : Entries \cup {NoEntry}]
    /\ teAborted \subseteq Queries /\ teOld \subseteq Queries /\ teStale \subseteq Entries
    /\ teKept \subseteq Entries /\ teLate \subseteq Entries
    /\ teAsked \in 0..MaxAsked

\* An entry is claimed once: whoever waits on it waits for a loader that is at
\* work, however often the entry is removed and replaced meanwhile.
OneLoader ==
    \A e \in Entries :
        /\ Cardinality(Loader(e)) <= 1
        /\ teState[e] = "loading" => Cardinality(Loader(e)) = 1

\* An entry that says "loaded" is never taken for an empty tile if there is data.
LoadedSaysWhatIsThere ==
    \A e \in Entries : teState[e] = "loaded" /\ Referred(e) => tePresent[e] = (teWorld \/ KeepsEmpty)

\* A query that began after the tiles were invalidated gets nothing loaded before.
\* Without a cache of amenities it is so; with one a load that was under way puts
\* its amenities in the cache that invalidateTiles() has cleared.
NothingOlder ==
    \A q \in Queries : tePc[q] = "holds" /\ teEntry[q] \in teStale => q \in teOld

\* And that is the only way: older data given to a query that began afterwards was
\* put in the cache after invalidateTiles() had cleared it.
OlderOnlyIfLate ==
    \A q \in Queries :
        tePc[q] = "holds" /\ teEntry[q] \in teStale => q \in teOld \/ teEntry[q] \in teLate

\* Once no more queries begin, every one returns, whoever it waits for and whoever
\* is aborted. So say the comments at the wait: "wait until it will become 'Loaded'".
TileQueriesReturn == <>[](\A q \in Queries : tePc[q] \in {"idle", "holds"})

\* A query is told that there is no data only if there is none.
NoDataMeansNone == \A q \in Queries : teResult[q] = "nodata" => ~teWorld
=============================================================================
