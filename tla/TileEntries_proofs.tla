--------------------------- MODULE TileEntries_proofs ---------------------------
(* Proofs about the hand-over of a tile, for any queries, entries and providers: *)
(* one loader per entry, entries that tell what is there, and what was loaded     *)
(* before an invalidation given to nobody later, or only from a cache.            *)
EXTENDS TileEntries, FiniteSetTheorems, TLAPS

-----------------------------------------------------------------------------
(* The inductive invariant.                                                      *)

Loads(q) == tePc[q] \in {"load", "put", "publish"}
Full == teWorld \/ KeepsEmpty

\* Only an undefined entry is claimed, and one with a loader never becomes
\* undefined again: it is not allocated anew while the loader refers to it.
Loaders ==
    /\ \A q, r \in Queries : Loads(q) /\ Loads(r) /\ teEntry[q] = teEntry[r] => q = r
    /\ \A q \in Queries : Loads(q) => teState[teEntry[q]] \in {"loading", "cancelled"}
    /\ \A e \in Entries : teState[e] = "loading" => \E q \in Queries : Loads(q) /\ teEntry[q] = e

\* The flag of an entry is clear until its loader stores what it found.
Flags ==
    /\ \A e \in Entries : teState[e] = "undefined" => ~tePresent[e]
    /\ \A q \in Queries : tePc[q] \in {"load", "put"} => ~tePresent[teEntry[q]]
    /\ \A q \in Queries : tePc[q] = "publish" => (tePresent[teEntry[q]] <=> Full)
    /\ \A e \in Entries : teState[e] = "loaded" => (tePresent[e] <=> Full)

\* What is in the collection was loaded after the last invalidation, and so was
\* what any later query refers to, unless its amenities came late into the cache:
\* nothing else is there once an invalidation has cleared it.
Ages ==
    /\ teCurrent \notin teStale
    /\ \A q \in Queries : teEntry[q] \in teStale => q \in teOld \/ teEntry[q] \in teLate
    /\ \A e \in teKept : e \in teStale \/ teClearer # NoClearer => e \in teLate
    /\ teStale # {} \/ teClearer # NoClearer => Amenities
    /\ teLate # {} => teStyle = "cached"

TileInv == TileTypeOK /\ Loaders /\ Flags /\ Ages

-----------------------------------------------------------------------------
(* One lemma for each action. *)

\* A query that begins refers to no entry, and is not an old one.
LEMMA AskTileInv ==
    ASSUME TileInv, NEW q \in Queries, AskTile(q)
    PROVE  TileInv'
<1>1. TileTypeOK'
  BY TileBoundAssumption DEF TileInv, TileTypeOK, AskTile, entryPart
<1>2. Loaders'
  BY DEF TileInv, TileTypeOK, Loaders, Loads, AskTile, entryPart
<1>3. Flags'
  BY DEF TileInv, TileTypeOK, Flags, Full, KeepsEmpty, Amenities, AskTile, entryPart
<1>4. Ages'
  BY TileNamesAssumption DEF TileInv, TileTypeOK, Ages, Amenities, AskTile, entryPart
<1>5. QED
  BY <1>1, <1>2, <1>3, <1>4 DEF TileInv

\* An abort only marks the query.
LEMMA AbortTileInv ==
    ASSUME TileInv, NEW q \in Queries, AbortTile(q)
    PROVE  TileInv'
<1>1. TileTypeOK'
  BY DEF TileInv, TileTypeOK, AbortTile, entryPart
<1>2. Loaders'
  BY DEF TileInv, TileTypeOK, Loaders, Loads, AbortTile, entryPart
<1>3. Flags'
  BY DEF TileInv, TileTypeOK, Flags, Full, KeepsEmpty, Amenities, AbortTile, entryPart
<1>4. Ages'
  BY DEF TileInv, TileTypeOK, Ages, Amenities, AbortTile, entryPart
<1>5. QED
  BY <1>1, <1>2, <1>3, <1>4 DEF TileInv

\* Whatever the cache gives after an invalidation was put there late.
LEMMA LookInCacheInv ==
    ASSUME TileInv, NEW q \in Queries, LookInCache(q)
    PROVE  TileInv'
<1>1. TileTypeOK'
  BY TileNamesAssumption DEF TileInv, TileTypeOK, LookInCache, GiveKept, queryPart, Return, Goto
<1>2. Loaders'
  BY DEF TileInv, TileTypeOK, Loaders, Loads, LookInCache, GiveKept, queryPart, Return, Goto
<1>3. Flags'
  BY DEF TileInv, TileTypeOK, Flags, Full, KeepsEmpty, Amenities, LookInCache, GiveKept,
     queryPart, Return, Goto
<1>4. Ages'
  BY DEF TileInv, TileTypeOK, Ages, Amenities, LookInCache, GiveKept, queryPart, Return, Goto
<1>5. QED
  BY <1>1, <1>2, <1>3, <1>4 DEF TileInv

\* An entry allocated anew has no loader, since loaders refer to their entries.
LEMMA ObtainEntryInv ==
    ASSUME TileInv, NEW q \in Queries, ObtainEntry(q)
    PROVE  TileInv'
<1>1. TileTypeOK'
  <2>1. \A r \in Queries : teEntry'[r] = NoEntry <=> tePc'[r] \in {"idle", "lookup", "obtain"}
    BY TileNamesAssumption DEF TileInv, TileTypeOK, ObtainEntry
  <2>2. teStyle' \in Styles /\ teWorld' \in BOOLEAN /\ teCurrent' \in Entries \cup {NoEntry}
    BY DEF TileInv, TileTypeOK, ObtainEntry
  <2>3. teState' \in [Entries -> {"undefined", "loading", "loaded", "cancelled"}]
    BY DEF TileInv, TileTypeOK, ObtainEntry
  <2>4. tePresent' \in [Entries -> BOOLEAN] /\ teHeld' \in [Entries -> SUBSET Queries]
    BY DEF TileInv, TileTypeOK, ObtainEntry
  <2>5. tePc' \in [Queries -> {"idle", "lookup", "obtain", "claim", "wait", "locked", "asleep",
                               "check", "remove", "load", "fail", "put", "publish", "tell",
                               "tellfail", "told", "holds", "destroy"}]
    BY DEF TileInv, TileTypeOK, ObtainEntry
  <2>6. teEntry' \in [Queries -> Entries \cup {NoEntry}]
    BY DEF TileInv, TileTypeOK, ObtainEntry
  <2>7. teResult' \in [Queries -> {"none", "nodata", "data", "aborted"}]
    BY DEF TileInv, TileTypeOK, ObtainEntry
  <2>8. teClearer' \in [pc : {"none", "list", "look", "cancel", "tell", "clear"},
                        entry : Entries \cup {NoEntry}]
    BY DEF TileInv, TileTypeOK, ObtainEntry
  <2>9. /\ teAborted' \subseteq Queries /\ teOld' \subseteq Queries /\ teStale' \subseteq Entries
        /\ teKept' \subseteq Entries /\ teLate' \subseteq Entries
        /\ teAsked' \in 0..MaxAsked
    BY DEF TileInv, TileTypeOK, ObtainEntry
  <2>10. QED
    BY <2>1, <2>2, <2>3, <2>4, <2>5, <2>6, <2>7, <2>8, <2>9 DEF TileTypeOK
<1>2. Loaders'
  BY DEF TileInv, TileTypeOK, Loaders, Loads, Referred, ObtainEntry
<1>3. Flags'
  BY DEF TileInv, TileTypeOK, Flags, Full, KeepsEmpty, Amenities, Referred, ObtainEntry
<1>4. Ages'
  BY DEF TileInv, TileTypeOK, Ages, Amenities, Referred, ObtainEntry
<1>5. QED
  BY <1>1, <1>2, <1>3, <1>4 DEF TileInv

\* Whoever finds the entry undefined becomes its only loader.
LEMMA ClaimEntryInv ==
    ASSUME TileInv, NEW q \in Queries, ClaimEntry(q)
    PROVE  TileInv'
<1>1. TileTypeOK'
  BY DEF TileInv, TileTypeOK, ClaimEntry, queryPart, Goto
<1>2. Loaders'
  BY DEF TileInv, TileTypeOK, Loaders, Loads, ClaimEntry, queryPart, Goto
<1>3. Flags'
  BY DEF TileInv, TileTypeOK, Flags, Full, KeepsEmpty, Amenities, ClaimEntry, queryPart, Goto
<1>4. Ages'
  BY DEF TileInv, TileTypeOK, Ages, Amenities, ClaimEntry, queryPart, Goto
<1>5. QED
  BY <1>1, <1>2, <1>3, <1>4 DEF TileInv

LEMMA LookAtStateInv ==
    ASSUME TileInv, NEW q \in Queries, LookAtState(q)
    PROVE  TileInv'
<1>1. TileTypeOK'
  BY DEF TileInv, TileTypeOK, LookAtState, entryPart, queryPart, Goto
<1>2. Loaders'
  BY DEF TileInv, TileTypeOK, Loaders, Loads, LookAtState, entryPart, queryPart, Goto
<1>3. Flags'
  BY DEF TileInv, TileTypeOK, Flags, Full, KeepsEmpty, Amenities, LookAtState, entryPart,
     queryPart, Goto
<1>4. Ages'
  BY DEF TileInv, TileTypeOK, Ages, Amenities, LookAtState, entryPart, queryPart, Goto
<1>5. QED
  BY <1>1, <1>2, <1>3, <1>4 DEF TileInv

LEMMA FallAsleepInv ==
    ASSUME TileInv, NEW q \in Queries, FallAsleep(q)
    PROVE  TileInv'
<1>1. TileTypeOK'
  BY DEF TileInv, TileTypeOK, FallAsleep, entryPart, queryPart, Goto
<1>2. Loaders'
  BY DEF TileInv, TileTypeOK, Loaders, Loads, FallAsleep, entryPart, queryPart, Goto
<1>3. Flags'
  BY DEF TileInv, TileTypeOK, Flags, Full, KeepsEmpty, Amenities, FallAsleep, entryPart,
     queryPart, Goto
<1>4. Ages'
  BY DEF TileInv, TileTypeOK, Ages, Amenities, FallAsleep, entryPart, queryPart, Goto
<1>5. QED
  BY <1>1, <1>2, <1>3, <1>4 DEF TileInv

\* A query that returns data keeps the entry it holds.
LEMMA CheckEntryInv ==
    ASSUME TileInv, NEW q \in Queries, CheckEntry(q)
    PROVE  TileInv'
<1>1. TileTypeOK'
  BY TileNamesAssumption DEF TileInv, TileTypeOK, CheckEntry, GiveKept, queryPart, Return, Goto
<1>2. Loaders'
  BY DEF TileInv, TileTypeOK, Loaders, Loads, CheckEntry, GiveKept, queryPart, Return, Goto
<1>3. Flags'
  BY DEF TileInv, TileTypeOK, Flags, Full, KeepsEmpty, Amenities, CheckEntry, GiveKept,
     queryPart, Return, Goto
<1>4. Ages'
  BY TileNamesAssumption DEF TileInv, TileTypeOK, Ages, Amenities, CheckEntry, GiveKept,
     queryPart, Return, Goto
<1>5. QED
  BY <1>1, <1>2, <1>3, <1>4 DEF TileInv

LEMMA RemoveExpiredInv ==
    ASSUME TileInv, NEW q \in Queries, RemoveExpired(q)
    PROVE  TileInv'
<1>1. TileTypeOK'
  BY DEF TileInv, TileTypeOK, RemoveExpired, Return, RemoveFor
<1>2. Loaders'
  BY DEF TileInv, TileTypeOK, Loaders, Loads, RemoveExpired, Return
<1>3. Flags'
  BY DEF TileInv, TileTypeOK, Flags, Full, KeepsEmpty, Amenities, RemoveExpired, Return
<1>4. Ages'
  BY TileNamesAssumption DEF TileInv, TileTypeOK, Ages, Amenities, RemoveExpired, Return,
     RemoveFor
<1>5. QED
  BY <1>1, <1>2, <1>3, <1>4 DEF TileInv

\* A loader that gives up is none any more.
LEMMA CancelLoadInv ==
    ASSUME TileInv, NEW q \in Queries, CancelLoad(q)
    PROVE  TileInv'
<1>1. TileTypeOK'
  BY DEF TileInv, TileTypeOK, CancelLoad, queryPart, Goto
<1>2. Loaders'
  BY DEF TileInv, TileTypeOK, Loaders, Loads, CancelLoad, queryPart, Goto
<1>3. Flags'
  BY DEF TileInv, TileTypeOK, Flags, Full, KeepsEmpty, Amenities, CancelLoad, queryPart, Goto
<1>4. Ages'
  BY DEF TileInv, TileTypeOK, Ages, Amenities, CancelLoad, queryPart, Goto
<1>5. QED
  BY <1>1, <1>2, <1>3, <1>4 DEF TileInv

LEMMA RemoveFailedInv ==
    ASSUME TileInv, NEW q \in Queries, RemoveFailed(q)
    PROVE  TileInv'
<1>1. TileTypeOK'
  BY DEF TileInv, TileTypeOK, RemoveFailed, Return, RemoveFor
<1>2. Loaders'
  BY DEF TileInv, TileTypeOK, Loaders, Loads, RemoveFailed, Return
<1>3. Flags'
  BY DEF TileInv, TileTypeOK, Flags, Full, KeepsEmpty, Amenities, RemoveFailed, Return
<1>4. Ages'
  BY TileNamesAssumption DEF TileInv, TileTypeOK, Ages, Amenities, RemoveFailed, Return,
     RemoveFor
<1>5. QED
  BY <1>1, <1>2, <1>3, <1>4 DEF TileInv

\* Amenities put after the cache was cleared are late.
LEMMA PutInCacheInv ==
    ASSUME TileInv, NEW q \in Queries, PutInCache(q)
    PROVE  TileInv'
<1>1. TileTypeOK'
  BY DEF TileInv, TileTypeOK, PutInCache, queryPart, Goto
<1>2. Loaders'
  BY DEF TileInv, TileTypeOK, Loaders, Loads, PutInCache, queryPart, Goto
<1>3. Flags'
  BY DEF TileInv, TileTypeOK, Flags, Full, KeepsEmpty, Amenities, PutInCache, queryPart, Goto
<1>4. Ages'
  BY DEF TileInv, TileTypeOK, Ages, Amenities, PutInCache, queryPart, Goto
<1>5. QED
  BY <1>1, <1>2, <1>3, <1>4 DEF TileInv

\* The flag of the entry becomes what there is.
LEMMA StoreDataInv ==
    ASSUME TileInv, NEW q \in Queries, StoreData(q)
    PROVE  TileInv'
<1>1. TileTypeOK'
  <2>1. \A r \in Queries : teEntry'[r] = NoEntry <=> tePc'[r] \in {"idle", "lookup", "obtain"}
    BY DEF TileInv, TileTypeOK, StoreData, Ready, queryPart, Goto
  <2>2. teStyle' \in Styles /\ teWorld' \in BOOLEAN /\ teCurrent' \in Entries \cup {NoEntry}
    BY DEF TileInv, TileTypeOK, StoreData, Ready
  <2>3. teState' \in [Entries -> {"undefined", "loading", "loaded", "cancelled"}]
    BY DEF TileInv, TileTypeOK, StoreData, Ready
  <2>4. tePresent' \in [Entries -> BOOLEAN] /\ teHeld' \in [Entries -> SUBSET Queries]
    <3>1. \/ /\ tePresent' = [tePresent EXCEPT ![teEntry[q]] = TRUE]
             /\ teHeld' = [teHeld EXCEPT ![teEntry[q]] = @ \cup {q}]
          \/ tePresent' = tePresent /\ teHeld' = teHeld
      BY DEF StoreData
    <3>2. tePresent \in [Entries -> BOOLEAN] /\ teHeld \in [Entries -> SUBSET Queries]
      BY DEF TileInv, TileTypeOK
    <3>3. tePresent' \in [Entries -> BOOLEAN]
      BY <3>1, <3>2
    <3>4. teHeld' \in [Entries -> SUBSET Queries]
      BY <3>1, <3>2
    <3>5. QED
      BY <3>3, <3>4
  <2>5. tePc' \in [Queries -> {"idle", "lookup", "obtain", "claim", "wait", "locked", "asleep",
                               "check", "remove", "load", "fail", "put", "publish", "tell",
                               "tellfail", "told", "holds", "destroy"}]
    BY DEF TileInv, TileTypeOK, StoreData, Ready, Goto
  <2>6. teEntry' \in [Queries -> Entries \cup {NoEntry}]
    BY DEF TileInv, TileTypeOK, StoreData, Ready, queryPart, Goto
  <2>7. teResult' \in [Queries -> {"none", "nodata", "data", "aborted"}]
    BY DEF TileInv, TileTypeOK, StoreData, Ready, queryPart, Goto
  <2>8. teClearer' \in [pc : {"none", "list", "look", "cancel", "tell", "clear"},
                        entry : Entries \cup {NoEntry}]
    BY DEF TileInv, TileTypeOK, StoreData, Ready
  <2>9. /\ teAborted' \subseteq Queries /\ teOld' \subseteq Queries /\ teStale' \subseteq Entries
        /\ teKept' \subseteq Entries /\ teLate' \subseteq Entries
        /\ teAsked' \in 0..MaxAsked
    BY DEF TileInv, TileTypeOK, StoreData, Ready, queryPart, Goto
  <2>10. QED
    BY <2>1, <2>2, <2>3, <2>4, <2>5, <2>6, <2>7, <2>8, <2>9 DEF TileTypeOK
<1>2. Loaders'
  BY DEF TileInv, TileTypeOK, Loaders, Loads, StoreData, Ready, queryPart, Goto
<1>3. Flags'
  BY DEF TileInv, TileTypeOK, Loaders, Loads, Flags, Full, KeepsEmpty, Amenities, StoreData,
     Ready, queryPart, Goto
<1>4. Ages'
  BY DEF TileInv, TileTypeOK, Ages, Amenities, StoreData, Ready, queryPart, Goto
<1>5. QED
  BY <1>1, <1>2, <1>3, <1>4 DEF TileInv

\* A loaded entry has no loader left.
LEMMA PublishLoadedInv ==
    ASSUME TileInv, NEW q \in Queries, PublishLoaded(q)
    PROVE  TileInv'
<1>1. TileTypeOK'
  BY DEF TileInv, TileTypeOK, PublishLoaded, queryPart, Return, Goto
<1>2. Loaders'
  BY DEF TileInv, TileTypeOK, Loaders, Loads, PublishLoaded, queryPart, Return, Goto
<1>3. Flags'
  BY DEF TileInv, TileTypeOK, Flags, Full, KeepsEmpty, Amenities, PublishLoaded, queryPart,
     Return, Goto
<1>4. Ages'
  BY DEF TileInv, TileTypeOK, Ages, Amenities, PublishLoaded, queryPart, Goto
<1>5. QED
  BY <1>1, <1>2, <1>3, <1>4 DEF TileInv

\* Nobody who is woken is a loader.
LEMMA TellInv ==
    ASSUME TileInv, NEW q \in Queries, Tell(q)
    PROVE  TileInv'
<1>1. TileTypeOK'
  BY DEF TileInv, TileTypeOK, Tell, entryPart, queryPart, Awoken
<1>2. Loaders'
  <2>1. \A r \in Queries : Loads(r)' <=> Loads(r)
    BY DEF TileInv, TileTypeOK, Loads, Tell, Awoken
  <2>2. teEntry' = teEntry /\ teState' = teState
    BY DEF Tell, entryPart, queryPart
  <2>3. QED
    BY <2>1, <2>2 DEF TileInv, Loaders
<1>3. Flags'
  BY DEF TileInv, TileTypeOK, Flags, Full, KeepsEmpty, Amenities, Tell, entryPart, queryPart,
     Awoken
<1>4. Ages'
  BY DEF TileInv, TileTypeOK, Ages, Amenities, Tell, entryPart, queryPart
<1>5. QED
  BY <1>1, <1>2, <1>3, <1>4 DEF TileInv

LEMMA LoadReturnsInv ==
    ASSUME TileInv, NEW q \in Queries, LoadReturns(q)
    PROVE  TileInv'
<1>1. TileTypeOK'
  BY DEF TileInv, TileTypeOK, LoadReturns, entryPart, Return
<1>2. Loaders'
  BY DEF TileInv, TileTypeOK, Loaders, Loads, LoadReturns, entryPart, Return
<1>3. Flags'
  BY DEF TileInv, TileTypeOK, Flags, Full, KeepsEmpty, Amenities, LoadReturns, entryPart, Return
<1>4. Ages'
  BY TileNamesAssumption DEF TileInv, TileTypeOK, Ages, Amenities, LoadReturns, entryPart,
     Return
<1>5. QED
  BY <1>1, <1>2, <1>3, <1>4 DEF TileInv

LEMMA DropDataInv ==
    ASSUME TileInv, NEW q \in Queries, DropData(q)
    PROVE  TileInv'
<1>1. TileTypeOK'
  BY DEF TileInv, TileTypeOK, DropData, queryPart, Goto
<1>2. Loaders'
  BY DEF TileInv, TileTypeOK, Loaders, Loads, DropData, queryPart, Goto
<1>3. Flags'
  BY DEF TileInv, TileTypeOK, Flags, Full, KeepsEmpty, Amenities, DropData, queryPart, Goto
<1>4. Ages'
  BY TileNamesAssumption DEF TileInv, TileTypeOK, Ages, Amenities, DropData, queryPart, Goto
<1>5. QED
  BY <1>1, <1>2, <1>3, <1>4 DEF TileInv

LEMMA DestroyDataInv ==
    ASSUME TileInv, NEW q \in Queries, DestroyData(q)
    PROVE  TileInv'
<1>1. TileTypeOK'
  BY DEF TileInv, TileTypeOK, DestroyData
<1>2. Loaders'
  BY DEF TileInv, TileTypeOK, Loaders, Loads, DestroyData
<1>3. Flags'
  BY DEF TileInv, TileTypeOK, Flags, Full, KeepsEmpty, Amenities, DestroyData
<1>4. Ages'
  BY TileNamesAssumption DEF TileInv, TileTypeOK, Ages, Amenities, DestroyData
<1>5. QED
  BY <1>1, <1>2, <1>3, <1>4 DEF TileInv

LEMMA EvictInv ==
    ASSUME TileInv, Evict
    PROVE  TileInv'
<1>1. TileTypeOK'
  BY DEF TileInv, TileTypeOK, Evict, queryPart
<1>2. Loaders'
  BY DEF TileInv, TileTypeOK, Loaders, Loads, Evict, queryPart
<1>3. Flags'
  BY DEF TileInv, TileTypeOK, Flags, Full, KeepsEmpty, Amenities, Evict, queryPart
<1>4. Ages'
  BY DEF TileInv, TileTypeOK, Ages, Amenities, Evict, queryPart
<1>5. QED
  BY <1>1, <1>2, <1>3, <1>4 DEF TileInv

\* An empty cache holds nothing old.
LEMMA ClearCacheInv ==
    ASSUME TileInv, ClearCache
    PROVE  TileInv'
<1>1. TileTypeOK'
  BY TileBoundAssumption DEF TileInv, TileTypeOK, ClearCache
<1>2. Loaders'
  BY DEF TileInv, TileTypeOK, Loaders, Loads, ClearCache
<1>3. Flags'
  BY DEF TileInv, TileTypeOK, Flags, Full, KeepsEmpty, Amenities, ClearCache
<1>4. Ages'
  BY DEF TileInv, TileTypeOK, Ages, Amenities, ClearCache
<1>5. QED
  BY <1>1, <1>2, <1>3, <1>4 DEF TileInv

LEMMA ListEntriesInv ==
    ASSUME TileInv, ListEntries
    PROVE  TileInv'
<1>1. TileTypeOK'
  BY DEF TileInv, TileTypeOK, ListEntries, entryPart, queryPart
<1>2. Loaders'
  BY DEF TileInv, TileTypeOK, Loaders, Loads, ListEntries, entryPart, queryPart
<1>3. Flags'
  BY DEF TileInv, TileTypeOK, Flags, Full, KeepsEmpty, Amenities, ListEntries, entryPart,
     queryPart
<1>4. Ages'
  BY DEF TileInv, TileTypeOK, Ages, Amenities, NoClearer, ListEntries, entryPart, queryPart
<1>5. QED
  BY <1>1, <1>2, <1>3, <1>4 DEF TileInv

LEMMA LookIfLoadingInv ==
    ASSUME TileInv, LookIfLoading
    PROVE  TileInv'
<1>1. TileTypeOK'
  BY DEF TileInv, TileTypeOK, LookIfLoading, entryPart, queryPart
<1>2. Loaders'
  BY DEF TileInv, TileTypeOK, Loaders, Loads, LookIfLoading, entryPart, queryPart
<1>3. Flags'
  BY DEF TileInv, TileTypeOK, Flags, Full, KeepsEmpty, Amenities, LookIfLoading, entryPart,
     queryPart
<1>4. Ages'
  BY DEF TileInv, TileTypeOK, Ages, Amenities, NoClearer, LookIfLoading, entryPart, queryPart
<1>5. QED
  BY <1>1, <1>2, <1>3, <1>4 DEF TileInv

\* A load that was cancelled by another thread still has its loader.
LEMMA CancelListedInv ==
    ASSUME TileInv, CancelListed
    PROVE  TileInv'
<1>1. TileTypeOK'
  BY DEF TileInv, TileTypeOK, CancelListed, queryPart
<1>2. Loaders'
  BY DEF TileInv, TileTypeOK, Loaders, Loads, CancelListed, queryPart
<1>3. Flags'
  BY DEF TileInv, TileTypeOK, Flags, Full, KeepsEmpty, Amenities, CancelListed, queryPart
<1>4. Ages'
  BY DEF TileInv, TileTypeOK, Ages, Amenities, NoClearer, CancelListed, queryPart
<1>5. QED
  BY <1>1, <1>2, <1>3, <1>4 DEF TileInv

LEMMA TellListedInv ==
    ASSUME TileInv, TellListed
    PROVE  TileInv'
<1>1. TileTypeOK'
  BY DEF TileInv, TileTypeOK, TellListed, entryPart, queryPart, Awoken
<1>2. Loaders'
  BY DEF TileInv, TileTypeOK, Loaders, Loads, TellListed, entryPart, queryPart, Awoken
<1>3. Flags'
  BY DEF TileInv, TileTypeOK, Flags, Full, KeepsEmpty, Amenities, TellListed, entryPart,
     queryPart, Awoken
<1>4. Ages'
  BY DEF TileInv, TileTypeOK, Ages, Amenities, NoClearer, TellListed, entryPart, queryPart
<1>5. QED
  BY <1>1, <1>2, <1>3, <1>4 DEF TileInv

\* Every query under way is old then, and only those refer to entries.
LEMMA ClearEntriesInv ==
    ASSUME TileInv, ClearEntries
    PROVE  TileInv'
<1>1. TileTypeOK'
  BY DEF TileInv, TileTypeOK, ClearEntries, NoClearer
<1>2. Loaders'
  BY DEF TileInv, TileTypeOK, Loaders, Loads, ClearEntries
<1>3. Flags'
  BY DEF TileInv, TileTypeOK, Flags, Full, KeepsEmpty, Amenities, ClearEntries
<1>4. Ages'
  BY TileNamesAssumption DEF TileInv, TileTypeOK, Ages, Amenities, NoClearer, ClearEntries
<1>5. QED
  BY <1>1, <1>2, <1>3, <1>4 DEF TileInv

-----------------------------------------------------------------------------
LEMMA TileInitInv == TileInit => TileInv
<1>1. SUFFICES ASSUME TileInit PROVE TileInv
  OBVIOUS
<1>2. TileTypeOK
  BY <1>1, TileBoundAssumption DEF TileInit, TileTypeOK, NoClearer
<1>3. Loaders /\ Flags
  BY <1>1 DEF TileInit, Loaders, Flags, Loads
<1>4. Ages
  BY <1>1 DEF TileInit, Ages
<1>5. QED
  BY <1>2, <1>3, <1>4 DEF TileInv

LEMMA TileStutter == TileInv /\ UNCHANGED teVars => TileInv'
<1>1. SUFFICES ASSUME TileInv, UNCHANGED teVars PROVE TileInv'
  OBVIOUS
<1>2. TileTypeOK'
  BY <1>1 DEF TileInv, TileTypeOK, teVars, entryPart, queryPart
<1>3. Loaders' /\ Ages'
  BY <1>1 DEF TileInv, Loaders, Loads, Ages, Amenities, teVars, entryPart, queryPart
<1>4. Flags'
  BY <1>1 DEF TileInv, Flags, Full, KeepsEmpty, Amenities, teVars, entryPart, queryPart
<1>5. QED
  BY <1>2, <1>3, <1>4 DEF TileInv

LEMMA TileNextInv == TileInv /\ TileNext => TileInv'
<1>1. SUFFICES ASSUME TileInv, TileNext PROVE TileInv'
  OBVIOUS
<1>2. ASSUME NEW q \in Queries, AskTile(q) \/ AbortTile(q) \/ DropData(q) PROVE TileInv'
  BY <1>1, <1>2, AskTileInv, AbortTileInv, DropDataInv
<1>3. ASSUME NEW q \in Queries, TileStep(q) PROVE TileInv'
  BY <1>1, <1>3, LookInCacheInv, ObtainEntryInv, ClaimEntryInv, LookAtStateInv, FallAsleepInv,
     CheckEntryInv, RemoveExpiredInv, CancelLoadInv, RemoveFailedInv, PutInCacheInv,
     StoreDataInv, PublishLoadedInv, TellInv, LoadReturnsInv, DestroyDataInv DEF TileStep
<1>4. CASE Evict \/ ClearCache \/ ClearerStep
  BY <1>1, <1>4, EvictInv, ClearCacheInv, ListEntriesInv, LookIfLoadingInv, CancelListedInv,
     TellListedInv, ClearEntriesInv DEF ClearerStep
<1>5. QED
  BY <1>1, <1>2, <1>3, <1>4 DEF TileNext

\* The inductive invariant holds of every provider, with any queries and entries.
THEOREM TileInvariance == TileSpec => []TileInv
<1>1. TileInv /\ [TileNext]_teVars => TileInv'
  BY TileNextInv, TileStutter
<1>2. QED
  BY <1>1, TileInitInv, PTL DEF TileSpec

\* A query refers to an entry from obtaining it to returning, and every variable
\* keeps its type.
THEOREM TileTypes == TileSpec => []TileTypeOK
<1>1. TileInv => TileTypeOK
  BY DEF TileInv
<1>2. QED
  BY <1>1, TileInvariance, PTL

\* However queries, removals and invalidations of a tile interleave, an entry has at
\* most one loader, and one that says it is loading has one.
THEOREM LoadedByOne == TileSpec => []OneLoader
<1>1. ASSUME TileInv PROVE OneLoader
  <2>1. SUFFICES ASSUME NEW e \in Entries
                 PROVE  /\ Cardinality(Loader(e)) <= 1
                        /\ teState[e] = "loading" => Cardinality(Loader(e)) = 1
    BY DEF OneLoader
  <2>2. CASE Loader(e) = {}
    <3>1. teState[e] # "loading"
      BY <1>1, <2>2 DEF TileInv, Loaders, Loads, Loader
    <3>2. Cardinality(Loader(e)) = 0
      BY <2>2, FS_EmptySet
    <3>3. QED
      BY <3>1, <3>2
  <2>3. CASE Loader(e) # {}
    <3>1. PICK q \in Loader(e) : TRUE
      BY <2>3
    <3>2. Loader(e) = {q}
      BY <1>1, <3>1 DEF TileInv, Loaders, Loads, Loader
    <3>3. Cardinality(Loader(e)) = 1
      BY <3>2, FS_Singleton
    <3>4. QED
      BY <3>3
  <2>4. QED
    BY <2>2, <2>3
<1>2. QED
  BY <1>1, TileInvariance, PTL

\* An entry that says "loaded" has data if there is some for the tile, although flag,
\* reference and state are stored one after the other.
THEOREM LoadedIsRight == TileSpec => []LoadedSaysWhatIsThere
<1>1. ASSUME TileInv PROVE LoadedSaysWhatIsThere
  <2>1. \A e \in Entries : teState[e] = "loaded" => (tePresent[e] <=> Full)
    BY <1>1 DEF TileInv, Flags
  <2>2. \A e \in Entries : tePresent[e] \in BOOLEAN
    BY <1>1 DEF TileInv, TileTypeOK
  <2>3. (teWorld \/ KeepsEmpty) \in BOOLEAN
    OBVIOUS
  <2>4. QED
    BY <2>1, <2>2, <2>3 DEF LoadedSaysWhatIsThere, Full
<1>2. QED
  BY <1>1, TileInvariance, PTL

\* A query that began after an invalidation gets something loaded before it only
\* from the cache, where it was put after the invalidation had cleared it.
THEOREM OlderComesLate == TileSpec => []OlderOnlyIfLate
<1>1. TileInv => OlderOnlyIfLate
  BY DEF TileInv, Ages, OlderOnlyIfLate
<1>2. QED
  BY <1>1, TileInvariance, PTL

\* Without a cache of amenities, which is every provider but one with cacheSize > 0,
\* nothing older is given at all, whichever loads were under way.
THEOREM NothingOlderUncached == TileSpec => [](teStyle # "cached" => NothingOlder)
<1>1. TileInv => (teStyle # "cached" => NothingOlder)
  BY DEF TileInv, Ages, NothingOlder
<1>2. QED
  BY <1>1, TileInvariance, PTL
=============================================================================
