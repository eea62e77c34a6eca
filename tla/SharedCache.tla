------------------------------ MODULE SharedCache ------------------------------
(* SharedResourcesContainer and SharedByZoomResourcesContainer, with the two   *)
(* kinds of queries that share data through them:                              *)
(*  - readers of OBF sections (ObfMapSectionReader_P, ObfRoutingSectionReader_P)*)
(*    share data blocks: a block promised by another query is waited for at    *)
(*    once, and the query's result releases the blocks when it is deleted;     *)
(*  - MapPrimitiviser_P shares groups of primitives: what is promised by       *)
(*    others is waited for at the end, and not for ever.                       *)
(* Every method of a container is one critical section. The levels of zoom of  *)
(* a block are those of one query, so a key stands for a block and a zoom.     *)
EXTENDS Naturals, FiniteSets

CONSTANTS
    Readers,  \* queries of OBF sections
    Groupers, \* queries of the primitiviser
    Blocks,   \* keys of the container of data blocks
    Shared,   \* keys of the container of groups of primitives
    MaxRuns   \* bound on the queries that begin

ASSUME CacheBoundAssumption == MaxRuns \in Nat
ASSUME CacheUsersAssumption == IsFiniteSet(Readers) /\ IsFiniteSet(Groupers)
ASSUME CacheNamesAssumption == Readers \cap Groupers = {} /\ Blocks \cap Shared = {}

VARIABLES
    scEntry,   \* [Keys -> "absent", "promised" (_promisedResources) or "available"]
    scRefs,    \* [Keys -> refCounter] of the promised or available entry
    scPc,      \* [Users -> "idle", "walk", "read", "forced" or "result"]
    scTodo,    \* [Users -> keys the query has not come to]
    scKey,     \* [Users -> the key being read]
    scHeld,    \* [Users -> keys whose references the query or its result lists]
    scFuture,  \* [Users -> [Keys -> the shared future it holds]]
    scAborted, \* queries whose controller says isAborted()
    scLost,    \* [Keys -> references counted that nobody will release]
    scRuns     \* queries left to begin

Users == Readers \cup Groupers
Keys == Blocks \cup Shared
KeysOf(u) == IF u \in Readers THEN Blocks ELSE Shared
queryVars == <<scTodo, scAborted, scRuns>>
scVars == <<scEntry, scRefs, scPc, scTodo, scKey, scHeld, scFuture, scAborted, scLost, scRuns>>

NoFuture == [k \in Keys |-> "none"]

CacheInit ==
    /\ scEntry = [k \in Keys |-> "absent"]
    /\ scRefs = [k \in Keys |-> 0]
    /\ scPc = [u \in Users |-> "idle"]
    /\ scTodo = [u \in Users |-> {}]
    /\ scKey = [u \in Users |-> {}]
    /\ scHeld = [u \in Users |-> {}]
    /\ scFuture = [u \in Users |-> NoFuture]
    /\ scAborted = {}
    /\ scLost = [k \in Keys |-> 0]
    /\ scRuns = MaxRuns

\* The keys whose entry counts a future of u.
Counted(u) == {k \in Keys : scFuture[u][k] \in {"pending", "value"}}
Pending(u) == {k \in Keys : scFuture[u][k] # "none"}
Lose(keys) == scLost' = [k \in Keys |-> IF k \in keys THEN scLost[k] + 1 ELSE scLost[k]]
\* Everyone who holds the future of k gets the outcome.
Resolve(k, outcome) ==
    scFuture' = [u \in Users |-> IF scFuture[u][k] = "pending"
                                 THEN [scFuture[u] EXCEPT ![k] = outcome] ELSE scFuture[u]]

Begin(u, keys) ==
    /\ scPc[u] = "idle" /\ scRuns > 0 /\ keys # {}
    /\ scRuns' = scRuns - 1
    /\ scPc' = [scPc EXCEPT ![u] = "walk"]
    /\ scTodo' = [scTodo EXCEPT ![u] = keys]
    /\ UNCHANGED <<scEntry, scRefs, scKey, scHeld, scFuture, scAborted, scLost>>

AbortQuery(u) ==
    /\ scPc[u] \in {"walk", "read", "forced"} /\ u \notin scAborted
    /\ scAborted' = scAborted \cup {u}
    /\ UNCHANGED <<scEntry, scRefs, scPc, scTodo, scKey, scHeld, scFuture, scLost, scRuns>>

\* obtainReferenceOrFutureReferenceOrMakePromise()
Obtain(u, k) ==
    /\ scPc[u] = "walk" /\ k \in scTodo[u] /\ u \notin scAborted
    /\ u \in Readers => Pending(u) = {}
    /\ scTodo' = [scTodo EXCEPT ![u] = @ \ {k}]
    /\ \/ /\ scEntry[k] = "available"
          /\ scRefs' = [scRefs EXCEPT ![k] = @ + 1]
          /\ scHeld' = [scHeld EXCEPT ![u] = @ \cup {k}]
          /\ UNCHANGED <<scEntry, scPc, scKey, scFuture>>
       \/ /\ scEntry[k] = "promised"
          /\ scRefs' = [scRefs EXCEPT ![k] = @ + 1]
          /\ scFuture' = [scFuture EXCEPT ![u][k] = "pending"]
          /\ UNCHANGED <<scEntry, scPc, scKey, scHeld>>
       \/ /\ scEntry[k] = "absent"
          /\ scEntry' = [scEntry EXCEPT ![k] = "promised"]
          /\ scRefs' = [scRefs EXCEPT ![k] = 0]
          /\ scPc' = [scPc EXCEPT ![u] = "read"]
          /\ scKey' = [scKey EXCEPT ![u] = {k}]
          /\ UNCHANGED <<scHeld, scFuture>>
    /\ UNCHANGED <<scAborted, scLost, scRuns>>

\* fulfilPromiseAndReference()
\* A faulty variant: the reference of who made the promise is not counted.
FulfilForgetsOwn(u, k) ==
    /\ scPc[u] = "read" /\ k \in scKey[u] /\ (u \in Readers => u \notin scAborted)
    /\ scEntry' = [scEntry EXCEPT ![k] = "available"]
    /\ scRefs' = [scRefs EXCEPT ![k] = @]
    /\ scHeld' = [scHeld EXCEPT ![u] = @ \cup {k}]
    /\ Resolve(k, "value")
    /\ scPc' = [scPc EXCEPT ![u] = "walk"] /\ scKey' = [scKey EXCEPT ![u] = {}]
    /\ UNCHANGED <<queryVars, scLost>>
Fulfil(u, k) ==
    /\ scPc[u] = "read" /\ k \in scKey[u] /\ (u \in Readers => u \notin scAborted)
    /\ scEntry' = [scEntry EXCEPT ![k] = "available"]
    /\ scRefs' = [scRefs EXCEPT ![k] = @ + 1]
    /\ scHeld' = [scHeld EXCEPT ![u] = @ \cup {k}]
    /\ Resolve(k, "value")
    /\ scPc' = [scPc EXCEPT ![u] = "walk"] /\ scKey' = [scKey EXCEPT ![u] = {}]
    /\ UNCHANGED <<queryVars, scLost>>

\* breakPromise(): an aborted read is not shared.
\* A faulty variant: the promise is forgotten instead, and its futures stay as they are.
BreakPromiseSilently(u, k) ==
    /\ scPc[u] = "read" /\ k \in scKey[u] /\ u \in Readers \cap scAborted
    /\ scEntry' = [scEntry EXCEPT ![k] = "absent"]
    /\ scRefs' = [scRefs EXCEPT ![k] = 0]
    /\ scPc' = [scPc EXCEPT ![u] = "walk"] /\ scKey' = [scKey EXCEPT ![u] = {}]
    /\ UNCHANGED <<queryVars, scHeld, scFuture, scLost>>
BreakPromise(u, k) ==
    /\ scPc[u] = "read" /\ k \in scKey[u] /\ u \in Readers \cap scAborted
    /\ scEntry' = [scEntry EXCEPT ![k] = "absent"]
    /\ scRefs' = [scRefs EXCEPT ![k] = 0]
    /\ Resolve(k, "broken")
    /\ scPc' = [scPc EXCEPT ![u] = "walk"] /\ scKey' = [scKey EXCEPT ![u] = {}]
    /\ UNCHANGED <<queryVars, scHeld, scLost>>

\* A reader waits for the future it was given, and reads a block whose promise
\* was broken for itself alone. A grouper waits when it has come to every key.
\* A faulty variant: a block read because the promise was broken is listed too.
TakeFutureListsBroken(u, k) ==
    /\ scPc[u] = "walk" /\ (u \in Groupers => scTodo[u] = {} /\ u \notin scAborted)
    /\ scFuture[u][k] \in {"value", "broken"}
    /\ scFuture' = [scFuture EXCEPT ![u][k] = "none"]
    /\ scHeld' = [scHeld EXCEPT ![u] = @ \cup {k}]
    /\ scPc' = [scPc EXCEPT ![u] = IF scFuture[u][k] = "broken" THEN "forced" ELSE "walk"]
    /\ UNCHANGED <<queryVars, scEntry, scRefs, scKey, scLost>>
TakeFuture(u, k) ==
    /\ scPc[u] = "walk" /\ (u \in Groupers => scTodo[u] = {} /\ u \notin scAborted)
    /\ scFuture[u][k] \in {"value", "broken"}
    /\ scFuture' = [scFuture EXCEPT ![u][k] = "none"]
    /\ scHeld' = [scHeld EXCEPT ![u] = IF scFuture[u][k] = "value" THEN @ \cup {k} ELSE @]
    /\ scPc' = [scPc EXCEPT ![u] = IF scFuture[u][k] = "broken" THEN "forced" ELSE "walk"]
    /\ UNCHANGED <<queryVars, scEntry, scRefs, scKey, scLost>>

ForcedRead(u) ==
    /\ scPc[u] = "forced"
    /\ scPc' = [scPc EXCEPT ![u] = "walk"]
    /\ UNCHANGED <<queryVars, scEntry, scRefs, scKey, scHeld, scFuture, scLost>>

\* wait_until(): the reference a grouper stops waiting for stays counted.
GiveUp(u, k) ==
    /\ scPc[u] = "walk" /\ u \in Groupers \ scAborted /\ scTodo[u] = {}
    /\ scFuture[u][k] = "pending"
    /\ scFuture' = [scFuture EXCEPT ![u][k] = "none"]
    /\ Lose({k})
    /\ UNCHANGED <<queryVars, scEntry, scRefs, scPc, scKey, scHeld>>

\* The query ends: with a result that keeps the references, or aborted. An
\* aborted reader's list is dropped with the references it counts, an aborted
\* grouper drops its futures, and what it lists is released with its objects.
End(u) ==
    /\ scPc[u] = "walk"
    /\ \/ u \notin scAborted /\ scTodo[u] = {} /\ Pending(u) = {} /\ UNCHANGED <<scLost, scHeld>>
       \/ u \in Readers \cap scAborted /\ Pending(u) = {}
          /\ Lose(scHeld[u]) /\ scHeld' = [scHeld EXCEPT ![u] = {}]
       \/ u \in Groupers \cap scAborted /\ Lose(Counted(u)) /\ UNCHANGED scHeld
    /\ scFuture' = [scFuture EXCEPT ![u] = NoFuture]
    /\ scTodo' = [scTodo EXCEPT ![u] = {}]
    /\ scAborted' = scAborted \ {u}
    /\ scPc' = [scPc EXCEPT ![u] = "result"]
    /\ UNCHANGED <<scEntry, scRefs, scKey, scRuns>>

\* releaseReference(), from the destructor of the result, one key at a time.
Release(u, k) ==
    /\ scPc[u] = "result" /\ k \in scHeld[u]
    /\ scHeld' = [scHeld EXCEPT ![u] = @ \ {k}]
    /\ scRefs' = [scRefs EXCEPT ![k] = @ - 1]
    /\ scEntry' = [scEntry EXCEPT ![k] = IF scRefs[k] = 1 THEN "absent" ELSE @]
    /\ UNCHANGED <<queryVars, scPc, scKey, scFuture, scLost>>

ResultGone(u) ==
    /\ scPc[u] = "result" /\ scHeld[u] = {}
    /\ scPc' = [scPc EXCEPT ![u] = "idle"]
    /\ UNCHANGED <<queryVars, scEntry, scRefs, scKey, scHeld, scFuture, scLost>>

-----------------------------------------------------------------------------
QueryStep(u) ==
    \/ ForcedRead(u) \/ End(u)
    \/ \E k \in Keys : \/ Obtain(u, k) \/ Fulfil(u, k) \/ BreakPromise(u, k)
                       \/ TakeFuture(u, k)
CacheNext ==
    \E u \in Users :
        \/ \E keys \in SUBSET KeysOf(u) : Begin(u, keys)
        \/ AbortQuery(u) \/ ResultGone(u) \/ QueryStep(u)
        \/ \E k \in Keys : GiveUp(u, k) \/ Release(u, k)

\* A query that runs takes its next step, unless it waits for another one.
CacheFairness == \A u \in Users : WF_scVars(QueryStep(u))
CacheSpec == CacheInit /\ [][CacheNext]_scVars /\ CacheFairness

-----------------------------------------------------------------------------
\* Types, and that a query has to do with keys of its own container only.
CacheTypeOK ==
    /\ scEntry \in [Keys -> {"absent", "promised", "available"}]
    /\ scRefs \in [Keys -> Nat] /\ scLost \in [Keys -> Nat]
    /\ scPc \in [Users -> {"idle", "walk", "read", "forced", "result"}]
    /\ scTodo \in [Users -> SUBSET Keys] /\ scKey \in [Users -> SUBSET Keys]
    /\ scHeld \in [Users -> SUBSET Keys]
    /\ scFuture \in [Users -> [Keys -> {"none", "pending", "value", "broken"}]]
    /\ \A u \in Users : scTodo[u] \cup scKey[u] \cup scHeld[u] \cup Pending(u) \subseteq KeysOf(u)
    /\ scAborted \subseteq Users /\ scRuns \in 0..MaxRuns

\* The counter of an entry is exactly what is held of it: references listed by
\* queries and results, futures that were not broken, and what was dropped.
CounterIsHolders ==
    \A k \in Keys :
        scRefs[k] = Cardinality({u \in Users : k \in scHeld[u]})
                    + Cardinality({u \in Users : k \in Counted(u)}) + scLost[k]

\* The assertions of the container: a reference that is listed is one to an
\* available entry until it is released, and only who promised an entry,
\* which nobody else does meanwhile, fulfils or breaks it.
ListedIsAvailable ==
    \A k \in Keys :
        /\ \A u \in Users : k \in scHeld[u] => scEntry[k] = "available" /\ scRefs[k] > 0
        /\ scEntry[k] = "promised" <=> \E u \in Users : k \in scKey[u]
        /\ \A u, v \in Users : k \in scKey[u] \cap scKey[v] => u = v

\* Nobody waits for ever: once no more queries begin, every one comes to its end,
\* although they wait for promises of one another and may be aborted at any point.
QueriesEnd == <>[](\A u \in Users : scPc[u] \in {"result", "idle"})

\* An entry nobody holds is dropped.
UnheldIsDropped ==
    \A k \in Keys : scEntry[k] = "available" =>
        \E u \in Users : k \in scHeld[u] \cup Counted(u)
=============================================================================
