--------------------------- MODULE SharedCache_proofs ---------------------------
(* Proofs that the counters of the shared caches are exact, and that what a     *)
(* query lists stays available, for any queries and keys. The counter is the     *)
(* number of queries that hold a key, so that each step has to say how these     *)
(* sets of queries change.                                                      *)
EXTENDS SharedCache, FiniteSetTheorems, TLAPS

Holding(k) == {u \in Users : k \in scHeld[u]}
Counting(k) == {u \in Users : k \in Counted(u)}

-----------------------------------------------------------------------------
(* The inductive invariant.                                                    *)

\* A key is to do, being read, listed or awaited by a query, one of these at a time.
Apart(u) ==
    /\ scTodo[u] \cap (scKey[u] \cup scHeld[u] \cup Pending(u)) = {}
    /\ scKey[u] \cap (scHeld[u] \cup Pending(u)) = {}
    /\ scHeld[u] \cap Pending(u) = {}

AtRest(u) ==
    /\ scPc[u] # "read" => scKey[u] = {}
    /\ \A k, l \in scKey[u] : k = l
    /\ scPc[u] \in {"idle", "result"} => scTodo[u] = {} /\ Pending(u) = {}
    /\ scPc[u] = "idle" => scHeld[u] = {}

Promises ==
    \A k \in Keys :
        /\ scEntry[k] = "promised" <=> \E u \in Users : k \in scKey[u]
        /\ \A u, v \in Users : k \in scKey[u] \cap scKey[v] => u = v

\* What a future says, and what is listed, is so of the entry.
Entries ==
    \A u \in Users, k \in Keys :
        /\ scFuture[u][k] = "pending" => scEntry[k] = "promised"
        /\ scFuture[u][k] = "value" => scEntry[k] = "available"
        /\ k \in scHeld[u] => scEntry[k] = "available"

\* A dropped reference keeps its entry for good. Only a group can be promised and
\* have some, and the promise of a group is never broken.
LostStay ==
    \A k \in Keys : scEntry[k] = "absent" \/ (k \in Blocks /\ scEntry[k] = "promised")
                        => scLost[k] = 0

Counts == \A k \in Keys : scRefs[k] = Cardinality(Holding(k)) + Cardinality(Counting(k)) + scLost[k]

CacheInv ==
    /\ CacheTypeOK /\ Promises /\ Entries /\ LostStay /\ Counts
    /\ \A u \in Users : Apart(u) /\ AtRest(u)

-----------------------------------------------------------------------------
(* Counting.                                                                   *)

LEMMA UsersFinite == IsFiniteSet(Users)
BY CacheUsersAssumption, FS_Union DEF Users

LEMMA SizeType == \A S \in SUBSET Users : Cardinality(S) \in Nat
BY UsersFinite, FS_Subset, FS_CardinalityType

LEMMA SizeMore ==
    ASSUME NEW S \in SUBSET Users, NEW u \in Users \ S
    PROVE  Cardinality(S \cup {u}) = Cardinality(S) + 1
<1>1. IsFiniteSet(S)
  BY UsersFinite, FS_Subset
<1>2. QED
  BY <1>1, FS_AddElement

LEMMA SizeLess ==
    ASSUME NEW S \in SUBSET Users, NEW u \in S
    PROVE  Cardinality(S \ {u}) = Cardinality(S) - 1
<1>1. IsFiniteSet(S)
  BY UsersFinite, FS_Subset
<1>2. QED
  BY <1>1, FS_RemoveElement

LEMMA SizeSome ==
    ASSUME NEW S \in SUBSET Users, NEW u \in S
    PROVE  Cardinality(S) > 0
<1>1. IsFiniteSet(S)
  BY UsersFinite, FS_Subset
<1>2. Cardinality(S) \in Nat /\ Cardinality(S) # 0
  BY <1>1, FS_CardinalityType, FS_EmptySet
<1>3. QED
  BY <1>2

LEMMA SizeNone == Cardinality({}) = 0
BY FS_EmptySet

\* Where nobody begins or stops holding or counting, the counters stay exact.
LEMMA CountsStay ==
    ASSUME CacheInv, UNCHANGED <<scRefs, scLost>>,
           \A k \in Keys : Holding(k)' = Holding(k) /\ Counting(k)' = Counting(k)
    PROVE  Counts'
BY DEF CacheInv, Counts

-----------------------------------------------------------------------------
(* One lemma for each action. *)

\* A query begins with nothing but keys to do.
LEMMA BeginInv ==
    ASSUME CacheInv, NEW u \in Users, NEW keys \in SUBSET KeysOf(u), Begin(u, keys)
    PROVE  CacheInv'
<1>1. CacheTypeOK'
  BY CacheBoundAssumption DEF CacheInv, CacheTypeOK, Begin, Pending, KeysOf, Keys
<1>2. Promises'
  BY DEF CacheInv, CacheTypeOK, Promises, Begin
<1>3. Entries'
  BY DEF CacheInv, CacheTypeOK, Entries, Begin
<1>4. LostStay'
  BY DEF CacheInv, CacheTypeOK, LostStay, Begin
<1>5. Counts'
  <2>1. \A l \in Keys : Holding(l)' = Holding(l) /\ Counting(l)' = Counting(l)
    BY DEF CacheInv, CacheTypeOK, Holding, Counting, Counted, Begin
  <2>2. QED
    BY <2>1, CountsStay DEF Begin
<1>6. \A v \in Users : Apart(v)' /\ AtRest(v)'
  BY DEF CacheInv, CacheTypeOK, Apart, AtRest, Begin, Pending
<1>7. QED
  BY <1>1, <1>2, <1>3, <1>4, <1>5, <1>6 DEF CacheInv

\* An abort only marks the query.
LEMMA AbortInv ==
    ASSUME CacheInv, NEW u \in Users, AbortQuery(u)
    PROVE  CacheInv'
<1>1. CacheTypeOK'
  BY CacheBoundAssumption DEF CacheInv, CacheTypeOK, AbortQuery, Pending
<1>2. Promises'
  BY DEF CacheInv, CacheTypeOK, Promises, AbortQuery
<1>3. Entries'
  BY DEF CacheInv, CacheTypeOK, Entries, AbortQuery
<1>4. LostStay'
  BY DEF CacheInv, CacheTypeOK, LostStay, AbortQuery
<1>5. Counts'
  <2>1. \A l \in Keys : Holding(l)' = Holding(l) /\ Counting(l)' = Counting(l)
    BY DEF CacheInv, CacheTypeOK, Holding, Counting, Counted, AbortQuery
  <2>2. QED
    BY <2>1, CountsStay DEF AbortQuery
<1>6. \A v \in Users : Apart(v)' /\ AtRest(v)'
  BY DEF CacheInv, CacheTypeOK, Apart, AtRest, AbortQuery, Pending
<1>7. QED
  BY <1>1, <1>2, <1>3, <1>4, <1>5, <1>6 DEF CacheInv

\* A block read for the query alone changes nothing that is shared.
LEMMA ForcedReadInv ==
    ASSUME CacheInv, NEW u \in Users, ForcedRead(u)
    PROVE  CacheInv'
<1>1. CacheTypeOK'
  BY CacheBoundAssumption DEF CacheInv, CacheTypeOK, ForcedRead, queryVars, Pending
<1>2. Promises'
  BY DEF CacheInv, CacheTypeOK, Promises, ForcedRead
<1>3. Entries'
  BY DEF CacheInv, CacheTypeOK, Entries, ForcedRead
<1>4. LostStay'
  BY DEF CacheInv, CacheTypeOK, LostStay, ForcedRead
<1>5. Counts'
  <2>1. \A l \in Keys : Holding(l)' = Holding(l) /\ Counting(l)' = Counting(l)
    BY DEF CacheInv, CacheTypeOK, Holding, Counting, Counted, ForcedRead
  <2>2. QED
    BY <2>1, CountsStay DEF ForcedRead
<1>6. \A v \in Users : Apart(v)' /\ AtRest(v)'
  BY DEF CacheInv, CacheTypeOK, Apart, AtRest, ForcedRead, queryVars, Pending
<1>7. QED
  BY <1>1, <1>2, <1>3, <1>4, <1>5, <1>6 DEF CacheInv

\* A result goes when it lists nothing.
LEMMA ResultGoneInv ==
    ASSUME CacheInv, NEW u \in Users, ResultGone(u)
    PROVE  CacheInv'
<1>1. CacheTypeOK'
  BY CacheBoundAssumption DEF CacheInv, CacheTypeOK, ResultGone, queryVars, Pending
<1>2. Promises'
  BY DEF CacheInv, CacheTypeOK, Promises, ResultGone
<1>3. Entries'
  BY DEF CacheInv, CacheTypeOK, Entries, ResultGone
<1>4. LostStay'
  BY DEF CacheInv, CacheTypeOK, LostStay, ResultGone
<1>5. Counts'
  <2>1. \A l \in Keys : Holding(l)' = Holding(l) /\ Counting(l)' = Counting(l)
    BY DEF CacheInv, CacheTypeOK, Holding, Counting, Counted, ResultGone
  <2>2. QED
    BY <2>1, CountsStay DEF ResultGone
<1>6. \A v \in Users : Apart(v)' /\ AtRest(v)'
  BY DEF CacheInv, CacheTypeOK, Apart, AtRest, ResultGone, queryVars, Pending
<1>7. QED
  BY <1>1, <1>2, <1>3, <1>4, <1>5, <1>6 DEF CacheInv

\* A fulfilled promise counts its maker; those who wait for it are counted already.
LEMMA FulfilInv ==
    ASSUME CacheInv, NEW u \in Users, NEW k \in Keys, Fulfil(u, k)
    PROVE  CacheInv'
<1>1. CacheTypeOK'
  BY CacheBoundAssumption DEF CacheInv, CacheTypeOK, Fulfil, Resolve, queryVars, Pending
<1>2. Promises'
  BY DEF CacheInv, CacheTypeOK, Promises, AtRest, Fulfil, Resolve
<1>3. Entries'
  BY DEF CacheInv, CacheTypeOK, Entries, Fulfil, Resolve
<1>4. LostStay'
  BY DEF CacheInv, CacheTypeOK, LostStay, Fulfil, Resolve
<1>5. Counts'
  <2>1. Holding(k)' = Holding(k) \cup {u} /\ Counting(k)' = Counting(k)
    BY DEF CacheInv, CacheTypeOK, Holding, Counting, Fulfil, Resolve, Counted
  <2>2. \A l \in Keys \ {k} : Holding(l)' = Holding(l) /\ Counting(l)' = Counting(l)
    BY DEF CacheInv, CacheTypeOK, Holding, Counting, Fulfil, Resolve, Counted
  <2>3. scRefs[k]' = Cardinality(Holding(k)') + Cardinality(Counting(k)') + scLost[k]'
    <3>1. u \notin Holding(k) /\ Holding(k) \subseteq Users /\ Counting(k) \subseteq Users
      BY DEF CacheInv, CacheTypeOK, Promises, Entries, Holding, Counting, Fulfil
    <3>2. Cardinality(Holding(k) \cup {u}) = Cardinality(Holding(k)) + 1
      BY <3>1, SizeMore
    <3>3. Cardinality(Holding(k)) \in Nat /\ Cardinality(Counting(k)) \in Nat
      BY <3>1, SizeType
    <3>4. scRefs[k]' = scRefs[k] + 1 /\ scLost[k]' = scLost[k] /\ scLost[k] \in Nat
      BY DEF CacheInv, CacheTypeOK, Fulfil
    <3>5. scRefs[k] = Cardinality(Holding(k)) + Cardinality(Counting(k)) + scLost[k]
      BY DEF CacheInv, Counts
    <3>6. QED
      BY <2>1, <3>2, <3>3, <3>4, <3>5
  <2>4. \A l \in Keys \ {k} : scRefs[l]' = scRefs[l] /\ scLost[l]' = scLost[l]
    BY DEF CacheInv, CacheTypeOK, Fulfil, Resolve
  <2>5. QED
    BY <2>2, <2>3, <2>4 DEF CacheInv, Counts
<1>6. \A v \in Users : Apart(v)' /\ AtRest(v)'
  BY DEF CacheInv, CacheTypeOK, Apart, AtRest, Fulfil, Resolve, queryVars, Pending
<1>7. QED
  BY <1>1, <1>2, <1>3, <1>4, <1>5, <1>6 DEF CacheInv

\* A broken promise leaves nobody counted: its futures count no more.
LEMMA BreakInv ==
    ASSUME CacheInv, NEW u \in Users, NEW k \in Keys, BreakPromise(u, k)
    PROVE  CacheInv'
<1>1. CacheTypeOK'
  BY CacheBoundAssumption DEF CacheInv, CacheTypeOK, BreakPromise, Resolve, queryVars, Pending
<1>2. Promises'
  BY DEF CacheInv, CacheTypeOK, Promises, AtRest, BreakPromise, Resolve
<1>3. Entries'
  BY DEF CacheInv, CacheTypeOK, Promises, Entries, BreakPromise, Resolve
<1>4. LostStay'
  BY DEF CacheInv, CacheTypeOK, Promises, LostStay, BreakPromise, Resolve, KeysOf
<1>5. Counts'
  <2>1. Holding(k)' = {} /\ Counting(k)' = {}
    BY DEF CacheInv, CacheTypeOK, Promises, Entries, Holding, Counting, BreakPromise, Resolve,
       queryVars, Pending, Counted, KeysOf, Keys
  <2>2. \A l \in Keys \ {k} : Holding(l)' = Holding(l) /\ Counting(l)' = Counting(l)
    BY DEF CacheInv, CacheTypeOK, Holding, Counting, BreakPromise, Resolve, Counted
  <2>3. scRefs[k]' = Cardinality(Holding(k)') + Cardinality(Counting(k)') + scLost[k]'
    <3>1. scRefs[k]' = 0 /\ scLost[k]' = 0
      BY DEF CacheInv, CacheTypeOK, Promises, LostStay, BreakPromise, KeysOf
    <3>2. QED
      BY <2>1, <3>1, SizeNone
  <2>4. \A l \in Keys \ {k} : scRefs[l]' = scRefs[l] /\ scLost[l]' = scLost[l]
    BY DEF CacheInv, CacheTypeOK, BreakPromise, Resolve
  <2>5. QED
    BY <2>2, <2>3, <2>4 DEF CacheInv, Counts
<1>6. \A v \in Users : Apart(v)' /\ AtRest(v)'
  BY DEF CacheInv, CacheTypeOK, Apart, AtRest, BreakPromise, Resolve, queryVars, Pending
<1>7. QED
  BY <1>1, <1>2, <1>3, <1>4, <1>5, <1>6 DEF CacheInv

\* The last reference of an entry drops it: nobody else holds it or waits for it.
LEMMA ReleaseInv ==
    ASSUME CacheInv, NEW u \in Users, NEW k \in Keys, Release(u, k)
    PROVE  CacheInv'
<1>0. scRefs[k] = 1 => Holding(k) = {u} /\ Counting(k) = {} /\ scLost[k] = 0
  <2>1. u \in Holding(k) /\ Holding(k) \subseteq Users /\ Counting(k) \subseteq Users
    BY DEF Release, Holding, Counting
  <2>2. Cardinality(Holding(k)) \in Nat /\ Cardinality(Counting(k)) \in Nat /\ Cardinality(Holding(k)) > 0
    BY <2>1, SizeType, SizeSome
  <2>3. scLost[k] \in Nat /\ scRefs[k] = Cardinality(Holding(k)) + Cardinality(Counting(k)) + scLost[k]
    BY DEF CacheInv, CacheTypeOK, Counts
  <2>4. Cardinality(Holding(k) \ {u}) = Cardinality(Holding(k)) - 1
    BY <2>1, SizeLess
  <2>5. ASSUME NEW S \in SUBSET Users, Cardinality(S) = 0 PROVE S = {}
    BY <2>5, SizeSome
  <2>6. CASE scRefs[k] = 1
    <3>1. Cardinality(Holding(k)) = 1 /\ Cardinality(Counting(k)) = 0 /\ scLost[k] = 0
      BY <2>2, <2>3, <2>6
    <3>2. Cardinality(Holding(k) \ {u}) = 0
      BY <3>1, <2>4
    <3>3. Holding(k) \ {u} = {} /\ Counting(k) = {}
      BY <3>1, <3>2, <2>1, <2>5
    <3>4. QED
      BY <3>1, <3>3, <2>1
  <2>7. QED
    BY <2>6
<1>10. scRefs[k] \in Nat \ {0}
  <2>1. u \in Holding(k) /\ Holding(k) \subseteq Users /\ Counting(k) \subseteq Users
    BY DEF Release, Holding, Counting
  <2>2. Cardinality(Holding(k)) \in Nat /\ Cardinality(Counting(k)) \in Nat /\ Cardinality(Holding(k)) > 0
    BY <2>1, SizeType, SizeSome
  <2>3. QED
    BY <2>2 DEF CacheInv, CacheTypeOK, Counts
<1>1. CacheTypeOK'
  <2>1. scEntry' \in [Keys -> {"absent", "promised", "available"}]
    BY DEF CacheInv, CacheTypeOK, Release
  <2>2. scRefs' \in [Keys -> Nat] /\ scLost' \in [Keys -> Nat]
    <3>1. scRefs[k] - 1 \in Nat
      BY <1>10
    <3>2. QED
      BY <3>1 DEF CacheInv, CacheTypeOK, Release
  <2>3. scPc' \in [Users -> {"idle", "walk", "read", "forced", "result"}]
    BY DEF CacheInv, CacheTypeOK, Release
  <2>4. scTodo' \in [Users -> SUBSET Keys] /\ scKey' \in [Users -> SUBSET Keys]
    BY DEF CacheInv, CacheTypeOK, Release, queryVars
  <2>5. scHeld' \in [Users -> SUBSET Keys]
    BY DEF CacheInv, CacheTypeOK, Release
  <2>6. scFuture' \in [Users -> [Keys -> {"none", "pending", "value", "broken"}]]
    BY DEF CacheInv, CacheTypeOK, Release
  <2>7. \A v \in Users : scTodo'[v] \cup scKey'[v] \cup scHeld'[v] \cup Pending(v)' \subseteq KeysOf(v)
    BY DEF CacheInv, CacheTypeOK, Release, queryVars, Pending
  <2>8. scAborted' \subseteq Users /\ scRuns' \in 0..MaxRuns
    BY DEF CacheInv, CacheTypeOK, Release, queryVars
  <2>9. QED
    BY <2>1, <2>2, <2>3, <2>4, <2>5, <2>6, <2>7, <2>8 DEF CacheTypeOK
<1>2. Promises'
  BY DEF CacheInv, CacheTypeOK, Promises, Entries, Release
<1>3. Entries'
  BY <1>0 DEF CacheInv, CacheTypeOK, Entries, Holding, Counting, Release, Counted
<1>4. LostStay'
  BY <1>0 DEF CacheInv, CacheTypeOK, LostStay, Release
<1>5. Counts'
  <2>1. Holding(k)' = Holding(k) \ {u} /\ Counting(k)' = Counting(k)
    BY DEF CacheInv, CacheTypeOK, Holding, Counting, Release, Counted
  <2>2. \A l \in Keys \ {k} : Holding(l)' = Holding(l) /\ Counting(l)' = Counting(l)
    BY DEF CacheInv, CacheTypeOK, Holding, Counting, Release, Counted
  <2>3. scRefs[k]' = Cardinality(Holding(k)') + Cardinality(Counting(k)') + scLost[k]'
    <3>1. Holding(k) \subseteq Users /\ Counting(k) \subseteq Users /\ u \in Holding(k)
      BY DEF CacheInv, CacheTypeOK, Holding, Counting, Release
    <3>2. Cardinality(Holding(k) \ {u}) = Cardinality(Holding(k)) - 1
      BY <3>1, SizeLess
    <3>3. Cardinality(Holding(k)) \in Nat /\ Cardinality(Counting(k)) \in Nat
      BY <3>1, SizeType
    <3>4. scRefs[k]' = scRefs[k] - 1 /\ scLost[k]' = scLost[k] /\ scLost[k] \in Nat /\ scRefs[k] \in Nat
      BY DEF CacheInv, CacheTypeOK, Release
    <3>5. scRefs[k] = Cardinality(Holding(k)) + Cardinality(Counting(k)) + scLost[k]
      BY DEF CacheInv, Counts
    <3>6. QED
      BY <2>1, <3>2, <3>3, <3>4, <3>5
  <2>4. \A l \in Keys \ {k} : scRefs[l]' = scRefs[l] /\ scLost[l]' = scLost[l]
    BY DEF CacheInv, CacheTypeOK, Release
  <2>5. QED
    BY <2>2, <2>3, <2>4 DEF CacheInv, Counts
<1>6. \A v \in Users : Apart(v)' /\ AtRest(v)'
  BY DEF CacheInv, CacheTypeOK, Apart, AtRest, Release, queryVars, Pending
<1>7. QED
  BY <1>1, <1>2, <1>3, <1>4, <1>5, <1>6 DEF CacheInv

\* A grouper that gives up leaves its reference counted for ever.
LEMMA GiveUpInv ==
    ASSUME CacheInv, NEW u \in Users, NEW k \in Keys, GiveUp(u, k)
    PROVE  CacheInv'
<1>1. CacheTypeOK'
  BY CacheBoundAssumption DEF CacheInv, CacheTypeOK, GiveUp, Lose, queryVars, Pending
<1>2. Promises'
  BY DEF CacheInv, CacheTypeOK, Promises, GiveUp, Lose
<1>3. Entries'
  BY DEF CacheInv, CacheTypeOK, Entries, GiveUp, Lose
<1>4. LostStay'
  BY CacheNamesAssumption DEF CacheInv, CacheTypeOK, Entries, LostStay, GiveUp, Lose, Pending,
     KeysOf
<1>5. Counts'
  <2>1. Holding(k)' = Holding(k) /\ Counting(k)' = Counting(k) \ {u}
    BY DEF CacheInv, CacheTypeOK, Holding, Counting, GiveUp, Lose, Counted
  <2>2. \A l \in Keys \ {k} : Holding(l)' = Holding(l) /\ Counting(l)' = Counting(l)
    BY DEF CacheInv, CacheTypeOK, Holding, Counting, GiveUp, Lose, Counted
  <2>3. scRefs[k]' = Cardinality(Holding(k)') + Cardinality(Counting(k)') + scLost[k]'
    <3>1. Holding(k) \subseteq Users /\ Counting(k) \subseteq Users /\ u \in Counting(k)
      BY DEF CacheInv, CacheTypeOK, Holding, Counting, Counted, GiveUp
    <3>2. Cardinality(Counting(k) \ {u}) = Cardinality(Counting(k)) - 1
      BY <3>1, SizeLess
    <3>3. Cardinality(Holding(k)) \in Nat /\ Cardinality(Counting(k)) \in Nat
      BY <3>1, SizeType
    <3>4. scRefs[k]' = scRefs[k] /\ scLost[k]' = scLost[k] + 1 /\ scLost[k] \in Nat /\ scRefs[k] \in Nat
      BY DEF CacheInv, CacheTypeOK, Lose, GiveUp
    <3>5. scRefs[k] = Cardinality(Holding(k)) + Cardinality(Counting(k)) + scLost[k]
      BY DEF CacheInv, Counts
    <3>6. QED
      BY <2>1, <3>2, <3>3, <3>4, <3>5
  <2>4. \A l \in Keys \ {k} : scRefs[l]' = scRefs[l] /\ scLost[l]' = scLost[l]
    BY DEF CacheInv, CacheTypeOK, GiveUp, Lose
  <2>5. QED
    BY <2>2, <2>3, <2>4 DEF CacheInv, Counts
<1>6. \A v \in Users : Apart(v)' /\ AtRest(v)'
  BY DEF CacheInv, CacheTypeOK, Apart, AtRest, GiveUp, Lose, queryVars, Pending
<1>7. QED
  BY <1>1, <1>2, <1>3, <1>4, <1>5, <1>6 DEF CacheInv

\* A future that is taken turns into a reference, unless it is broken.
LEMMA TakeInv ==
    ASSUME CacheInv, NEW u \in Users, NEW k \in Keys, TakeFuture(u, k)
    PROVE  CacheInv'
<1>1. CacheTypeOK'
  BY CacheBoundAssumption DEF CacheInv, CacheTypeOK, TakeFuture, queryVars, Pending
<1>2. Promises'
  BY DEF CacheInv, CacheTypeOK, Promises, TakeFuture
<1>3. Entries'
  BY DEF CacheInv, CacheTypeOK, Entries, TakeFuture
<1>4. LostStay'
  BY DEF CacheInv, CacheTypeOK, LostStay, TakeFuture
<1>5. Counts'
  <2>1. CASE scFuture[u][k] = "value"
    <3>1. Holding(k)' = Holding(k) \cup {u} /\ Counting(k)' = Counting(k) \ {u}
      BY <2>1 DEF CacheInv, CacheTypeOK, Holding, Counting, TakeFuture, Counted
    <3>2. \A l \in Keys \ {k} : Holding(l)' = Holding(l) /\ Counting(l)' = Counting(l)
      BY <2>1 DEF CacheInv, CacheTypeOK, Holding, Counting, TakeFuture, Counted
    <3>3. scRefs[k]' = Cardinality(Holding(k)') + Cardinality(Counting(k)') + scLost[k]'
      <4>1. Holding(k) \subseteq Users /\ Counting(k) \subseteq Users /\ u \notin Holding(k) /\ u \in Counting(k)
        BY <2>1 DEF CacheInv, CacheTypeOK, Apart, Holding, Counting, Counted, Pending,
           TakeFuture
      <4>2. Cardinality(Holding(k) \cup {u}) = Cardinality(Holding(k)) + 1 /\ Cardinality(Counting(k) \ {u}) = Cardinality(Counting(k)) - 1
        BY <4>1, SizeMore, SizeLess
      <4>3. Cardinality(Holding(k)) \in Nat /\ Cardinality(Counting(k)) \in Nat
        BY <4>1, SizeType
      <4>4. scRefs[k]' = scRefs[k] /\ scLost[k]' = scLost[k] /\ scLost[k] \in Nat /\ scRefs[k] \in Nat
        BY <2>1 DEF CacheInv, CacheTypeOK, TakeFuture
      <4>5. scRefs[k] = Cardinality(Holding(k)) + Cardinality(Counting(k)) + scLost[k]
        BY <2>1 DEF CacheInv, Counts
      <4>6. QED
        BY <3>1, <4>2, <4>3, <4>4, <4>5
    <3>4. \A l \in Keys \ {k} : scRefs[l]' = scRefs[l] /\ scLost[l]' = scLost[l]
      BY <2>1 DEF CacheInv, CacheTypeOK, TakeFuture
    <3>5. QED
      BY <3>2, <3>3, <3>4 DEF CacheInv, Counts
  <2>2. CASE scFuture[u][k] = "broken"
    <3>1. \A l \in Keys : Holding(l)' = Holding(l) /\ Counting(l)' = Counting(l)
      BY <2>2 DEF CacheInv, CacheTypeOK, Holding, Counting, TakeFuture, Counted
    <3>2. QED
      BY <3>1, CountsStay DEF TakeFuture
  <2>3. QED
    BY <2>1, <2>2 DEF TakeFuture
<1>6. \A v \in Users : Apart(v)' /\ AtRest(v)'
  BY DEF CacheInv, CacheTypeOK, Apart, AtRest, TakeFuture, queryVars, Pending
<1>7. QED
  BY <1>1, <1>2, <1>3, <1>4, <1>5, <1>6 DEF CacheInv

\* A new reference or future is counted; a new promise has nobody.
LEMMA ObtainInv ==
    ASSUME CacheInv, NEW u \in Users, NEW k \in Keys, Obtain(u, k)
    PROVE  CacheInv'
<1>1. CacheTypeOK'
  <2>1. scEntry' \in [Keys -> {"absent", "promised", "available"}]
    BY DEF CacheInv, CacheTypeOK, Obtain
  <2>2. scRefs' \in [Keys -> Nat] /\ scLost' \in [Keys -> Nat]
    BY DEF CacheInv, CacheTypeOK, Obtain, Users
  <2>3. scPc' \in [Users -> {"idle", "walk", "read", "forced", "result"}]
    BY DEF CacheInv, CacheTypeOK, Obtain
  <2>4. scTodo' \in [Users -> SUBSET Keys] /\ scKey' \in [Users -> SUBSET Keys]
    BY DEF CacheInv, CacheTypeOK, Obtain, Users
  <2>5. scHeld' \in [Users -> SUBSET Keys]
    BY DEF CacheInv, CacheTypeOK, Obtain, Keys
  <2>6. scFuture' \in [Users -> [Keys -> {"none", "pending", "value", "broken"}]]
    BY CacheNamesAssumption DEF CacheInv, CacheTypeOK, Obtain, Pending, KeysOf, Users, Keys
  <2>7. \A v \in Users : scTodo'[v] \cup scKey'[v] \cup scHeld'[v] \cup Pending(v)' \subseteq KeysOf(v)
    BY DEF CacheInv, CacheTypeOK, Obtain, Pending
  <2>8. scAborted' \subseteq Users /\ scRuns' \in 0..MaxRuns
    BY DEF CacheInv, CacheTypeOK, Obtain
  <2>9. QED
    BY <2>1, <2>2, <2>3, <2>4, <2>5, <2>6, <2>7, <2>8 DEF CacheTypeOK
<1>2. Promises'
  <2>1. CASE scEntry[k] # "absent"
    BY <2>1 DEF CacheInv, CacheTypeOK, Promises, Obtain
  <2>2. CASE scEntry[k] = "absent"
    <3>1. scEntry' = [scEntry EXCEPT ![k] = "promised"] /\ scKey' = [scKey EXCEPT ![u] = {k}]
      BY <2>2 DEF Obtain
    <3>2. scKey[u] = {} /\ \A v \in Users : k \notin scKey[v]
      BY <2>2 DEF CacheInv, Promises, AtRest, Obtain
    <3>3. QED
      BY <3>1, <3>2 DEF CacheInv, CacheTypeOK, Promises
  <2>3. QED
    BY <2>1, <2>2
<1>3. Entries'
  BY DEF CacheInv, CacheTypeOK, Promises, Entries, AtRest, Obtain, Pending, KeysOf, Users, Keys
<1>4. LostStay'
  BY DEF CacheInv, CacheTypeOK, LostStay, Obtain
<1>5. Counts'
  <2>1. CASE scEntry[k] = "available"
    <3>1. Holding(k)' = Holding(k) \cup {u} /\ Counting(k)' = Counting(k)
      BY <2>1 DEF CacheInv, CacheTypeOK, Holding, Counting, Obtain, Counted
    <3>2. \A l \in Keys \ {k} : Holding(l)' = Holding(l) /\ Counting(l)' = Counting(l)
      BY <2>1 DEF CacheInv, CacheTypeOK, Holding, Counting, Obtain, Pending, Counted, KeysOf,
         Users
    <3>3. scRefs[k]' = Cardinality(Holding(k)') + Cardinality(Counting(k)') + scLost[k]'
      <4>1. Holding(k) \subseteq Users /\ Counting(k) \subseteq Users /\ u \notin Holding(k)
        BY <2>1 DEF CacheInv, CacheTypeOK, Apart, Holding, Counting, Obtain
      <4>2. Cardinality(Holding(k) \cup {u}) = Cardinality(Holding(k)) + 1
        BY <4>1, SizeMore
      <4>3. Cardinality(Holding(k)) \in Nat /\ Cardinality(Counting(k)) \in Nat
        BY <4>1, SizeType
      <4>4. scRefs[k]' = scRefs[k] + 1 /\ scLost[k]' = scLost[k] /\ scLost[k] \in Nat /\ scRefs[k] \in Nat
        BY <2>1 DEF CacheInv, CacheTypeOK, Obtain
      <4>5. scRefs[k] = Cardinality(Holding(k)) + Cardinality(Counting(k)) + scLost[k]
        BY <2>1 DEF CacheInv, Counts
      <4>6. QED
        BY <3>1, <4>2, <4>3, <4>4, <4>5
    <3>4. \A l \in Keys \ {k} : scRefs[l]' = scRefs[l] /\ scLost[l]' = scLost[l]
      BY <2>1 DEF CacheInv, CacheTypeOK, Obtain
    <3>5. QED
      BY <3>2, <3>3, <3>4 DEF CacheInv, Counts
  <2>2. CASE scEntry[k] = "promised"
    <3>1. Holding(k)' = Holding(k) /\ Counting(k)' = Counting(k) \cup {u}
      BY <2>2 DEF CacheInv, CacheTypeOK, Holding, Counting, Obtain, Counted
    <3>2. \A l \in Keys \ {k} : Holding(l)' = Holding(l) /\ Counting(l)' = Counting(l)
      BY <2>2 DEF CacheInv, CacheTypeOK, Holding, Counting, Obtain, Pending, Counted, KeysOf,
         Keys
    <3>3. scRefs[k]' = Cardinality(Holding(k)') + Cardinality(Counting(k)') + scLost[k]'
      <4>1. Holding(k) \subseteq Users /\ Counting(k) \subseteq Users /\ u \notin Counting(k)
        BY <2>2 DEF CacheInv, CacheTypeOK, Apart, Holding, Counting, Counted, Pending, Obtain
      <4>2. Cardinality(Counting(k) \cup {u}) = Cardinality(Counting(k)) + 1
        BY <4>1, SizeMore
      <4>3. Cardinality(Holding(k)) \in Nat /\ Cardinality(Counting(k)) \in Nat
        BY <4>1, SizeType
      <4>4. scRefs[k]' = scRefs[k] + 1 /\ scLost[k]' = scLost[k] /\ scLost[k] \in Nat /\ scRefs[k] \in Nat
        BY <2>2 DEF CacheInv, CacheTypeOK, Obtain
      <4>5. scRefs[k] = Cardinality(Holding(k)) + Cardinality(Counting(k)) + scLost[k]
        BY <2>2 DEF CacheInv, Counts
      <4>6. QED
        BY <3>1, <4>2, <4>3, <4>4, <4>5
    <3>4. \A l \in Keys \ {k} : scRefs[l]' = scRefs[l] /\ scLost[l]' = scLost[l]
      BY <2>2 DEF CacheInv, CacheTypeOK, Obtain
    <3>5. QED
      BY <3>2, <3>3, <3>4 DEF CacheInv, Counts
  <2>3. CASE scEntry[k] = "absent"
    <3>1. Holding(k)' = {} /\ Counting(k)' = {}
      BY <2>3 DEF CacheInv, CacheTypeOK, Entries, Holding, Counting, Obtain, Counted
    <3>2. \A l \in Keys \ {k} : Holding(l)' = Holding(l) /\ Counting(l)' = Counting(l)
      BY <2>3 DEF CacheInv, CacheTypeOK, Holding, Counting, Obtain, Counted
    <3>3. scRefs[k]' = Cardinality(Holding(k)') + Cardinality(Counting(k)') + scLost[k]'
      <4>1. scRefs[k]' = 0 /\ scLost[k]' = 0
        BY <2>3 DEF CacheInv, CacheTypeOK, LostStay, Obtain
      <4>2. QED
        BY <3>1, <4>1, SizeNone
    <3>4. \A l \in Keys \ {k} : scRefs[l]' = scRefs[l] /\ scLost[l]' = scLost[l]
      BY <2>3 DEF CacheInv, CacheTypeOK, Obtain
    <3>5. QED
      BY <3>2, <3>3, <3>4 DEF CacheInv, Counts
  <2>4. QED
    BY <2>1, <2>2, <2>3 DEF CacheInv, CacheTypeOK
<1>6. \A v \in Users : Apart(v)' /\ AtRest(v)'
  BY DEF CacheInv, CacheTypeOK, Apart, AtRest, Obtain, Pending
<1>7. QED
  BY <1>1, <1>2, <1>3, <1>4, <1>5, <1>6 DEF CacheInv

\* An aborted query drops what it lists, or its futures, once for each key.
LEMMA EndInv ==
    ASSUME CacheInv, NEW u \in Users, End(u)
    PROVE  CacheInv'
<1>1. CacheTypeOK'
  <2>1. scEntry' \in [Keys -> {"absent", "promised", "available"}]
    BY DEF CacheInv, CacheTypeOK, End, Lose, NoFuture
  <2>2. scRefs' \in [Keys -> Nat] /\ scLost' \in [Keys -> Nat]
    BY DEF CacheInv, CacheTypeOK, End, Lose, Keys, NoFuture
  <2>3. scPc' \in [Users -> {"idle", "walk", "read", "forced", "result"}]
    BY DEF CacheInv, CacheTypeOK, End, Lose, NoFuture
  <2>4. scTodo' \in [Users -> SUBSET Keys] /\ scKey' \in [Users -> SUBSET Keys]
    BY DEF CacheInv, CacheTypeOK, End, Lose, NoFuture
  <2>5. scHeld' \in [Users -> SUBSET Keys]
    BY DEF CacheInv, CacheTypeOK, End, Lose, NoFuture
  <2>6. scFuture' \in [Users -> [Keys -> {"none", "pending", "value", "broken"}]]
    BY DEF CacheInv, CacheTypeOK, End, Lose, NoFuture
  <2>7. \A v \in Users : scTodo'[v] \cup scKey'[v] \cup scHeld'[v] \cup Pending(v)' \subseteq KeysOf(v)
    BY DEF CacheInv, CacheTypeOK, End, Lose, Pending, NoFuture
  <2>8. scAborted' \subseteq Users /\ scRuns' \in 0..MaxRuns
    BY DEF CacheInv, CacheTypeOK, End, Lose, NoFuture
  <2>9. QED
    BY <2>1, <2>2, <2>3, <2>4, <2>5, <2>6, <2>7, <2>8 DEF CacheTypeOK
<1>2. Promises'
  BY DEF CacheInv, CacheTypeOK, Promises, End, Lose, NoFuture
<1>3. Entries'
  BY DEF CacheInv, CacheTypeOK, Entries, End, Lose, NoFuture
<1>4. LostStay'
  BY CacheNamesAssumption DEF CacheInv, CacheTypeOK, Entries, LostStay, End, Lose, Pending,
     Counted, KeysOf, NoFuture
<1>5. Counts'
  <2>1. SUFFICES ASSUME NEW k \in Keys
                 PROVE  scRefs[k]' = Cardinality(Holding(k)') + Cardinality(Counting(k)') + scLost[k]'
    BY DEF Counts
  <2>2. Holding(k) \subseteq Users /\ Counting(k) \subseteq Users
    BY DEF Holding, Counting
  <2>3. Cardinality(Holding(k)) \in Nat /\ Cardinality(Counting(k)) \in Nat
    BY <2>2, SizeType
  <2>4. scRefs[k]' = scRefs[k] /\ scLost[k] \in Nat
        /\ scRefs[k] = Cardinality(Holding(k)) + Cardinality(Counting(k)) + scLost[k]
    BY DEF CacheInv, CacheTypeOK, Counts, End
  <2>5. CASE Holding(k)' = Holding(k) /\ Counting(k)' = Counting(k) /\ scLost[k]' = scLost[k]
    BY <2>4, <2>5
  <2>6. CASE u \in Holding(k) /\ Holding(k)' = Holding(k) \ {u}
             /\ Counting(k)' = Counting(k) /\ scLost[k]' = scLost[k] + 1
    <3>1. Cardinality(Holding(k) \ {u}) = Cardinality(Holding(k)) - 1
      BY <2>2, <2>6, SizeLess
    <3>2. QED
      BY <2>3, <2>4, <2>6, <3>1
  <2>7. CASE u \in Counting(k) /\ Counting(k)' = Counting(k) \ {u}
             /\ Holding(k)' = Holding(k) /\ scLost[k]' = scLost[k] + 1
    <3>1. Cardinality(Counting(k) \ {u}) = Cardinality(Counting(k)) - 1
      BY <2>2, <2>7, SizeLess
    <3>2. QED
      BY <2>3, <2>4, <2>7, <3>1
  <2>8. \/ Holding(k)' = Holding(k) /\ Counting(k)' = Counting(k) /\ scLost[k]' = scLost[k]
        \/ u \in Holding(k) /\ Holding(k)' = Holding(k) \ {u}
           /\ Counting(k)' = Counting(k) /\ scLost[k]' = scLost[k] + 1
        \/ u \in Counting(k) /\ Counting(k)' = Counting(k) \ {u}
           /\ Holding(k)' = Holding(k) /\ scLost[k]' = scLost[k] + 1
    <3>1. CASE u \notin scAborted /\ Pending(u) = {} /\ UNCHANGED <<scLost, scHeld>>
      BY <3>1 DEF CacheInv, CacheTypeOK, Holding, Counting, NoFuture, End, Lose, Pending,
         Counted
    <3>2. CASE u \in Readers /\ Pending(u) = {} /\ Lose(scHeld[u]) /\ scHeld' = [scHeld EXCEPT ![u] = {}]
      BY <3>2 DEF CacheInv, CacheTypeOK, Holding, Counting, NoFuture, End, Lose, Pending,
         Counted
    <3>3. CASE Lose(Counted(u)) /\ UNCHANGED scHeld
      BY <3>3 DEF CacheInv, CacheTypeOK, Holding, Counting, NoFuture, End, Lose, Counted
    <3>4. QED
      BY <3>1, <3>2, <3>3 DEF End
  <2>9. QED
    BY <2>5, <2>6, <2>7, <2>8
<1>6. \A v \in Users : Apart(v)' /\ AtRest(v)'
  BY DEF CacheInv, CacheTypeOK, Apart, AtRest, End, Lose, Pending, NoFuture
<1>7. QED
  BY <1>1, <1>2, <1>3, <1>4, <1>5, <1>6 DEF CacheInv

-----------------------------------------------------------------------------
LEMMA CacheInitInv == CacheInit => CacheInv
<1>1. SUFFICES ASSUME CacheInit PROVE CacheInv
  OBVIOUS
<1>2. CacheTypeOK
  BY <1>1, CacheBoundAssumption DEF CacheInit, CacheTypeOK, NoFuture, Pending
<1>3. Promises /\ Entries /\ LostStay
  BY <1>1 DEF CacheInit, Promises, Entries, LostStay, NoFuture
<1>4. \A u \in Users : Apart(u) /\ AtRest(u)
  BY <1>1 DEF CacheInit, Apart, AtRest, NoFuture, Pending
<1>5. \A k \in Keys : Holding(k) = {} /\ Counting(k) = {}
  BY <1>1 DEF CacheInit, Holding, Counting, Counted, NoFuture
<1>6. Counts
  BY <1>1, <1>5, SizeNone DEF CacheInit, Counts
<1>7. QED
  BY <1>2, <1>3, <1>4, <1>6 DEF CacheInv

LEMMA CacheStutter == CacheInv /\ UNCHANGED scVars => CacheInv'
<1>1. SUFFICES ASSUME CacheInv, UNCHANGED scVars PROVE CacheInv'
  OBVIOUS
<1>2. CacheTypeOK'
  BY <1>1 DEF CacheInv, CacheTypeOK, scVars, Pending
<1>3. Promises' /\ Entries' /\ LostStay'
  BY <1>1 DEF CacheInv, Promises, Entries, LostStay, scVars
<1>4. Counts'
  BY <1>1 DEF CacheInv, Counts, Holding, Counting, Counted, scVars
<1>5. \A u \in Users : Apart(u)' /\ AtRest(u)'
  BY <1>1 DEF CacheInv, Apart, AtRest, Pending, scVars
<1>6. QED
  BY <1>2, <1>3, <1>4, <1>5 DEF CacheInv

LEMMA CacheNextInv == CacheInv /\ CacheNext => CacheInv'
<1>1. SUFFICES ASSUME CacheInv, NEW u \in Users,
                      \/ \E keys \in SUBSET KeysOf(u) : Begin(u, keys)
                      \/ AbortQuery(u) \/ ResultGone(u) \/ QueryStep(u)
                      \/ \E k \in Keys : GiveUp(u, k) \/ Release(u, k)
               PROVE  CacheInv'
  BY DEF CacheNext
<1>2. CASE \E keys \in SUBSET KeysOf(u) : Begin(u, keys)
  BY <1>1, <1>2, BeginInv
<1>3. CASE AbortQuery(u) \/ ResultGone(u)
  BY <1>1, <1>3, AbortInv, ResultGoneInv
<1>4. CASE QueryStep(u)
  BY <1>1, <1>4, ForcedReadInv, EndInv, ObtainInv, FulfilInv, BreakInv, TakeInv DEF QueryStep
<1>5. CASE \E k \in Keys : GiveUp(u, k) \/ Release(u, k)
  BY <1>1, <1>5, GiveUpInv, ReleaseInv
<1>6. QED
  BY <1>1, <1>2, <1>3, <1>4, <1>5

\* The inductive invariant holds of every query, with any number of them.
THEOREM CacheInvariance == CacheSpec => []CacheInv
<1>1. CacheInv /\ [CacheNext]_scVars => CacheInv'
  BY CacheNextInv, CacheStutter
<1>2. QED
  BY <1>1, CacheInitInv, PTL DEF CacheSpec

\* The keys a query deals with are those of its own container, in every state.
THEOREM CacheTypes == CacheSpec => []CacheTypeOK
<1>1. CacheInv => CacheTypeOK
  BY DEF CacheInv
<1>2. QED
  BY <1>1, CacheInvariance, PTL

\* However many queries share an entry, its counter is the number of references
\* and futures that are held of it, and those that were dropped: nobody's
\* release can be counted twice or take away the entry of another.
THEOREM CountersAreHolders == CacheSpec => []CounterIsHolders
<1>1. CacheInv => CounterIsHolders
  BY DEF CacheInv, Counts, CounterIsHolders, Holding, Counting
<1>2. QED
  BY <1>1, CacheInvariance, PTL

\* What a query or a result lists stays available with a counter above zero
\* until it releases it, and a promise has exactly one maker.
THEOREM ListedStays == CacheSpec => []ListedIsAvailable
<1>1. ASSUME CacheInv PROVE ListedIsAvailable
  <2>1. ASSUME NEW k \in Keys, NEW u \in Users, k \in scHeld[u]
        PROVE  scEntry[k] = "available" /\ scRefs[k] > 0
    <3>1. u \in Holding(k) /\ Holding(k) \subseteq Users /\ Counting(k) \subseteq Users
      BY <2>1 DEF Holding, Counting
    <3>2. Cardinality(Holding(k)) \in Nat /\ Cardinality(Counting(k)) \in Nat /\ Cardinality(Holding(k)) > 0
      BY <3>1, SizeType, SizeSome
    <3>3. scRefs[k] > 0
      BY <1>1, <3>2 DEF CacheInv, CacheTypeOK, Counts
    <3>4. QED
      BY <1>1, <2>1, <3>3 DEF CacheInv, Entries
  <2>2. QED
    BY <1>1, <2>1 DEF CacheInv, Promises, ListedIsAvailable
<1>2. QED
  BY <1>1, CacheInvariance, PTL
=============================================================================
