--------------------------- MODULE OnlineTiles_proofs ---------------------------
(* Proofs that no two threads work on the file of one tile as the one in        *)
(* process, and that the answer "no data" is explained, for any threads, tiles  *)
(* and number of requests and deaths of the process.                            *)
EXTENDS OnlineTiles, SequenceTheorems, TLAPS

Steps == {"idle", "lock", "asleep", "woken", "look", "download", "image", "bad", "unlock",
          "read", "discard"}
Ends == {"return", "read", "nodata", "half", "failed", "image", "bad"}

-----------------------------------------------------------------------------
(* The inductive invariant.                                                    *)

OnlineTypes ==
    /\ olFile \in [WebTiles -> {"none", "empty", "image", "bad"}]
    /\ olPc \in [Getters -> Steps] /\ olThen \in [Getters -> Ends]
    /\ olTiles \in [Getters -> Seq(WebTiles)]
    /\ \A g \in Getters : olPc[g] # "idle" => olTiles[g] # <<>>

\* A file is empty because of an answer or an accident, or is being written.
EmptyIsExplained ==
    \A t \in WebTiles : olFile[t] = "empty" =>
        \/ t \in olExcused
        \/ \E g \in Getters : olPc[g] \in {"image", "bad"} /\ Current(g) = t

OnlineInv == OnlineTypes /\ DownloadsAlone /\ EmptyIsExplained /\ NoDataIsExplained

-----------------------------------------------------------------------------
(* Every action keeps the invariant.                                           *)

LEMMA CurrentIsTile ==
    ASSUME OnlineTypes, NEW g \in Getters, olPc[g] # "idle"
    PROVE  Current(g) \in WebTiles
<1>1. olTiles[g] \in Seq(WebTiles) /\ olTiles[g] # <<>>
  BY DEF OnlineTypes
<1>2. QED
  BY <1>1 DEF Current

\* Going on to the second tile, or returning.
LEMMA GoOnTypes ==
    ASSUME OnlineTypes, NEW g \in Getters, NEW result, NEW pcs \in [Getters -> Steps],
           \A h \in Getters \ {g} : pcs[h] # "idle" => olPc[h] # "idle",
           GoOn(g, result, pcs)
    PROVE  /\ olPc' \in [Getters -> Steps] /\ olThen' \in [Getters -> Ends]
           /\ olTiles' \in [Getters -> Seq(WebTiles)]
           /\ \A h \in Getters : olPc'[h] # "idle" => olTiles'[h] # <<>>
<1>1. olThen' \in [Getters -> Ends]
  BY DEF OnlineTypes, Ends, GoOn
<1>2. CASE result = "image" /\ Len(olTiles[g]) > 1
  <2>1. olTiles[g] \in Seq(WebTiles)
    BY DEF OnlineTypes
  <2>2. Tail(olTiles[g]) \in Seq(WebTiles) /\ Tail(olTiles[g]) # <<>>
    <3> DEFINE s == olTiles[g]
    <3>1. Len(s) \in Nat /\ Len(s) > 1 /\ s # <<>>
      BY <1>2, <2>1, EmptySeq
    <3>2. Tail(s) \in Seq(WebTiles) /\ Len(Tail(s)) = Len(s) - 1
      BY <2>1, <3>1, HeadTailProperties
    <3> HIDE DEF s
    <3> DEFINE rest == Tail(s)
    <3>3. \A m, n : n \in Nat /\ n > 1 /\ m = n - 1 => m # 0
      OBVIOUS
    <3>4. rest # <<>>
      BY ONLY <3>1, <3>2, <3>3, EmptySeq
    <3>5. QED
      BY <3>2, <3>4 DEF s
  <2>3. olPc' = [pcs EXCEPT ![g] = "lock"] /\ olTiles' = [olTiles EXCEPT ![g] = Tail(@)]
    BY <1>2 DEF GoOn
  <2>4. QED
    BY <1>1, <2>2, <2>3 DEF OnlineTypes, Steps
<1>3. CASE ~(result = "image" /\ Len(olTiles[g]) > 1)
  <2>1. olPc' = [pcs EXCEPT ![g] = "idle"] /\ olTiles' = [olTiles EXCEPT ![g] = <<>>]
    BY <1>3 DEF GoOn
  <2>2. QED
    BY <1>1, <2>1 DEF OnlineTypes, Steps
<1>4. QED
  BY <1>2, <1>3

\* What the threads at work do is one of them going on with its tile ...
GoesOn(g) ==
    /\ AtWork(g) /\ AtWork(g)'
    /\ UNCHANGED <<olTiles, olBusy>>
    /\ \A h \in Getters \ {g} : olPc'[h] = olPc[h]

LEMMA GoesOnAlone ==
    ASSUME OnlineTypes, DownloadsAlone, NEW g \in Getters, GoesOn(g)
    PROVE  DownloadsAlone'
BY DEF DownloadsAlone, GoesOn, AtWork, Current

\* ... or another thread taking a step, in which threads may be woken.
Aside ==
    /\ \A h \in Getters : AtWork(h)' <=> AtWork(h)
    /\ \A h \in Getters : AtWork(h) => olTiles'[h] = olTiles[h]
    /\ UNCHANGED olBusy

LEMMA AsideAlone ==
    ASSUME DownloadsAlone, Aside
    PROVE  DownloadsAlone'
<1>1. \A h \in Getters : AtWork(h) => Current(h)' = Current(h)
  BY DEF Aside, Current
<1>2. QED
  BY <1>1 DEF DownloadsAlone, Aside

LEMMA GetKeeps ==
    ASSUME OnlineInv, NEW g \in Getters, NEW tiles \in Seq(WebTiles), tiles # <<>>, Get(g, tiles)
    PROVE  OnlineInv'
<1> USE DEF OnlineInv
<1>1. OnlineTypes'
  BY DEF OnlineTypes, Steps, Get, fileVars
<1>2. DownloadsAlone'
  BY AsideAlone DEF OnlineTypes, Aside, AtWork, Get
<1>3. EmptyIsExplained'
  BY DEF OnlineTypes, EmptyIsExplained, Current, Get, fileVars
<1>4. NoDataIsExplained'
  BY DEF OnlineTypes, NoDataIsExplained, Current, Get, fileVars
<1>5. QED
  BY <1>1, <1>2, <1>3, <1>4

LEMMA LockTileKeeps ==
    ASSUME OnlineInv, NEW g \in Getters, LockTile(g)
    PROVE  OnlineInv'
<1> USE DEF OnlineInv
<1>1. OnlineTypes'
  BY DEF OnlineTypes, Steps, LockTile, fileVars
<1>2. DownloadsAlone'
  <2>1. CASE Current(g) \in olBusy
    BY <2>1, AsideAlone DEF OnlineTypes, Aside, AtWork, LockTile
  <2>2. CASE Current(g) \notin olBusy
    <3>1. \A h \in Getters : AtWork(h)' <=> AtWork(h) \/ h = g
      BY <2>2 DEF OnlineTypes, AtWork, LockTile
    <3>2. \A h \in Getters : Current(h)' = Current(h)
      BY DEF Current, LockTile
    <3>3. \A h \in Getters : AtWork(h) => Current(h) # Current(g)
      BY <2>2 DEF DownloadsAlone
    <3>4. olBusy' = olBusy \cup {Current(g)}
      BY <2>2 DEF LockTile
    <3>5. QED
      BY <3>1, <3>2, <3>3, <3>4 DEF DownloadsAlone
  <2>3. QED
    BY <2>1, <2>2
<1>3. EmptyIsExplained'
  BY DEF OnlineTypes, EmptyIsExplained, Current, LockTile, fileVars
<1>4. NoDataIsExplained'
  BY DEF OnlineTypes, NoDataIsExplained, Current, LockTile, fileVars
<1>5. QED
  BY <1>1, <1>2, <1>3, <1>4

LEMMA UnlockTileKeeps ==
    ASSUME OnlineInv, NEW g \in Getters, UnlockTile(g)
    PROVE  OnlineInv'
<1> USE DEF OnlineInv
<1>1. OnlineTypes'
  <2> DEFINE woken == [h \in Getters |-> IF olPc[h] = "asleep" THEN "woken" ELSE olPc[h]]
  <2>1. CASE olThen[g] = "read"
    BY <2>1 DEF OnlineTypes, Steps, UnlockTile, fileVars
  <2>2. CASE olThen[g] # "read"
    <3>1. GoOn(g, olThen[g], woken)
      BY <2>2 DEF UnlockTile
    <3>2. woken \in [Getters -> Steps] /\ \A h \in Getters : woken[h] # "idle" => olPc[h] # "idle"
      BY DEF OnlineTypes, Steps
    <3>3. olFile' = olFile
      BY DEF UnlockTile, fileVars
    <3> HIDE DEF woken
    <3>4. QED
      BY <3>1, <3>2, <3>3, GoOnTypes DEF OnlineTypes
  <2>3. QED
    BY <2>1, <2>2
<1>2. \A h \in Getters \ {g} : /\ olTiles'[h] = olTiles[h] /\ olThen'[h] = olThen[h]
                               /\ olPc'[h] = IF olPc[h] = "asleep" THEN "woken" ELSE olPc[h]
  BY DEF OnlineTypes, UnlockTile, GoOn
<1>3. olPc[g] = "unlock" /\ olPc'[g] \in {"read", "lock", "idle"}
  BY DEF OnlineTypes, UnlockTile, GoOn
<1>4. DownloadsAlone'
  <2>1. \A h \in Getters : AtWork(h)' <=> AtWork(h) /\ h # g
    BY <1>2, <1>3 DEF AtWork
  <2>2. \A h \in Getters \ {g} : Current(h)' = Current(h)
    BY <1>2 DEF Current
  <2>3. AtWork(g) /\ olBusy' = olBusy \ {Current(g)}
    BY <1>3 DEF AtWork, UnlockTile
  <2>4. QED
    BY <2>1, <2>2, <2>3 DEF DownloadsAlone
<1>5. EmptyIsExplained'
  BY <1>2, <1>3 DEF EmptyIsExplained, Current, UnlockTile, fileVars
<1>6. NoDataIsExplained'
  BY <1>2, <1>3 DEF NoDataIsExplained, Current, UnlockTile, fileVars
<1>7. QED
  BY <1>1, <1>4, <1>5, <1>6

\* A file that is used is not one another thread writes: that thread would work on
\* the same tile.
LEMMA LookAtFileKeeps ==
    ASSUME OnlineInv, NEW g \in Getters, LookAtFile(g)
    PROVE  OnlineInv'
<1> USE DEF OnlineInv
<1>1. OnlineTypes'
  BY DEF OnlineTypes, Steps, Ends, LookAtFile, UnlockAnd, Proceed, fileVars
<1>2. DownloadsAlone'
  BY GoesOnAlone DEF OnlineTypes, GoesOn, AtWork, LookAtFile, UnlockAnd, Proceed
<1>3. EmptyIsExplained'
  BY DEF OnlineTypes, EmptyIsExplained, Current, LookAtFile, UnlockAnd, Proceed, fileVars
<1>4. NoDataIsExplained'
  <2>1. olFile[Current(g)] = "empty" => Current(g) \in olExcused
    BY CurrentIsTile DEF EmptyIsExplained, DownloadsAlone, AtWork, LookAtFile
  <2>2. QED
    BY <2>1 DEF OnlineTypes, NoDataIsExplained, Current, LookAtFile, UnlockAnd, Proceed,
       fileVars
<1>5. QED
  BY <1>1, <1>2, <1>3, <1>4

LEMMA DownloadKeeps ==
    ASSUME OnlineInv, NEW g \in Getters, Download(g)
    PROVE  OnlineInv'
<1> USE DEF OnlineInv
<1>1. olPc[g] = "download" /\ Current(g) \in WebTiles
  BY CurrentIsTile DEF Download
<1>2. CASE MarkMissing(g)
  <2>1. OnlineTypes'
    <3>1. olFile' \in [WebTiles -> {"none", "empty", "image", "bad"}]
      BY <1>1, <1>2 DEF OnlineTypes, MarkMissing
    <3>2. PICK then \in {"half", "nodata", "failed"} : UnlockAnd(g, then)
      BY <1>2 DEF MarkMissing
    <3>3. then \in Ends
      BY DEF Ends
    <3>4. QED
      BY <1>1, <3>1, <3>2, <3>3 DEF OnlineTypes, Steps, UnlockAnd
  <2>2. DownloadsAlone'
    BY <1>1, <1>2, GoesOnAlone DEF OnlineTypes, GoesOn, AtWork, MarkMissing, UnlockAnd
  <2>3. EmptyIsExplained'
    BY <1>1, <1>2 DEF OnlineTypes, EmptyIsExplained, Current, MarkMissing, UnlockAnd
  <2>4. NoDataIsExplained'
    BY <1>1, <1>2 DEF OnlineTypes, NoDataIsExplained, Current, MarkMissing, UnlockAnd
  <2>5. QED
    BY <2>1, <2>2, <2>3, <2>4
<1>3. CASE OpenFile(g)
  <2>1. PICK data \in {"image", "bad"} :
          \/ olFile' = [olFile EXCEPT ![Current(g)] = "empty"] /\ Proceed(g, data)
          \/ UNCHANGED olFile /\ UnlockAnd(g, data)
    BY <1>3 DEF OpenFile
  <2>2. UNCHANGED olExcused
    BY <1>3 DEF OpenFile
  <2>3. OnlineTypes'
    BY <1>1, <2>1 DEF OnlineTypes, Steps, Ends, UnlockAnd, Proceed
  <2>4. DownloadsAlone'
    BY <1>1, <2>1, GoesOnAlone DEF OnlineTypes, GoesOn, AtWork, UnlockAnd, Proceed
  <2>5. EmptyIsExplained'
    BY <1>1, <2>1, <2>2 DEF OnlineTypes, EmptyIsExplained, Current, UnlockAnd, Proceed
  <2>6. NoDataIsExplained'
    BY <1>1, <2>1, <2>2 DEF OnlineTypes, NoDataIsExplained, Current, UnlockAnd, Proceed
  <2>7. QED
    BY <2>3, <2>4, <2>5, <2>6
<1>4. CASE UNCHANGED <<olFile, olExcused>> /\ UnlockAnd(g, "failed")
  <2>1. OnlineTypes'
    BY <1>1, <1>4 DEF OnlineTypes, Steps, Ends, UnlockAnd
  <2>2. DownloadsAlone'
    BY <1>1, <1>4, GoesOnAlone DEF OnlineTypes, GoesOn, AtWork, UnlockAnd
  <2>3. EmptyIsExplained'
    BY <1>1, <1>4 DEF OnlineTypes, EmptyIsExplained, Current, UnlockAnd
  <2>4. NoDataIsExplained'
    BY <1>4 DEF OnlineTypes, NoDataIsExplained, Current, UnlockAnd
  <2>5. QED
    BY <2>1, <2>2, <2>3, <2>4
<1>5. QED
  BY <1>2, <1>3, <1>4 DEF Download

LEMMA WriteFileKeeps ==
    ASSUME OnlineInv, NEW g \in Getters, WriteFile(g)
    PROVE  OnlineInv'
<1> USE DEF OnlineInv
<1>1. olPc[g] \in {"image", "bad"} /\ Current(g) \in WebTiles
  BY CurrentIsTile DEF WriteFile
<1>2. PICK written \in {olPc[g], "bad", "empty"} :
        /\ olFile' = [olFile EXCEPT ![Current(g)] = IF @ = "none" THEN @ ELSE written]
        /\ olExcused' = IF written = olPc[g] THEN olExcused ELSE olExcused \cup {Current(g)}
  BY DEF WriteFile
<1>3. UnlockAnd(g, olPc[g])
  BY DEF WriteFile
<1>4. OnlineTypes'
  BY <1>1, <1>2, <1>3 DEF OnlineTypes, Steps, Ends, UnlockAnd
<1>5. DownloadsAlone'
  BY <1>1, <1>3, GoesOnAlone DEF OnlineTypes, GoesOn, AtWork, UnlockAnd
<1>6. EmptyIsExplained'
  BY <1>1, <1>2, <1>3 DEF OnlineTypes, EmptyIsExplained, Current, UnlockAnd
<1>7. NoDataIsExplained'
  BY <1>1, <1>2, <1>3 DEF OnlineTypes, NoDataIsExplained, Current, UnlockAnd
<1>8. QED
  BY <1>4, <1>5, <1>6, <1>7

\* Reading and discarding are done by threads that are no longer at work.
LEMMA ReadFileKeeps ==
    ASSUME OnlineInv, NEW g \in Getters, ReadFile(g) \/ DiscardFile(g)
    PROVE  OnlineInv'
<1> USE DEF OnlineInv
<1>1. olPc[g] \in {"read", "discard"} /\ Current(g) \in WebTiles
  BY CurrentIsTile DEF ReadFile, DiscardFile
<1>2. /\ olFile' \in {olFile, [olFile EXCEPT ![Current(g)] = "none"]}
      /\ olBusy' = olBusy /\ olExcused' = olExcused
  BY DEF ReadFile, DiscardFile, Proceed, fileVars
<1>3. \A h \in Getters \ {g} : /\ olPc'[h] = olPc[h] /\ olTiles'[h] = olTiles[h]
                               /\ olThen'[h] = olThen[h]
  BY DEF OnlineTypes, ReadFile, DiscardFile, GoOn, Proceed
<1>4. olPc'[g] \in {"discard", "lock", "idle"}
  BY DEF OnlineTypes, ReadFile, DiscardFile, GoOn, Proceed
<1>5. OnlineTypes'
  <2>1. olFile' \in [WebTiles -> {"none", "empty", "image", "bad"}]
    BY <1>1, <1>2 DEF OnlineTypes
  <2>2. CASE Proceed(g, "discard")
    BY <1>1, <2>1, <2>2 DEF OnlineTypes, Steps, Proceed
  <2>3. CASE \E result \in {"image", "failed"} : GoOn(g, result, olPc)
    BY <2>1, <2>3, GoOnTypes DEF OnlineTypes
  <2>4. QED
    BY <2>2, <2>3 DEF ReadFile, DiscardFile
<1>6. DownloadsAlone'
  <2>1. Aside
    BY <1>1, <1>2, <1>3, <1>4 DEF Aside, AtWork
  <2>2. QED
    BY <2>1, AsideAlone
<1>7. EmptyIsExplained'
  <2>1. \A t \in WebTiles : olFile'[t] = "empty" => olFile[t] = "empty"
    BY <1>1, <1>2 DEF OnlineTypes
  <2>2. \A h \in Getters : olPc[h] \in {"image", "bad"} =>
           olPc'[h] = olPc[h] /\ Current(h)' = Current(h)
    BY <1>1, <1>3 DEF Current
  <2>3. QED
    BY <1>2, <2>1, <2>2 DEF EmptyIsExplained
<1>8. NoDataIsExplained'
  BY <1>2, <1>3, <1>4 DEF NoDataIsExplained, Current
<1>9. QED
  BY <1>5, <1>6, <1>7, <1>8

\* The process dies in the middle of anything: a file left empty by that has been
\* accounted for.
LEMMA KillKeeps ==
    ASSUME OnlineInv, Kill
    PROVE  OnlineInv'
<1> USE DEF OnlineInv
<1>1. OnlineTypes'
  BY DEF OnlineTypes, Steps, Ends, Kill
<1>2. DownloadsAlone' /\ NoDataIsExplained'
  BY DEF DownloadsAlone, NoDataIsExplained, AtWork, Kill
<1>3. EmptyIsExplained'
  BY DEF EmptyIsExplained, Current, Kill
<1>4. QED
  BY <1>1, <1>2, <1>3

-----------------------------------------------------------------------------
(* The theorems.                                                               *)

LEMMA OnlineInitInv == OnlineInit => OnlineInv
<1> SUFFICES ASSUME OnlineInit PROVE OnlineInv
  OBVIOUS
<1>1. OnlineTypes
  BY DEF OnlineInit, OnlineTypes, Steps, Ends
<1>2. DownloadsAlone /\ NoDataIsExplained /\ EmptyIsExplained
  BY DEF OnlineInit, DownloadsAlone, NoDataIsExplained, EmptyIsExplained, AtWork
<1>3. QED
  BY <1>1, <1>2 DEF OnlineInv

LEMMA OnlineNextInv == OnlineInv /\ [OnlineNext]_olVars => OnlineInv'
<1> SUFFICES ASSUME OnlineInv, [OnlineNext]_olVars PROVE OnlineInv'
  OBVIOUS
<1>1. CASE \E g \in Getters : GetStep(g)
  BY <1>1, LockTileKeeps, UnlockTileKeeps, LookAtFileKeeps, DownloadKeeps, WriteFileKeeps,
     ReadFileKeeps DEF GetStep
<1>2. CASE \E g \in Getters, t \in WebTiles : Get(g, <<t>>)
  <2>1. PICK g \in Getters, t \in WebTiles : Get(g, <<t>>)
    BY <1>2
  <2>2. <<t>> \in Seq(WebTiles) /\ <<t>> # <<>>
    OBVIOUS
  <2>3. QED
    BY <2>1, <2>2, GetKeeps
<1>3. CASE \E g \in Getters, pair \in TilePairs : Get(g, pair)
  <2>1. PICK g \in Getters, pair \in TilePairs : Get(g, pair)
    BY <1>3
  <2>2. pair \in WebTiles \X WebTiles
    BY OnlinePairsAssumption
  <2>3. PICK a \in WebTiles, b \in WebTiles : pair = <<a, b>>
    BY <2>2
  <2>4. pair \in Seq(WebTiles) /\ pair # <<>>
    BY <2>3
  <2>5. QED
    BY <2>1, <2>4, GetKeeps
<1>4. CASE Kill
  BY <1>4, KillKeeps
<1>5. CASE UNCHANGED olVars
  <2>1. OnlineTypes' /\ EmptyIsExplained'
    BY <1>5 DEF OnlineInv, OnlineTypes, EmptyIsExplained, Current, olVars, fileVars
  <2>2. DownloadsAlone' /\ NoDataIsExplained'
    BY <1>5 DEF OnlineInv, DownloadsAlone, NoDataIsExplained, AtWork, Current, olVars, fileVars
  <2>3. QED
    BY <2>1, <2>2 DEF OnlineInv
<1>6. QED
  BY <1>1, <1>2, <1>3, <1>4, <1>5 DEF OnlineNext

\* The inductive invariant holds of any number of threads and tiles, kills included.
THEOREM OnlineInvariance == OnlineSpec => []OnlineInv
<1>1. OnlineInit => OnlineInv
  BY OnlineInitInv
<1>2. OnlineInv /\ [OnlineNext]_olVars => OnlineInv'
  BY OnlineNextInv
<1>3. QED
  BY <1>1, <1>2, PTL DEF OnlineSpec

\* lockTile() and unlockTile() keep the threads that look at, download or write the
\* file of one tile apart, although they share one condition for all tiles.
THEOREM OneThreadPerTile == OnlineSpec => []DownloadsAlone
BY OnlineInvariance, PTL DEF OnlineInv

\* obtainData() answers without an image and without an error only for a tile that
\* the server has answered 404 for, or whose file an accident left unfinished.
THEOREM NoDataHasReason == OnlineSpec => []NoDataIsExplained
BY OnlineInvariance, PTL DEF OnlineInv
=============================================================================
