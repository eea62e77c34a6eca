------------------------------ MODULE OnlineTiles ------------------------------
(* OnlineRasterMapLayerProvider_P::obtainData(): tiles downloaded by several    *)
(* threads into a directory of files that outlives the process. A tile in      *)
(* process is kept from other threads by lockTile() and unlockTile(), which     *)
(* share one condition for all tiles. With an elliptic projection the image is  *)
(* cut from two tiles, asked for one after the other.                           *)
(*                                                                             *)
(* A file is what decoding it would give. QFileInfo remembers the size it saw.  *)
(* What a thread does between the unlocking and its return touches no file,     *)
(* unless it reads one.                                                         *)
EXTENDS Naturals, Sequences

CONSTANTS
    Getters,    \* threads that obtain data
    WebTiles,   \* tiles of the source
    TilePairs,  \* pairs of tiles that one requested tile lies across
    MaxGets,    \* bound on the tiles of the source asked for
    MaxKills    \* bound on the times the process is killed

ASSUME OnlinePairsAssumption == TilePairs \subseteq WebTiles \X WebTiles
ASSUME OnlineBoundsAssumption == MaxGets \in Nat /\ MaxKills \in Nat

VARIABLES
    olFile,     \* [WebTiles -> "none", "empty", "image" or "bad"] the local file
    olBusy,     \* _tilesInProcess
    olPc,       \* [Getters -> step]
    olThen,     \* [Getters -> what follows unlockTile()]
    olTiles,    \* [Getters -> the tiles still wanted, the current one first]
    olHalf,     \* getters whose outData holds the image of the first tile
    olExcused,  \* tiles the server has answered 404 for, or whose file was left
                \* truncated or half written
    olGets, olKills \* tiles to ask for and kills left

fileVars == <<olFile, olExcused>>
olVars == <<fileVars, olBusy, olPc, olThen, olTiles, olHalf, olGets, olKills>>

OnlineInit ==
    /\ olFile = [t \in WebTiles |-> "none"] /\ olBusy = {}
    /\ olPc = [g \in Getters |-> "idle"] /\ olThen = [g \in Getters |-> "return"]
    /\ olTiles = [g \in Getters |-> <<>>] /\ olHalf = {}
    /\ olExcused = {} /\ olGets = MaxGets /\ olKills = MaxKills

Current(g) == Head(olTiles[g])
Proceed(g, pc) ==
    /\ olPc' = [olPc EXCEPT ![g] = pc]
    /\ UNCHANGED <<olThen, olTiles, olHalf, olBusy, olGets, olKills>>
UnlockAnd(g, then) ==
    /\ olPc' = [olPc EXCEPT ![g] = "unlock"]
    /\ olThen' = [olThen EXCEPT ![g] = then]
    /\ UNCHANGED <<olTiles, olHalf, olBusy, olGets, olKills>>

\* With the image of the first of two tiles the second one is asked for, and the
\* request returns otherwise.
GoOn(g, result, pcs) ==
    /\ olThen' = [olThen EXCEPT ![g] = "return"]
    /\ UNCHANGED <<olGets, olKills>>
    /\ IF result = "image" /\ Len(olTiles[g]) > 1
       THEN /\ olPc' = [pcs EXCEPT ![g] = "lock"]
            /\ olTiles' = [olTiles EXCEPT ![g] = Tail(@)]
            /\ olHalf' = olHalf \cup {g}
       ELSE /\ olPc' = [pcs EXCEPT ![g] = "idle"]
            /\ olTiles' = [olTiles EXCEPT ![g] = <<>>]
            /\ olHalf' = olHalf \ {g}

\* obtainData() for one tile, or for one that lies across two of the source
Get(g, tiles) ==
    /\ olPc[g] = "idle" /\ olGets >= Len(tiles)
    /\ olGets' = olGets - Len(tiles)
    /\ olPc' = [olPc EXCEPT ![g] = "lock"]
    /\ olTiles' = [olTiles EXCEPT ![g] = tiles]
    /\ UNCHANGED <<fileVars, olBusy, olThen, olHalf, olKills>>

\* lockTile()
\* A faulty variant: once woken, the tile is not looked at again.
LockTileOnce(g) ==
    /\ olPc[g] \in {"lock", "woken"}
    /\ IF Current(g) \in olBusy /\ olPc[g] = "lock"
       THEN olPc' = [olPc EXCEPT ![g] = "asleep"] /\ UNCHANGED olBusy
       ELSE olPc' = [olPc EXCEPT ![g] = "look"] /\ olBusy' = olBusy \cup {Current(g)}
    /\ UNCHANGED <<fileVars, olThen, olTiles, olHalf, olGets, olKills>>
LockTile(g) ==
    /\ olPc[g] \in {"lock", "woken"}
    /\ IF Current(g) \in olBusy
       THEN olPc' = [olPc EXCEPT ![g] = "asleep"] /\ UNCHANGED olBusy
       ELSE olPc' = [olPc EXCEPT ![g] = "look"] /\ olBusy' = olBusy \cup {Current(g)}
    /\ UNCHANGED <<fileVars, olThen, olTiles, olHalf, olGets, olKills>>

\* unlockTile() wakes those who wait for any tile.
UnlockTile(g) ==
    LET woken == [h \in Getters |-> IF olPc[h] = "asleep" THEN "woken" ELSE olPc[h]] IN
    /\ olPc[g] = "unlock"
    /\ olBusy' = olBusy \ {Current(g)}
    /\ \/ /\ olThen[g] = "read"
          /\ olPc' = [woken EXCEPT ![g] = "read"]
          /\ UNCHANGED <<olThen, olTiles, olHalf, olGets, olKills>>
       \/ olThen[g] # "read" /\ GoOn(g, olThen[g], woken)
    /\ UNCHANGED fileVars

\* A file that has not expired is used: an empty one means that there is no tile.
\* Otherwise the network is asked, if that is allowed.
LookAtFile(g) ==
    /\ olPc[g] = "look"
    /\ \/ /\ olFile[Current(g)] # "none"
          /\ UnlockAnd(g, IF olFile[Current(g)] = "empty" THEN "nodata" ELSE "read")
       \/ Proceed(g, "download")
       \/ UnlockAnd(g, "failed")
    /\ UNCHANGED fileVars

\* 404: an empty file stands for a tile that does not exist, if it can be made.
\* outData is left as it is.
MarkMissing(g) ==
    /\ olExcused' = olExcused \cup {Current(g)}
    /\ \/ /\ olFile' = [olFile EXCEPT ![Current(g)] = "empty"]
          /\ UnlockAnd(g, IF g \in olHalf THEN "half" ELSE "nodata")
       \/ UNCHANGED olFile /\ UnlockAnd(g, "failed")

\* Data, good or bad: the file is opened and truncated, if it can be.
OpenFile(g) ==
    /\ UNCHANGED olExcused
    /\ \E data \in {"image", "bad"} :
        \/ /\ olFile' = [olFile EXCEPT ![Current(g)] = "empty"]
           /\ Proceed(g, data)
        \/ UNCHANGED olFile /\ UnlockAnd(g, data)

\* downloadData(): 404, data, or another failure or nothing
\* A faulty variant: a failure leaves the tile in process.
DownloadKeepsTile(g) ==
    /\ olPc[g] = "download"
    /\ \/ MarkMissing(g)
       \/ OpenFile(g)
       \/ UNCHANGED <<olFile, olExcused, olBusy>> /\ GoOn(g, "failed", olPc)
Download(g) ==
    /\ olPc[g] = "download"
    /\ \/ MarkMissing(g)
       \/ OpenFile(g)
       \/ UNCHANGED <<olFile, olExcused>> /\ UnlockAnd(g, "failed")

\* write() and close(): nobody asks how much was written. A file that was removed
\* meanwhile stays removed.
\* A faulty variant: data that is not an image is not written.
WriteGoodOnly(g) ==
    LET t == Current(g)
        data == IF olPc[g] = "image" THEN "image" ELSE "empty"
    IN
    /\ olPc[g] \in {"image", "bad"}
    /\ \E written \in {data, "bad", "empty"} :
          /\ olFile' = [olFile EXCEPT ![t] = IF @ = "none" THEN @ ELSE written]
          /\ olExcused' = IF written = data THEN olExcused ELSE olExcused \cup {t}
    /\ UnlockAnd(g, olPc[g])
WriteFile(g) ==
    LET t == Current(g) IN
    /\ olPc[g] \in {"image", "bad"}
    /\ \E written \in {olPc[g], "bad", "empty"} :
          /\ olFile' = [olFile EXCEPT ![t] = IF @ = "none" THEN @ ELSE written]
          /\ olExcused' = IF written = olPc[g] THEN olExcused ELSE olExcused \cup {t}
    /\ UnlockAnd(g, olPc[g])

\* The file is decoded after the tile is unlocked, and removed if that fails.
ReadFile(g) ==
    /\ olPc[g] = "read"
    /\ IF olFile[Current(g)] = "image"
       THEN GoOn(g, "image", olPc) /\ UNCHANGED olBusy
       ELSE Proceed(g, "discard")
    /\ UNCHANGED fileVars
DiscardFile(g) ==
    /\ olPc[g] = "discard"
    /\ olFile' = [olFile EXCEPT ![Current(g)] = "none"]
    /\ GoOn(g, "failed", olPc)
    /\ UNCHANGED <<olExcused, olBusy>>

\* The process is killed and started again: only the files are left.
Kill ==
    /\ olKills > 0
    /\ olKills' = olKills - 1
    /\ olExcused' = olExcused \cup
           {Current(g) : g \in {h \in Getters : olPc[h] \in {"image", "bad"}}}
    /\ olBusy' = {} /\ olPc' = [g \in Getters |-> "idle"]
    /\ olThen' = [g \in Getters |-> "return"]
    /\ olTiles' = [g \in Getters |-> <<>>] /\ olHalf' = {}
    /\ UNCHANGED <<olFile, olGets>>

-----------------------------------------------------------------------------
GetStep(g) ==
    \/ LockTile(g) \/ UnlockTile(g) \/ LookAtFile(g) \/ Download(g)
    \/ WriteFile(g) \/ ReadFile(g) \/ DiscardFile(g)
OnlineNext ==
    \/ \E g \in Getters : \/ GetStep(g)
                          \/ \E t \in WebTiles : Get(g, <<t>>)
                          \/ \E pair \in TilePairs : Get(g, pair)
    \/ Kill

\* Every thread goes on, and a download ends, with a failure if need be.
OnlineFairness == \A g \in Getters : WF_olVars(GetStep(g))
OnlineSpec == OnlineInit /\ [][OnlineNext]_olVars /\ OnlineFairness

-----------------------------------------------------------------------------
\* The threads that use or write the file of their tile as one in process.
AtWork(g) == olPc[g] \in {"look", "download", "image", "bad", "unlock"}

\* Two threads never download one tile at a time, although a thread that waits is
\* woken whenever any tile is done (lockTile() and unlockTile()).
DownloadsAlone ==
    /\ olBusy = {Current(g) : g \in {h \in Getters : AtWork(h)}}
    /\ \A g, h \in Getters : AtWork(g) /\ AtWork(h) /\ g # h => Current(g) # Current(h)

\* An answer without an image and without an error is given only for a tile that
\* the server does not have, or whose file was left unfinished.
NoDataIsExplained ==
    \A g \in Getters : olPc[g] = "unlock" /\ olThen[g] = "nodata" =>
        Current(g) \in olExcused

\* Once no more requests come, every one has returned, whichever way it took.
OnlineReturns == <>[](\A g \in Getters : olPc[g] = "idle")
=============================================================================
