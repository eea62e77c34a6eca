------------------------------ MODULE MCComponents ------------------------------
(* The components below the renderer, checked side by side: one of them runs    *)
(* in each behaviour, and the others stay as they began. They share no state in *)
(* the code either, so nothing is said of their interleavings.                  *)
EXTENDS WorkerPool, RendererFrame, SharedCache, TileEntries, LocalResources, OnlineTiles

CONSTANTS
    Parts,     \* the components this run checks
    w1, w2     \* tiles of the online source

VARIABLE part

TwoTiles == {<<w1, w2>>}
AllParts == {"pool", "frame", "cache", "tiles", "local", "online"}

MCInit ==
    /\ part \in Parts
    /\ PoolInit /\ (part # "pool" => poolLimit = 0)
    /\ FrameInit /\ CacheInit /\ LocalInit /\ OnlineInit
    /\ TileInit /\ (part # "tiles" => teWorld /\ teStyle = CHOOSE style \in Styles : TRUE)
    /\ KeepsEmpty => teWorld   \* empty tiles that are kept are like others

MCNext ==
    /\ UNCHANGED part
    /\ \/ part = "pool" /\ PoolNext
          /\ UNCHANGED <<frVars, scVars, teVars, lrVars, olVars>>
       \/ part = "frame" /\ FrameNext
          /\ UNCHANGED <<poolVars, scVars, teVars, lrVars, olVars>>
       \/ part = "cache" /\ CacheNext
          /\ UNCHANGED <<poolVars, frVars, teVars, lrVars, olVars>>
       \/ part = "tiles" /\ TileNext
          /\ UNCHANGED <<poolVars, frVars, scVars, lrVars, olVars>>
       \/ part = "local" /\ LocalNext
          /\ UNCHANGED <<poolVars, frVars, scVars, teVars, olVars>>
       \/ part = "online" /\ OnlineNext
          /\ UNCHANGED <<poolVars, frVars, scVars, teVars, lrVars>>

MCVars == <<part, poolVars, frVars, scVars, teVars, lrVars, olVars>>

\* What is fair of a component that does not run is not enabled where it began, so
\* that its fairness asks nothing.
MCSpec ==
    /\ MCInit /\ [][MCNext]_MCVars
    /\ PoolFairness /\ FrameFairness /\ CacheFairness
    /\ TileFairness /\ LocalFairness /\ OnlineFairness
=============================================================================
