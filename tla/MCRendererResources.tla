------------------------- MODULE MCRendererResources -------------------------
(* Instances of RendererResources for TLC. *)
EXTENDS RendererResources, TLC

\* Entries and tasks are interchangeable. So are the tiles, but no instance has
\* two tiles in its zones.
Symmetry == Permutations(Entries) \cup Permutations(Tasks)

\* One change of time, period, detail or configuration. An asynchronous raster
\* provider outdates its tiles by itself, with images of unknown zoom.
Events == [k \in Kinds |-> IF k = "AsyncMapLayer" THEN 0 ELSE 1]
=============================================================================
