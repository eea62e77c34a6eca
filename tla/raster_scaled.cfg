SPECIFICATION Spec
CONSTANTS
  Tiles = {t1, t2}
  Zones = {{t1}}
  Entries = {e1, e2}
  Tasks = {k1}
  Kinds = {"AsyncMapLayer"}
  AtomicRemoval = TRUE
  MaxEvents <- Events
  NoTile = NoTile
  NoEntry = NoEntry
  NoTask = NoTask
  Expired = Expired
SYMMETRY Symmetry
INVARIANTS StateTellsGPU
