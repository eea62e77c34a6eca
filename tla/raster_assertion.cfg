SPECIFICATION Spec
CONSTANTS
  Tiles = {t1}
  Zones = {{}, {t1}}
  Entries = {e1}
  Tasks = {k1, k2}
  Kinds = {"AsyncMapLayer"}
  AtomicRemoval = TRUE
  MaxEvents <- Events
  NoTile = NoTile
  NoEntry = NoEntry
  NoTask = NoTask
  Expired = Expired
SYMMETRY Symmetry
INVARIANTS EndAssertion
