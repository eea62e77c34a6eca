SPECIFICATION Spec
CONSTANTS
  Tiles = {t1}
  Zones = {{}, {t1}}
  Entries = {e1, e2}
  Tasks = {k1, k2}
  Kinds = {"ElevationData"}
  AtomicRemoval = FALSE
  MaxEvents <- Events
  NoTile = NoTile
  NoEntry = NoEntry
  NoTask = NoTask
  Expired = Expired
SYMMETRY Symmetry
PROPERTIES RemovesSelf
