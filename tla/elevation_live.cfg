SPECIFICATION FairSpec
CONSTANTS
  Tiles = {t1}
  Zones = {{}, {t1}}
  Entries = {e1}
  Tasks = {k1}
  Kinds = {"ElevationData"}
  AtomicRemoval = FALSE
  MaxEvents <- Events
  NoTile = NoTile
  NoEntry = NoEntry
  NoTask = NoTask
  Expired = Expired
PROPERTIES JunkIsRemoved
