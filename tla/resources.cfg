SPECIFICATION Spec
CONSTANTS
  Tiles = {t1}
  Zones = {{}, {t1}}
  Entries = {e1}
  Tasks = {k1, k2}
  Kinds = {"MapLayer", "AsyncMapLayer", "Map3DObjects", "ElevationData", "Symbols"}
  AtomicRemoval = FALSE
  MaxEvents <- Events
  NoTile = NoTile
  NoEntry = NoEntry
  NoTask = NoTask
  Expired = Expired
SYMMETRY Symmetry
INVARIANTS TypeOK SetStateOwned StateTellsGPU OneRequest
