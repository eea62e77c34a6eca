SPECIFICATION MCSpec
CONSTANTS
    Parts <- AllParts
    w1 = w1  w2 = w2
    Threads = {t1, t2}  Jobs = {j1, j2, j3}  Tasks = {j1}  NoJob = NoJob
    Limits = {0, 1}  MaxChanges = 2
    StateKinds = {"zoom", "layers"}  Config = "configuration"
    MaxAsks = 2  MaxFails = 1
    Readers = {r1, r2}  Groupers = {g1, g2}
    Blocks = {b1, b2}  Shared = {s1}  MaxRuns = 3
    Queries = {q1, q2}  Entries = {e1, e2, e3}  NoEntry = NoEntry
    Styles = {"key", "empty", "identity", "cached", "coastline"}  MaxAsked = 3
    ResourceIds = {a, b}  Installed = {i1, i2, i3, i4, i5}  NoInstalled = NoInstalled
    Managers = {m1, m2}  NoManager = NoManager  Clients = {c1, c2}
    Overlap = FALSE  MaxCalls = 4
    Getters = {d1, d2}  WebTiles = {w1, w2}  TilePairs <- TwoTiles
    MaxGets = 3  MaxKills = 1
CHECK_DEADLOCK FALSE
INVARIANTS
    PoolTypeOK WorkIsSeen OwnerOutlivesTasks
    FrameTypeOK ChangeIsKept IdleIsDrawn
    CounterIsHolders ListedIsAvailable
    TileTypeOK OneLoader LoadedSaysWhatIsThere OlderOnlyIfLate
    LocalTypeOK CounterTellsReaders ReadFileIsThere
    DownloadsAlone NoDataIsExplained
PROPERTIES
    PoolIsService OwnerGetsAway DrawnAtLast QueriesEnd TileQueriesReturn CallsReturn OnlineReturns
