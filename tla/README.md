# OsmAnd-core: a verification development in TLA+

OsmAnd-core is the native engine behind the OsmAnd maps: it reads OBF map files, keeps
tiles, symbols and other *resources* for the map on screen, draws them, and manages the
files all this comes from. This directory models its concurrent core in TLA+, checks the
models with TLC on small instances and proves theorems about them with TLAPS.

* `*.tla`, `*.cfg` – modules, and the TLC configurations of the runs.
* `PROJECT.json` – the components, the runs, for every property a mutant of the code it
  catches, the source lines behind every definition (`map`), findings, hazards, theorems.

Paths are relative to the repository's root (`src/Map/...`, `include/OsmAndCore/...`).
`MRRM` abbreviates `src/Map/MapRendererResourcesManager.cpp`.

To check a run or a proof: `tlc -config resources.cfg MCRendererResources.tla`,
`tlc -config components.cfg MCComponents.tla`, `tlapm RendererResources_proofs.tla`.

## 1. Inventory

### Threads

| thread | started by | does |
|---|---|---|
| render thread | the application | `update()`, `prepareFrame()`, `renderFrame()`, `releaseRendering()`; without a GPU worker it also uploads |
| GPU worker (optional) | `MapRenderer::postInitializeRendering` | uploads to and unloads from the GPU, runs the GPU dispatcher |
| resources worker | `MapRendererResourcesManager` | cleans junk up and requests what the active zone needs |
| request pool | `Concurrent::WorkerPool` | runs `ResourceRequestTask`s, which call data providers |
| provider threads | providers with natural asynchrony | call back with obtained data |
| animators, application | the application | change the requested state, suspend and resume, add and remove providers |

### Components

**Renderer resources** (`MRRM`, `MapRendererBaseResource`, `MapRendererBaseTiledResource`,
`MapRendererRasterMapLayerResource`, `MapRendererKeyedSymbolsResource`).
*State*: per resource an atomic state with 23 values, its data, its cancel callback, flags
(junk, old, leaveQuietly); per type the collections of resources; the active zone.
*Operations*: request, obtain, end or cancel a request; upload and unload; clean up; mark as
outdated; release everything. *Interaction*: all threads above change the states of the same
resources, by compare-and-swap and without a common lock; only the membership of a
collection is protected by a read-write lock. *Hard*: a ladder of compare-and-swaps sees
different states on different rungs; requests and uploads overlap with cancellation, renewal
and removal; fields are read and written outside the state that protects them.
*Correct when*: the state tells whether the GPU has the data; one request at a time serves a
resource; what waits for data gets it; junk goes away and leaves nothing in the GPU; the code's
own assertions hold.

**Map renderer** (`src/Map/MapRenderer.cpp`). *State*: requested and current state of the
map with a mask of changes, requested configuration, counter of upload requests, flags of
the GPU worker (alive, suspended). *Operations*: set-up, update, prepare and render a frame,
suspend and resume the worker, release. *Interaction*: owns the resources manager and both
dispatchers. *Hard*: threads are woken without a predicate; threads wait for each other with
locks held; release while requests are still answered. *Correct when*: no change of the
requested state is lost; a suspended worker does nothing; release ends, with everything freed.

**Entry collections** (`include/OsmAndCore/TiledEntriesCollection.h`, `KeyedEntriesCollection.h`).
*State*: entries by tile or key, a link from each entry back. *Operations*: obtain or allocate,
remove by key, remove what a filter accepts. *Hard*: an entry removes itself in two steps.

**Worker pool and tasks** (`src/Concurrent/WorkerPool_P.cpp`, `Task.cpp`, `Thread.cpp`).
*State*: queue of runnables, sets of free, active and inactive threads, limit, order.
*Operations*: enqueue, dequeue, wait for completion, reset, change limits. *Hard*: hand-over of
runnables to threads that are woken one by one. *Correct when*: every queued runnable is run
or dequeued, in the order asked for, by no more threads than the limit.

**Task hosts** (`src/Concurrent/TaskHost.cpp`, `HostedTask.cpp`). *State*: owner and hosted
tasks. *Correct when*: the owner outlives its tasks, and its destruction ends.

**Dispatcher** (`src/Concurrent/Dispatcher.cpp`). *State*: queue of delegates, a running
flag. *Operations*: invoke (a)synchronously, run one, all, or until shutdown. *Correct when*:
delegates run once and in order, and who waits for one is woken.

**Access lock counter** (`src/AccessLockCounter_P.cpp`). A counter of readers (positive) or
writers, with waiting and a flag that announces destruction. *Correct when*: readers and
writers exclude each other and nobody waits after the destruction.

**Shared resources containers** (`include/OsmAndCore/SharedResourcesContainer.h`,
`SharedByZoomResourcesContainer.h`). *State*: available resources with reference counts,
promised ones with a count of future references. *Operations*: insert, obtain, obtain a
future, release, promise, fulfil, break. *Correct when*: a resource is there as long as
someone references it, counted exactly, and every future is answered.

**Tile providers with an entry cache** (`src/Map/MapPrimitivesProvider_P.cpp`,
`MapObjectsProvider_P.cpp`, `ObfMapObjectsProvider_P.cpp`, `AmenitySymbolsProvider_P.cpp`).
*State*: a cache of tiles (undefined, loading, loaded), waiters. *Correct when*: a tile is
loaded once, everyone who waits for it gets the same data, nobody waits for a failed load.

**Online raster provider** (`src/Map/OnlineRasterMapLayerProvider_P.cpp`, `src/WebClient_P.cpp`).
*State*: tiles being downloaded, files, an allowed number of downloads. *Hard*: download, file
and cancellation race.

**Weather providers** (`src/Map/WeatherTileResourcesManager_P.cpp`,
`WeatherTileResourceProvider_P.cpp`). Requests by band and date time, evaluated in an own pool.

**Animators** (`src/Map/MapAnimator_P.cpp`, `MapMarkersAnimator_P.cpp`). *State*: animations by
key, groups, paused flag. *Correct when*: a cancelled or finished animation changes nothing more.

**Markers, lines, polygons** (`MapMarker_P.cpp`, `VectorLine_P.cpp`, `Polygon_P.cpp`). Changed
properties are handed to the render thread under a lock, with a flag of unapplied changes.

**Resources manager** (`src/ResourcesManager_P.cpp`, `IncrementalChangesManager_P.cpp`), **OBF
collection and data interface** (`src/ObfsCollection_P.cpp`, `ObfDataInterface.cpp`), **tile
database** (`src/TileSqliteDatabase.cpp`). Files and the sets that describe them: installed and
unmanaged resources, sources that were removed while in use, cached meta data.
*Correct when*: the sets agree with the disk after a failed installation, and a file in use is
not removed.

**OBF readers, road locator, style evaluation, primitiviser, rasterizers, search, favorites,
GPX, archives, utilities.** Sequential computations over large data; see section 8.

**Atlas map renderer and GPU API.** Drawing, and geometry over floating point.

### Which hazards matter most

`PROJECT.json` lists the hazards line by line. They fall into four groups, in the order of the
plan: (1) the races on a resource's state; (2) waking, suspending, stopping and waiting for
threads; (3) the concurrency library (pool, hosts, dispatcher, counters, shared resources);
(4) providers and files.

## 2. Plan

| # | modules | what | state |
|---|---|---|---|
| 1 | `ResourceStates`, `RendererResources` | the life of resources under four kinds of threads, step by step | done |
| 2 | `RendererResources_proofs` | types, untested stores, one request, states and GPU, removals, for every instance | done |
| 3 | `RendererRelease` | wake-up, suspension, stop and release | done |
| 4 | `RendererRelease_proofs` | suspension and the end of the release, for every instance | done |
| 5 | `JobService`, `WorkerPool`, `WorkerPool_proofs` | the pool with its tasks and their hosts, and that it implements what a pool promises | done |
| 6 | `RendererFrame`, `RendererFrame_proofs` | from a setter to the screen: requested, current and internal state, masks, requests for frames | done |
| 7 | `SharedCache`, `SharedCache_proofs` | reference counts and promises, with the queries that use them | done |
| 8 | `TileEntries`, `TileEntries_proofs` | the hand-over of a tile between queries, in five providers | done |
| 9 | `LocalResources`, `LocalResources_proofs` | installed resources against readers of their files, with the lock they carry | done |
| 10 | `OnlineTiles`, `OnlineTiles_proofs` | downloads into a directory that outlives the process | done |
| 11 | `MCComponents` | one run for 5 to 10 | done |
| 12 | `ResourceLifecycle` | abstract specification: what an entry promises (absent, awaited, ready, shown, leaving), as a property of `RendererResources` | open |
| 13 | `Dispatcher`, `Animator`, `ObfsCollection` | queues of delegates and animations; files against sets | open |

Composition: `RendererResources` and `RendererRelease` share `ResourceStates`, the ladders, so
a change of a ladder reaches both. `RendererRelease` takes a ladder of another thread as one
step, which `RendererResources` justifies for everything but the interleavings it reports.
`WorkerPool` composes three classes that call each other: the pool, the tasks it runs and the
host that waits for them. `SharedCache` composes the containers with both kinds of queries,
`TileEntries` the collection of entries with the loops of the providers around it, and
`LocalResources` the list of resources with the lock counters and the data interfaces. The
components 5 to 10 share no state with each other in the code, so `MCComponents` runs one of
them per behaviour and asks nothing of their interleavings; their variables have different
prefixes so that one module can extend all of them.

## 3. Resources: `ResourceStates`, `RendererResources`

### The state and the ladders

A resource's state is changed by `setStateIf(test, new)`, an atomic compare-and-swap
(`TiledEntriesCollection.h`), and nearly every handler is a chain of those joined by `else if`.
`ResourceStates` has the 23 states and each chain as a *ladder*: a sequence of
`<<test, new>>` rungs. In `RendererResources` **each rung is a step of its own**, so the state
may change between two rungs of one ladder. That is where the code's hardest bugs are.

| variable | code |
|---|---|
| `kind` | the collection's `MapRendererResourceType`, and for raster layers whether the provider has natural asynchrony |
| `state` | `_stateValue` of each entry |
| `res` | the entry's tile, GPU data (`gpu`; `stale` when made for an older time), obtained data, junk, `isOld`, `isOldTime` flags, cancel callback |
| `at` | the collection: tile to entry |
| `task` | requests: pool tasks or asynchronous callbacks, each with a program counter |
| `w`, `g`, `r` | program counters and locals of the resources worker, GPU thread, render thread |

| actions | code |
|---|---|
| `WakeWorker` … `CleanupDone` | `updateResources`, `cleanupJunkResources`, `cleanupJunkResource` (MRRM 1939–1974, 2326–3037) |
| `AllocateEntry`, `KeepEntry`, `SubmitRequest`, `EnqueueTasks` | `requestNeededTiledResources`, `requestNeededResource(s)` (1009–1530) |
| `CollectOutdated`, `RequestOutdated` | `requestOutdatedResources` (960–1007) |
| `TakeTask` … `FinishTask` | `ResourceRequestTask`, `Task::run`, begin / end / cancel of a request (1610–1788, 3692–3735), the asynchronous callback (1408–1491), `removeSelfFromCollection` |
| `CollectUnload` … `SyncDone` | `syncResourcesInGPU`: `unloadResources`, `uploadResources` (1976–2260) |
| `RenderEvent` … `RenderDone` | `updateBindingsAndTime` (354–438): a changed time, period, detail or configuration visits every entry |
| `HoldSymbol`, `ReleaseSymbol` | `AtlasMapRendererSymbolsStage::captureGpuResource` |
| `Destroy` | the last `shared_ptr` to an entry goes |

Entries and tasks are identities from finite sets that are reused once the object is gone,
so runs are unbounded in length although the sets are small.

### Simplifications

* One collection; a resource that several tiles share (meta tiles) is one entry.
* The upload limit of one per frame is not modelled here (any order of uploads is), and
  `RendererRelease` has it. A lost context is in `RendererRelease`; here the GPU works, but an
  upload may fail.
* The render thread reads an entry's state and marks it `isOldTime` in one step; the GPU thread
  takes the mark back in the step of the compare-and-swap it belongs to. Its read of the marks
  (`CheckOld`) and that compare-and-swap (`SettleUpload`) are separate steps.
* `std::function` fields are read and written as if atomic: the data race on
  `_cancelRequestCallback` (hazard MRRM:1749) is modelled by which value wins.
* Data have no content: `data` says there are some, `stale` that they are of an older time.
* Animated time (`withTimedImages`) is taken to be on for raster layers.
* Bounds: `MaxEvents` changes announced by the render thread per run.
* `AtomicRemoval` lets `removeSelfFromCollection()` (lock the link, then erase by tile)
  run uninterrupted. The code does not; with `FALSE`, `RemovesSelf` is violated (finding), and
  every property about requests would only show the consequences of that again. The
  liveness run has `FALSE`.

### Properties

* `SetStateOwned` – three handlers store a state without testing it (end of unload,
  submission of a request, return of a borrowed symbol). Nobody else may have moved it.
* `StateTellsGPU` – the states up to the first upload and after the unload mean no data in the
  GPU; the shown states mean there are some.
* `OneRequest` – never two requests between begin and end for one entry.
* `WaitingIsServed` – an entry in a waiting state has a request that will move it.
* `RemovedLeavesNothing` – an entry that left the collection has nothing in the GPU (the
  destructors warn of this leak) and no data.
* `RemovesSelf` (action property) – a request's removal removes its own entry only.
* `EndAssertion`, `CallbackPresent` – assertions of the code (MRRM 1688, 2960).
* `TimeCaughtUp` – after a visit of the render thread nothing is shown for an older time.
* `JunkIsRemoved` (liveness) – junk leaves the collection.

### Runs

| run | instance | shows |
|---|---|---|
| `resources` | 1 tile, 1 entry, 2 tasks, all 5 types, 1 event | `TypeOK`, `SetStateOwned`, `StateTellsGPU`, `OneRequest` hold |
| `elevation` | 1 tile, 2 entries, 2 tasks, type without updates | `EndAssertion`, `CallbackPresent`, `WaitingIsServed`, `RemovedLeavesNothing`, `RemovesSelf` hold |
| `raster_scaled` | 2 tiles, 2 entries, asynchronous raster | the tile found in the cache at another zoom becomes an entry in the middle of a request: `StateTellsGPU` holds |
| `elevation_live` | 1 tile, 1 entry, 1 task, fair | `JunkIsRemoved` holds |
| `raster_assertion` | asynchronous raster | **`EndAssertion` is violated** |
| `raster_callback` | asynchronous raster | **`CallbackPresent` is violated** |
| `raster_time` | raster, 1 change of time | **`TimeCaughtUp` is violated** |
| `removal_by_key` | preemptible removal | **`RemovesSelf` is violated** |

Why these bounds: threads share entries pairwise, and every property speaks of one entry or of
two that had the same tile one after the other. Two tasks are needed for an entry's next
request while the last still ends, two entries for the one allocated while the old one is
being removed, two tiles for the scaled one. A second event of the render thread finds the entries as
a first one can. `elevation` has a type without updates since the requests of updatable types
break the two assertions (the findings).

### Fairness

`FairSpec` gives strong fairness to the worker, the GPU thread, the tasks and the render
thread's visit. Frames keep coming, and each ends with `updateActiveZone()`
(`AtlasMapRenderer.cpp:60`), which wakes the worker; each `doUpdate()` synchronises with the
GPU when there is no worker for it. Strong rather than weak, since a thread that waits
for a `QReadWriteLock` finds it free again and again and is served. The pool and the providers
answer each request, which the code expects of them. No fairness for what the application does.

## 4. Release: `RendererRelease`

`releaseRendering()` against everything that may still run: the GPU worker and the resources
worker with their flags, sleeps and wake-ups, requests of the pool or of an asynchronous
provider, and an application that suspends and resumes the GPU worker.

| variable | code |
|---|---|
| `mode` | `gpuWorkerThreadEnabled`, natural asynchrony of the provider, whether the application suspends |
| `state`, `ent`, `req` | entries (`leaveQuietly`, data in the GPU, membership) and the requests serving them |
| `rel` | the thread that renders: frame, GPU pass, `releaseRendering`, `releaseAllResources`, `blockingReleaseResourcesFrom` with its flags `containedUnprocessableResources` (`contained`), `needsResourcesUploadOrUnload` (`needs`), `gpuContextLost` (`lost`) |
| `gw`, `sync` | `gpuWorkerThreadProcedure` / `processGpuWorker`; the pass of `syncResourcesInGPU` under way |
| `wk` | `workerThreadProcedure` |
| `flag` | `_gpuWorkerThreadIsAlive`, `_workerThreadIsAlive`, `_gpuWorkerIsSuspended`, `_resourcesGpuSyncRequestsCounter` |

The release climbs its ladder (MRRM 3107–3276) rung by rung, as in section 3; the ladders of
other threads are one step here, since their interleavings are section 3's subject. A wait
without a predicate is a test of the flag, a step to sleep, and a wake-up that only a sleeping
thread notices: a wake-up that comes early is lost, as in the code.

Simplifications: the update of the resources worker only asks for GPU passes (its effects on
entries are in section 3, and the release joins it first); the delegates posted to the GPU
dispatcher are not modelled, the waits for them (250 ms, 2 s) end at any time; requests of the
GPU counter that a pass does not answer are not told apart beyond `MaxRequests`; the GPU worker
is taken to have started (`hasGpuWorkerThread()` tests its thread id); the destruction of the
manager follows `released` and is not modelled.

Properties: `SuspendedIsIdle` (`suspendGpuWorker()` returns when no pass is under way, and
none begins while it is in force), `ReleasedClean` (a release with a working context leaves
empty collections, which stay empty, and nothing was removed with data in the GPU; the final
`assert(getResourcesCount() == 0)`), `ReleaseAwaitsRequests` (no request still obtains data
afterwards), `ReleaseFrees` (without a GPU worker, or with a lost context, the release of the
resources ends), `ReleaseUnloads` (with a GPU worker, what the release waits for is unloaded).

| run | instance | shows |
|---|---|---|
| `release` | an entry in any of 10 resting states, one that a scaled tile may allocate; 4 set-ups; lost context or not | all but the last hold |
| `release_deadlock` | 1 uploaded entry, GPU worker | **`ReleaseUnloads` is violated** |

Why these bounds: the release treats entries one by one and the flags it collects are
disjunctions over them, so a pass over one entry and one that appears later has every outcome
but an order of entries. Suspension is checked with the plain GPU worker. The entry starts in
each state it can be at rest in, since how it got there is section 3.

Fairness (`FairSpec`): weak for the GPU worker, the resources worker and the releasing thread,
which are ordinary threads; strong for a request that waits for a collection's lock.
Nothing says that frames go on or that rendering is ever released: `ReleaseFrees` starts after
the workers have stopped, because a lost wake-up can keep `stopWorkerThread()` waiting
(hazard MRRM:119), which is modelled and not claimed away. `CHECK_DEADLOCK FALSE`: after the
release the system stops.

Not claimed: a callback that read `leaveQuietly` before the release set it uses the renderer
afterwards, perhaps after the manager's destruction (MRRM:1752); with a lost context, a scaled
tile may be added after the release, which does not wait for requests in that case.

## 5. The components beside the renderer

Six modules, one run (`components`, 420,444 distinct states). Every action is one critical
section of the code, or one access to a field that no lock protects.

### The pool, tasks and hosts: `JobService`, `WorkerPool`

`JobService` is the abstract specification: a job is handed in once, waits, and then either is
withdrawn by its users or runs on one runner, once, to its end; only a job that ran has ended. `WorkerPool` is `WorkerPool_P.cpp`, `Task.cpp`,
`HostedTask.cpp` and `TaskHost.cpp`.

| variable | code |
|---|---|
| `poolQueue`, `poolFree`, `poolLow` | `_queue`, `_freeThreads`, `_inactiveThreads` |
| `poolThread` | per worker: its place in `run()` and the runnable it holds |
| `poolLimit`, `poolRelaunch` | `_maxThreadCount`, stored before the mutex is taken; `setMaxThreadCount()` on its way to it |
| `poolReset`, `poolHung` | progress of `reset()`; a mutex that is never released again, by an endless loop or undefined behaviour |
| `taskAt`, `taskCancel` | step of each runnable's life; cancellation requested |
| `taskHosted`, `owner` | `_hostedTasks`; destructor of the owner |
| `poolWithdrawn` | auxiliary: the runnables that `dequeue()`, `dequeueAll()` or `reset()` took out of the queue |

`WorkIsSeen` – a queued runnable is never left to threads that all sleep, although each wake-up
goes to the head of a list and may be lost. `OwnerOutlivesTasks` – no task executes once the
destructor of its owner was let through. `OwnerGetsAway` (liveness) – that destructor ends.
`PoolIsService` – the pool implements `JobService`. The mapping computes a job's status from three
things that have to agree: its own step (`taskAt`), whether it is queued, and who holds it. It is
`"waiting"` if it is queued, `"running"` if one thread holds it, `"withdrawn"` if one of the three
operations above took it out, and `"ended"` only if `run()` came to its end and the runnable was
deleted. Anything else is `"lost"`: a job with two holders, one that is queued and held, and one
that a thread took from the queue and dropped unrun. `JobService` has no such status, so a step
there refutes it (the mutant `LookDrops` is such a thread). Of a runnable that throws nothing is
said: the catch in `WorkerThread::run()` (`WorkerPool_P.cpp:304–308`) is not modelled.

The order of the queue is left open: `Order::Random`, and a sort predicate may choose any.
`enqueue()` pushes at the front, and `FIFO` takes the first, so FIFO and LIFO are in effect
exchanged (`WorkerPool_P.cpp:65`); no document says which is which.

### From a setter to the screen: `RendererFrame`

A setting is the number of its last change. `frAsked`, `frCurrent`, `frInternal`, `frHandled`,
`frDrawn` are the images of the settings in `_requestedState` / `_requestedConfiguration`,
`_currentState` / `_currentConfiguration`, the internal state, the resources bound or applied,
and the screen; `frMask`, `frCount` the two masks and `_frameInvalidatesCounter`. A setter
writes, marks and asks for a frame in three steps with its lock held. The render thread's steps
are `prePrepareFrame()` … `postRenderFrame()`; `frZone`, `frWorker`, `frSeen` are the resources
worker that is told the active zone. The render thread also writes to the requested state itself
when it adjusts the target (`adjustTarget`, `MapRenderer.cpp:594–604`); that setter on its own thread is
left out, so nothing is said of the changes it makes.

`ChangeIsKept` – the mask is taken before the state is copied, under other protection: no change
is lost between the two. `IdleIsDrawn` – what `isIdle()` promises. `DrawnAtLast` (liveness) –
a host that renders only the frames it is asked for ends up showing the last settings, whatever
failed. `FrameTypeOK` includes that no frame takes back more requests than were counted.

### Shared caches: `SharedCache`

`SharedResourcesContainer.h` and `SharedByZoomResourcesContainer.h` with their callers: readers
of OBF sections (`ObfMapSectionReader_P.cpp`, `ObfRoutingSectionReader_P.cpp`; the cache of
`CachingRoadLocator_P.cpp` keeps blocks like their results) and queries of
`MapPrimitiviser_P.cpp`. `scEntry`, `scRefs` are the entries with `refCounter`; `scHeld` the
references a query or its result lists, `scFuture` the futures it holds, `scLost` a history
variable for references that nobody will release: an aborted reader drops its list without
releasing it, a query of the primitiviser that gives up waiting leaves its count.

`CounterIsHolders` – the counter of an entry is exactly what is held of it or was lost.
`ListedIsAvailable` – what is listed is available with a counter above zero, and a promise has
one maker (the assertions of the container). `QueriesEnd` (liveness) – queries that wait for
promises of one another all come to an end.

In the code as it is built, the providers hand the primitiviser no cache and sharing of map
objects is off by default; the model is of what the containers and their callers do when used.

### Tiles shared by queries: `TileEntries`

`TiledEntriesCollection` with the loops around it in five providers, told apart by `teStyle`:
what the filter of `removeEntry()` is, whether the data is kept weakly, and who is woken.
`AmenitySymbolsProvider_P` counts twice: `"identity"` is the provider with `cacheSize = 0`, and
`"cached"` the one with `cacheSize > 0`, where queries are answered from `owner->cache` and the
entry holds no data. One tile with all the entries that exist for it: `teCurrent` is the
collection, `teState`, `tePresent`, `teHeld` the entries (state, flag, consumers that keep the
data alive), `teKept` the data that a cache of the provider keeps (amenities, or `_dataCache` of
height data), `tePc`, `teEntry`, `teResult` the queries, `teClearer`
`AmenitySymbolsProvider_P::invalidateTiles()`: clear the cache, list, cancel, wake, remove.
Data is known by the entry it was loaded for, so that `teEntry` of a query that was answered from
the cache says which load its amenities came from. `teStale`, `teOld`, `teLate` are history
variables: loads and queries that began before the last invalidation ended, and loads that an
invalidation overtook, whose amenities came into the cache after it had been cleared.

What happens when data is let go of differs: a tile of primitives or of symbols removes its entry
when its last holder drops it; a tile of map objects removes the entry of the coastline it was
made with, whoever else holds that; height data, and amenities made from the cache, remove
nothing. A cache may evict at any time.

`OneLoader` – an entry is loaded by one, and who waits, waits for someone at work.
`LoadedSaysWhatIsThere` – flag, reference and state are stored one after the other without a
lock. `OlderOnlyIfLate` – a query that began after an invalidation is given something loaded
before it only out of the cache, and only if the load put it there after `invalidateTiles()` had
cleared it; without a cache this means nothing older at all (`NothingOlder`, see below).
`TileQueriesReturn` (liveness) – no query waits for ever; violated in one provider (finding 6).

### Installed resources: `LocalResources`

`ResourcesManager_P.cpp` (install, update, uninstall), the read-write lock of its list, the lock
each `InstalledResource` carries (`AccessLockCounter_P.cpp`) and the interfaces that read the
files. `lrListed` the list, `lrFile` which object's file is on the disk, `lrLock` the counters,
`lrHolder` who holds the list's lock, `lrCall` the managers, `lrKnown`, `lrRead` the readers.

`CounterTellsReaders` – the sign and value of the counter are what its assertions say.
`ReadFileIsThere` – while an interface holds a resource its file is neither removed nor replaced.
`CallsReturn` (liveness) – a call that waits for readers with the list locked returns.
`Overlap = FALSE`: two calls never work on one resource at once. Nothing in the class prevents
it, it is left to the application; with `TRUE`, `ReadFileIsThere` fails, as one thread uninstalls
an object that another one has just replaced (`ResourcesManager_P.cpp:1614`).

### Online tiles: `OnlineTiles`

`OnlineRasterMapLayerProvider_P::obtainData()` by several threads over a directory of files, with
failing writes and a process that is killed at any point. `olFile` the files (what decoding would
give), `olBusy` `_tilesInProcess`, `olPc`, `olThen`, `olTiles`, `olHalf` the threads, with a pair of
tiles when the projection is elliptic; `olExcused` is a history variable.

`DownloadsAlone` – one condition wakes all who wait for any tile, and yet no two work on one.
`NoDataIsExplained` – "no data, no error" is answered only for a tile the server does not have or
whose file was left unfinished. The second half of that sentence is what the code does and surely
not what it wants: an empty file stands for "does not exist", and a kill between the opening and
the writing leaves one (lines 97–98 against 212–217). `OnlineReturns` – every request returns.

### Instance and bounds

| part | instance | why enough |
|---|---|---|
| pool | 2 threads, 3 jobs (1 hosted task), limits 0 and 1, 2 changes of limits or resets | two threads have every order in both lists; a wake-up is lost with one of them awake; a third job is queued while two run; raising, lowering and reset in any order |
| frame | 2 kinds of state and the configuration, 2 changes, 1 failure | each image is compared with the one before, per kind; two changes make a later one meet an earlier one at every step |
| cache | 2 readers, 2 groupers, 2 blocks, 1 group, 3 queries | two for a promise and its waiter, a third for who comes after the entry was dropped |
| tiles | 2 queries, 3 entries, 3 requests or invalidations, 4 providers, one with and without a cache | each query and the clearer, and the cache, may refer to an entry of its own: a free identity is never lacking; three requests make one load, one invalidation in the middle of it, and one later query. Providers that keep empty tiles start with data only: they do not tell the difference |
| local | 2 resources, 5 objects, 2 managers, 2 clients, 4 calls | writer against writer, two readers of one resource, objects replaced twice |
| online | 2 threads, 2 tiles and the pair of them, 3 tiles asked, 1 kill | two threads wait for either tile, with the first of a pair done |

When the bounded requests are used up the system rests, hence `CHECK_DEADLOCK FALSE`; that nobody
is stuck before is what the liveness properties say.

### Fairness

Weak fairness for each thread that has been given something to do, which is what the scheduler
of an operating system gives; an answer of the network or a load ends, perhaps with a failure. No
fairness for what applications and consumers do, except where it is said: a host renders a frame
it asked for, who makes a task enqueues it, a data interface is let go of in the end. The
liveness properties have the form "from some point on" (`<>[]`): the number of requests is
bounded by the instance, and every one has ended after the last. Parts that do not run in a
behaviour have no fair action enabled in their initial state.

### Runs

| run | shows |
|---|---|
| `components` | the 24 properties above hold in the part they are about |
| `tile_sleeper` | **`TileQueriesReturn` is violated** for `MapObjectsProvider_P` |

### Stated, not run

These statements stand in the modules; the code violates them, and no document, comment or
test of the repository promises them, so that no run holds the code to them:

* `NothingOlder` (`TileEntries`) – a query that began after an invalidation is given nothing loaded
  before it. It holds of every provider but `AmenitySymbolsProvider_P` with `cacheSize > 0`, as
  `NothingOlderUncached` proves. There a query is loading when `invalidateTiles()` clears the cache
  (`AmenitySymbolsProvider_P.cpp:187`), cancels the load and removes the entry; the load goes on
  and puts its amenities in the cache (`:630–631`), and the next query is answered from it before
  it looks at any entry (`:342–351`).
* `NoDataMeansNone` (`TileEntries`) – a query that waited for a load which was cancelled answers
  "no data" (`MapPrimitivesProvider_P.cpp:141–145`).
* `ZoneReachesWorker` (`RendererFrame`) – the resources worker may sleep through the last zone
  (`MRRM:940`).
* `UnheldIsDropped` (`SharedCache`) – an entry whose references were lost is kept for good
  (`ObfMapObjectsProvider_P.cpp:649–664`, `706–709`).
* `ListedIsReadable` (`LocalResources`) – after a failed update the resource is listed, and locked
  for writing for good (`ResourcesManager_P.cpp:2302–2384`).

Modelled as the code does it, and excepted by name in the properties: `setMaxThreadCount()` with a
lower limit and a queue spins with the mutex held (`WorkerPool_P.cpp:180`, `poolHung = "spin"`);
`reset()` takes the head of an empty list when only inactive threads are left (`:118`,
`poolHung = "crash"`).

## 6. Findings

1. **`EndAssertion`** (MRRM:1688). The end of a request tries `ProcessingRequest`,
   `ProcessingUpdate`, `ProcessingUpdateWhileRenewing` in turn. The GPU thread, finishing the
   upload of the previous data, turns the last into the second in between, and no rung hits.
   Without assertions the entry stays in `ProcessingUpdate` for good.
2. **`CallbackPresent`** (MRRM:1749). The callback is cleared after the final state was
   published; the entry can have been uploaded, outdated and requested anew by then.
3. **`TimeCaughtUp`** (MRRM:2214). The flag is read before the compare-and-swap that
   publishes the upload. A change of time in between is noticed by neither thread.
4. **`RemovesSelf`** (`MapRendererBaseTiledResource.cpp:60`). Removal by tile id may hit the
   entry allocated for the tile since.
5. **`ReleaseUnloads`** (MRRM:3401). The release waits with the storages lock held for
   writing; the GPU worker needs it for reading to collect what to unload. Only
   applications that enable the GPU worker are concerned (it is off by default).
6. **`TileQueriesReturn`** (`MapObjectsProvider_P.cpp:245`). A tile that was loaded with data is
   stored and nobody is woken; who waits for it looks at its state only when woken.

## 7. Proofs

Each inductive invariant, or each part of one, was checked by TLC on the instances of the runs
before it was proved. The proof modules and their theorems:

| module | proved of every instance |
|---|---|
| `RendererResources_proofs` | `TypeOK`, `SetStateOwned`, `OneRequest`, `StateTellsGPU`; `RemovesSelf` if removals are not preempted; `EndAssertion`, `CallbackPresent`, `WaitingIsServed`, `RemovedLeavesNothing` if besides nothing is updated |
| `RendererRelease_proofs` | `TypeOK`, `SuspendedIsIdle`, `ReleasedClean`, `ReleaseAwaitsRequests` |
| `WorkerPool_proofs` | `PoolIsService`, `OwnerOutlivesTasks`, `PoolTypeOK`, `WorkIsSeen` |
| `RendererFrame_proofs` | `FrameTypeOK`, `ChangeIsKept`, `IdleIsDrawn` |
| `SharedCache_proofs` | `CounterIsHolders`, `ListedIsAvailable` |
| `TileEntries_proofs` | `TileTypeOK`, `OneLoader`, `LoadedSaysWhatIsThere`, `OlderOnlyIfLate`; `NothingOlder` without a cache of amenities |
| `LocalResources_proofs` | `LocalTypeOK`, `CounterTellsReaders`; `ReadFileIsThere` if no two managers work on one resource |
| `OnlineTiles_proofs` | `DownloadsAlone`, `NoDataIsExplained` |

### The life of an entry: `RendererResources_proofs`

About `RendererResources`, for **every** set of tiles, zones, entries and tasks, every resource
type and any bound on events, from the named assumptions on the constants (no name of
"nothing" is an element, a missing callback is not an expired one, zones are sets of tiles,
bounds are natural). The module has five parts, each with its own conjuncts of the invariant,
which rest on those of the parts before.

**1. The untested stores.** `Invariance` (`[]IInv`), `TypeCorrect` (`[]TypeOK`),
`OwnersUndisturbed` (`[]SetStateOwned`).

`SetStateOwned` is not inductive. It says that an entry being unloaded is in `Unloading`; a step
of another thread could break it in two ways. It might swap the state: excluded because *no rung
of any ladder leads into or out of* `Requesting`, `Updating`, `Unloading`, `IsBeingUsed` (the
lemmas `…Rungs`, applied in `SwapKeeps`), which requires the rung index of each climbing thread
to be in its ladder's range. Or the entry might be destroyed and its identity reused:
excluded because whatever a thread or task refers to is alive. `IInv` has these conjuncts, one
group per thread. Frame lemmas (`WorkerFrame`, `GpuFrame`, …) say what a step of one thread
leaves of another's group; one lemma per action follows, and one per thread puts them together.

The other parts see the threads through *arrows*: `WorkerArrows`, `GpuArrows`, `RenderArrows`,
`SubmitArrows` and `TaskArrows` are the pairs of states that all handlers of a thread together
may lead an entry along, and the `…Effect` lemmas say that each action follows its thread's
arrows and what fields it leaves alone. A fact about states needs then one look at each set of
arrows, and none at the handlers.

**2. One request** (`RequestsInvariance`, `OneRequestAtATime`: `[]OneRequest`, for every kind).
`RequestsApart` says: while a task serves its entry, or is about to process its cancellation, the
entry is being processed or on its way out (`Answerable`, `Doomed`); meanwhile no other task of
that entry serves it, and another one cancels only if the entry is on its way out. It is
inductive because no other thread leads an entry out of these sets (`ArrowsSteady`), and the
worker makes a request only for an entry it has claimed (`Requesting`, `Updating`), which is in
neither: so nobody can be serving it.

**3. The GPU** (`GpuInvariance`, `StateIsTrueOfGPU`: `[]StateTellsGPU`, for every kind). `GpuTold`
adds to the property what makes it inductive: the states of an update and of a renewal keep the
data of before (`InGPU`), an entry that is ready has data, and the GPU thread in the middle of a
transfer is at an entry whose state says so. Whether an entry that is ready has data depends
on the request that made it so: `DataStored` says that a first request that ends with data has
put them into its entry, and needs part 2, as another request could have dropped them.

**4. Removal** (`RemovalIsOwn`: `RemovesSelf`, for every kind). Under `AtomicRemoval`; without it
the run `removal_by_key` shows the violation. Nobody is then between the lock of a link and
the removal by tile (`NoneErases`); and if the worker takes an entry out in the step that tells a
task to cancel, part 2 says that this is the task's own entry.

**5. Collections that are never updated** (`ServedInvariance`; `CancelledAtTheEnd`:
`[]EndAssertion`; `CallbackThere`: `[]CallbackPresent`; `WaitingHasItsRequest`:
`[]WaitingIsServed`; `NothingIsLeft`: `[]RemovedLeavesNothing`). Under `NeverUpdated`: the kinds are
among elevation data and symbols, which are requested once, and `AtomicRemoval`. The hypothesis
is needed: for raster layers and 3D objects, which are requested again, the runs
`raster_assertion` and `raster_callback` violate the first two (findings 1 and 2), and
`elevation.cfg` with `Kinds` set to one of those kinds violates each of the four. `NotUpdated` says that no state of an update (`OldStates`) is ever entered: neither kind is
outdated by the render thread or recollected by the worker, and no provider with natural
asynchrony marks an image old. `Served` then ties each entry to the one task that names it:
`Tells` is what a task's place in its handlers says of the state, `Attends` which state it will
move the entry on from, and `Cancelled` that the entry the worker cancels still has its callback.
`RemovedLeavesNothing` follows by itself from all the conjuncts: `Tells` gives the states in which a
task removes its entry, and `GpuTold` that the GPU has nothing of these.

### Suspension and release: `RendererRelease_proofs`

About `RendererRelease`, for every set of entries and set-ups and every bound on the counted
requests (`ModesAssumption`, `StatesAssumption`, `BoundsAssumption`):

* `TypeCorrect`: `Spec => []TypeOK`. The part worth a proof is the counter: the GPU worker
  subtracts what it took before the pass, so `IInv` has `taken <= requests` (nobody else
  subtracts), `requests <= MaxRequests + taken`, and `taken = 0` outside a pass.
* `SuspendedStaysIdle`: `Spec => []SuspendedIsIdle`. `IInv` says it for both who may be in a
  pass, the GPU worker and a frame of the render thread; the worker looks at the flag with the
  mutex held, and `Suspend` waits for that mutex.

**The end of the release.** From the same assumptions, of which `StatesAssumption` matters here: an entry is first seen in
a state it rests in (`Resting`: nothing is half-way through a request, an upload or an unload).

* `ReleaseEndsClean`: `Spec => []ReleasedClean`;
* `RequestsAwaited`: `Spec => []ReleaseAwaitsRequests`.

Both follow from `SInv`, which is about releases with a working context:

* `EntriesSound` – the state of an entry *tells* enough: the states before the first upload and
  after the unload mean no data in the GPU; only four states (`Leaving`) may be those of an
  entry out of its collection; a request that computes data has its entry in a processing
  state and in the collection; a request about to remove an entry has left it in a state
  without data.
* `SyncSound` – while the GPU thread unloads an entry nobody moves it, and while it uploads one
  nobody puts it into a state without data. (The ladders of requests and of the release do not
  lead there; `…Pairs` say where each ladder leads.)
* `PassSound` – during a pass that has left nothing behind so far, all that is in the
  collections is still to be looked at; so when it ends that way they are empty. They stay
  empty, because the one action that adds an entry, the scaled tile, belongs to a request
  whose own entry is in the collection.

The step lemmas use `IInv` as well; one lemma per action, with two shared ones for what any
step of a request (`RequestSound`) or of the GPU thread (`SyncStepSoundIf`) has to leave alone,
and one for an entry the release has settled (`SettledSound`).

### The pool implements its service: `WorkerPool_proofs`

For any threads, jobs, tasks and limits (`PoolLimitsAssumption`, `PoolNamesAssumption`):

* `PoolRefines`: `PoolSpec => PoolIsService`, the refinement;
* `OwnerIsSafe`: `PoolSpec => []OwnerOutlivesTasks`;
* `PoolTypesAreOK`: `PoolSpec => []PoolTypeOK`, which says how often a thread is in either list;
* `QueuedWorkIsSeen`: `PoolSpec => []WorkIsSeen`.

`PoolInv` says that a thread holds a job exactly while it runs it, that two threads never hold
one, that a held job has left the queue, that the queue holds exactly the jobs whose step is
`"queued"`, and what is true of a job that left it: it was withdrawn, or is held, or ran to its end. `StatusIs` turns the counting in the refinement mapping into "some thread runs it", and
each action is then one step of `JobService` or none (`StatusStep`). For the owner, `PoolInv`
says that a task that is not hosted was born cancelled.

`ThreadsInv` is for the last two. `Lists` says which list a thread at each place of `run()` is in,
and that neither list repeats one; lemmas on sequences (`AppendSingle`, `WithoutSingle`) say what
appending and removing make of such a list. For `WorkIsSeen`: an attempt to launch ends with a
thread awake (`LaunchWakes`), for either one was woken or made, or the limit is reached and so
one runs; and a thread that lies down leaves the queue empty or another one running (`LookSees`).

### No setting is lost: `RendererFrame_proofs`

For any kinds of settings and bounds: `FrameTypes`, `ChangesAreKept`, `IdleShowsSettings`. None is
inductive. `FrameInv` follows a change from image to image: the copy, what was applied and the
internal state are each up to date *or* the difference is marked, being marked by a setter that
holds its lock, or in the hands of the render thread at one of the steps named there.
`DrawnHeld` adds that whatever is not on the screen is owed a frame.

### Counters are exact: `SharedCache_proofs`

For any finite sets of queries and any keys: `CacheTypes`, `CountersAreHolders`, `ListedStays`.
The counter is a sum of two cardinalities, of the queries that hold a key and of those whose
futures count, and a number of lost references. Each lemma says how these sets change by the
one query that acts, then counts (`SizeMore`, `SizeLess`). What makes it inductive: a key is to
do, being read, listed or awaited by a query, one of these at a time (`Apart`), so that nobody
counts twice; futures and lists agree with the entry (`Entries`); and an entry that was
dropped, or may still be broken, has lost nothing (`LostStay`), since breaking a promise resets
the counter.

### One loader: `TileEntries_proofs`

For any queries and entries and all five providers, with or without a cache: `TileTypes`,
`LoadedByOne`, `LoadedIsRight`, `OlderComesLate`, and `NothingOlderUncached`, which is
`NothingOlder` of every style but `"cached"`. `TileInv` has three parts: only an undefined entry is
claimed, and one with a loader cannot become undefined, because an entry is allocated anew only
when nobody refers to it (`Loaders`); the flag is clear until the loader stores what it found
(`Flags`); what is in the collection was loaded after the last invalidation, and what is in the
cache as well, or it came late; while an invalidation is under way whatever is in the cache came
late, since the cache was cleared first (`Ages`).

### One thread per file: `OnlineTiles_proofs`

For any threads, tiles, pairs and numbers of requests and kills: `OneThreadPerTile`,
`NoDataHasReason`. `OnlineInv` adds that an empty file is excused or being written.

### Files that are read: `LocalResources_proofs`

For any resources (at least one), installed objects, managers and bounds and any finite set of
clients (the counter is compared with the number of those who read):

* `LocalTypes`: `LocalSpec => []LocalTypeOK`;
* `CounterIsTrue`: `LocalSpec => []CounterTellsReaders`;
* `ReadFileStays`: `~Overlap => (LocalSpec => []ReadFileIsThere)`.

The first two need little more than themselves (`LockInv`): who holds the list's lock, that a call
which locks has an object, and that who has no interface reads nothing. They hold also if two
managers work on one resource. The third does not, as section 5 says, hence `~Overlap`. A call
takes the object from the list before it locks it, and a client may have learnt of it
before, so that "what is read has its file" has to speak of whoever may still come to read:
`ReadableHasFile` (an object in use that is not locked for writing has its file). To keep it when
a call replaces a file, `FileInv` says where the object of that file is: listed, locked for
writing, or in the hands of the call that has taken it from the list (`Accounted`), and that a
call that touches the file has locked the object it removes (`CallOK`).

### Only model-checked

* Everything temporal: `JunkIsRemoved`, `ReleaseFrees`, `ReleaseUnloads`, `OwnerGetsAway`,
  `DrawnAtLast`, `QueriesEnd`, `TileQueriesReturn`, `CallsReturn`, `OnlineReturns` (liveness
  under fairness is beyond the prover).

## 8. Not modelled

* *Open*: see section 2 and the notes in `PROJECT.json`.
* *Dispatcher*: a queue under one mutex; where the release waits for it, the wait is modelled.
* *Weather providers, GeoTIFF collection, tile database*: GDAL and SQLite do the work; their
  own state is a queue or a cache under one lock.
* *Animators, markers, lines, polygons*: floating-point interpolation, and properties handed over
  under one lock per object.
* *Left out*: OBF and protobuf decoding, style evaluation, primitive and symbol
  rasterisation, projection and camera geometry, routing computations, search, GPX and XML,
  archives, logging. They are sequential computations over large or real-valued data, which
  bounded checking would only sample.
* *Generated, vendored, wrappers, tools*: `protos/`, `externals/`, `wrappers/`, `tools/`. Of the
  lines of the repository these and the sequential computations are by far the most, which is
  why the share of lines a definition stands for is small.
* Of the resources manager of the renderer: binding providers to collections, published
  snapshots, meta tiles, the selection of tiles around the target, CPU load measurement and the
  thread limit.
* Of the containers: insertion and promises without a caller. Of `AccessLockCounter`: its
  destructor, and the calls nobody makes. Of `ResourcesManager`: scanning directories, the
  repository, unmanaged and built-in resources, incremental changes.
