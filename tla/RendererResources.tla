--------------------------- MODULE RendererResources ---------------------------
(* One resources collection of MapRendererResourcesManager, at the granularity *)
(* of the single atomic operations on a resource's state.                      *)
(*                                                                             *)
(* Four kinds of threads work on the same entries without a common lock:       *)
(*   - the resources worker (w): cleans junk up, then requests needed tiles;   *)
(*   - request tasks (task[k]): pool threads that obtain an entry's data, or   *)
(*     (Async) the callbacks of a provider with natural asynchrony;            *)
(*   - the GPU thread (g): unloads what is to go, uploads what is ready;       *)
(*   - the render thread (r): reacts to a changed time, period or detail.      *)
(* Only the membership of the collection is protected by a lock.               *)
EXTENDS ResourceStates, FiniteSets

CONSTANTS
    Tiles,          \* tile ids of the collection
    Zones,          \* the active zones the map may show: sets of tiles
    Entries,        \* identities of resource objects, recycled once destroyed
    Tasks,          \* identities of request tasks, recycled once finished
    Kinds,          \* resource types the collection may have
    AtomicRemoval,  \* removeSelfFromCollection() is never preempted half-way
    MaxEvents,      \* by kind, bound on the changes announced by the render thread
    NoTile, NoEntry, NoTask,
    Expired         \* a cancel callback whose task is gone

ASSUME KindsAssumption ==
    Kinds \subseteq {"MapLayer", "AsyncMapLayer", "Map3DObjects", "ElevationData", "Symbols"}
ASSUME BoundsAssumption == AtomicRemoval \in BOOLEAN /\ MaxEvents \in [Kinds -> Nat]
ASSUME ZonesAssumption == Zones \subseteq SUBSET Tiles
ASSUME NamesAssumption ==
    /\ NoTile \notin Tiles /\ NoEntry \notin Entries
    /\ {NoTask, Expired} \cap Tasks = {} /\ NoTask # Expired

VARIABLES
    kind,   \* the type of this collection, which never changes
    state,  \* [Entries -> ResourceState], the atomic _stateValue
    res,    \* the other fields of each entry
    at,     \* the collection: which entry a tile has
    task,   \* request tasks
    w, g, r \* the resources worker, the GPU thread, the render thread

vars == <<kind, state, res, at, task, w, g, r>>

\* A raster layer's provider may have natural asynchrony ("AsyncMapLayer"). Only
\* raster layers and 3D objects are renewed by requestOutdatedResources().
Async == kind = "AsyncMapLayer"
IsLayer == kind \in {"MapLayer", "AsyncMapLayer"}
Updatable == IsLayer \/ kind = "Map3DObjects"

Blank == [tile |-> NoTile, gpu |-> FALSE, stale |-> FALSE, data |-> FALSE, junk |-> FALSE,
          old |-> FALSE, oldTime |-> FALSE, cb |-> NoTask]
NoWork == [pc |-> "none", e |-> NoEntry, i |-> 1, ok |-> FALSE, got |-> FALSE,
           cancel |-> FALSE, local |-> FALSE, ret |-> "post"]
WorkerIdle == [pc |-> "idle", todo |-> {}, e |-> NoEntry, i |-> 1, need |-> {}]

\* A faulty variant: the first pass over a collection is not counted.
GpuIdleUncounted == [pc |-> "idle", list |-> {}, e |-> NoEntry, i |-> 1, out |-> "fresh",
                     pass |-> 0, again |-> FALSE]
GpuIdle == [pc |-> "idle", list |-> {}, e |-> NoEntry, i |-> 1, out |-> "fresh",
            pass |-> 1, again |-> FALSE]

Entry(tile) == [Blank EXCEPT !.tile = tile]
Linked == {e \in Entries : \E t \in Tiles : at[t] = e}
Alive == {e \in Entries : res[e].tile # NoTile}
FreeTasks == {k \in Tasks : task[k].pc = "none"}

\* The worker holds the collection's write lock while a removeResources() filter
\* runs; the render thread holds its read lock while it visits the entries.
Removing == w.pc \in {"visit", "climb", "cancel", "last"}
Visiting == r.pc \in {"scan", "uploaded", "prepared", "junk"} /\ r.ev # "renew"
CanRead == ~Removing
CanWrite == ~Removing /\ ~Visiting

\* removeEntry(): unlink() resets the link and releases the data, erase() drops it.
Unlink(e) ==
    /\ at' = [t \in Tiles |-> IF at[t] = e THEN NoEntry ELSE at[t]]
    /\ res' = [res EXCEPT ![e].data = FALSE]

Hit(rung, e) == state[e] = rung[1]
Swap(rung, e) == state' = [state EXCEPT ![e] = rung[2]]

Init ==
    /\ kind \in Kinds
    /\ state = [e \in Entries |-> "Unknown"]
    /\ res = [e \in Entries |-> Blank]
    /\ at = [t \in Tiles |-> NoEntry]
    /\ task = [k \in Tasks |-> NoWork]
    /\ w = WorkerIdle
    /\ g = GpuIdle
    /\ r = [pc |-> "idle", todo |-> {}, e |-> NoEntry, seen |-> "Unknown",
            ev |-> "none", left |-> MaxEvents[kind]]

-----------------------------------------------------------------------------
(* The resources worker: updateResources() = cleanupJunkResources(), then      *)
(* requestNeededResources() and requestOutdatedResources().                    *)

\* need: the tiles of the active zone, none once the data source is gone.
WakeWorker ==
    /\ w.pc = "idle" /\ CanWrite
    /\ \E need \in Zones :
         w' = [w EXCEPT !.pc = "visit", !.todo = Linked, !.need = need]
    /\ UNCHANGED <<state, res, at, task, g, r>>

\* The filters of removeResources(): an unloaded entry dies whatever it is, a junk
\* one goes down the ladder of cleanupJunkResource(), another one stays.
VisitEntry(e) ==
    /\ w.pc = "visit" /\ e \in w.todo
    /\ LET junk == res[e].junk \/ res[e].tile \notin w.need IN
       \/ /\ state[e] = "Unloaded"
          /\ state' = [state EXCEPT ![e] = JBD]
          /\ Unlink(e)
          /\ w' = [w EXCEPT !.todo = @ \ {e}]
       \/ /\ state[e] # "Unloaded" /\ junk
          /\ res' = [res EXCEPT ![e].junk = TRUE]
          /\ w' = [w EXCEPT !.pc = "climb", !.todo = @ \ {e}, !.e = e, !.i = 1]
          /\ UNCHANGED <<state, at>>
       \/ /\ state[e] # "Unloaded" /\ ~junk
          /\ w' = [w EXCEPT !.todo = @ \ {e}]
          /\ UNCHANGED <<state, res, at>>
    /\ UNCHANGED <<task, g, r>>

\* Which rungs of CleanupLadder call _cancelRequestCallback.
\* A faulty variant: the request of an entry that is ready is cancelled as well.
CancelsReady(rung) == rung[1] \in {"Requested", "RequestedUpdate", "Ready"}
Cancels(rung) ==
    \/ rung[1] \in {"Requested", "RequestedUpdate"}
    \/ rung[1] = "ProcessingRequest" /\ IsLayer
    \/ rung[1] \in {"ProcessingUpdate", PUWR} /\ Async

NextVisit == [w EXCEPT !.pc = "visit", !.e = NoEntry, !.i = 1]

ClimbCleanup ==
    /\ w.pc = "climb"
    /\ LET rung == CleanupLadder[w.i] IN
       \/ /\ Hit(rung, w.e) /\ Swap(rung, w.e)
          /\ \/ /\ Cancels(rung)
                /\ w' = [w EXCEPT !.pc = "cancel"]
                /\ UNCHANGED <<res, at>>
             \/ /\ ~Cancels(rung) /\ rung[2] = JBD
                /\ Unlink(w.e) /\ w' = NextVisit
             \/ /\ ~Cancels(rung) /\ rung[2] # JBD
                /\ w' = NextVisit /\ UNCHANGED <<res, at>>
       \/ /\ ~Hit(rung, w.e)
          /\ w' = IF w.i < Len(CleanupLadder) THEN [w EXCEPT !.i = @ + 1]
                                              ELSE [w EXCEPT !.pc = "last"]
          /\ UNCHANGED <<state, res, at>>
    /\ UNCHANGED <<task, g, r>>

\* The cancel callback: ask the task to cancel and, if the pool still had it, run
\* it here. It then skips its work, and the states JustBeforeDeath and
\* UnloadPending make its post-execute handler do nothing.
CancelRequest ==
    /\ w.pc = "cancel"
    /\ LET k == res[w.e].cb
           dequeued == k \in Tasks /\ task[k].pc = "queued"
           gone == CleanupLadder[w.i][2] = JBD
       IN  /\ task' = [j \in Tasks |-> IF j # k THEN task[j]
                                       ELSE IF dequeued THEN NoWork
                                       ELSE [task[j] EXCEPT !.cancel = TRUE]]
           /\ res' = [res EXCEPT ![w.e].cb = IF dequeued THEN Expired ELSE @,
                                 ![w.e].data = @ /\ ~gone]
           /\ at' = [t \in Tiles |-> IF gone /\ at[t] = w.e THEN NoEntry ELSE at[t]]
    /\ w' = NextVisit
    /\ UNCHANGED <<state, g, r>>

\* No rung was hit: an entry another thread is about to delete goes now.
LastLook ==
    /\ w.pc = "last"
    /\ IF state[w.e] = JBD THEN Unlink(w.e) ELSE UNCHANGED <<res, at>>
    /\ w' = NextVisit
    /\ UNCHANGED <<state, task, g, r>>

CleanupDone ==
    /\ w.pc = "visit" /\ w.todo = {}
    /\ w' = [w EXCEPT !.pc = "request"]
    /\ UNCHANGED <<state, res, at, task, g, r>>

\* obtainOrAllocateEntry() makes a new entry, requestNeededResource() claims it.
AllocateEntry(t, e) ==
    /\ w.pc = "request" /\ CanWrite
    /\ t \in w.need /\ at[t] = NoEntry /\ e \notin Alive
    /\ at' = [at EXCEPT ![t] = e]
    /\ res' = [res EXCEPT ![e] = Entry(t)]
    /\ state' = [state EXCEPT ![e] = "Requesting"]
    /\ w' = [w EXCEPT !.pc = "submit", !.need = @ \ {t}, !.e = e]
    /\ UNCHANGED <<task, g, r>>

\* The entry exists and is not "Unknown": nothing to request, unless it was made
\* for another detailed zoom (only synchronous raster providers record one).
KeepEntry(t) ==
    /\ w.pc = "request" /\ CanWrite
    /\ t \in w.need /\ at[t] # NoEntry
    /\ w' = [w EXCEPT !.need = @ \ {t}]
    /\ \/ UNCHANGED <<state, r>>
       \/ /\ kind = "MapLayer" /\ r.left > 0
          /\ Hit(<<"Uploaded", "Outdated">>, at[t])
          /\ Swap(<<"Uploaded", "Outdated">>, at[t])
          /\ r' = [r EXCEPT !.left = @ - 1]
    /\ UNCHANGED <<res, at, task, g>>

CollectOutdated ==
    /\ w.pc = "request" /\ w.need = {}
    /\ w' = [w EXCEPT !.pc = "outdated",
                      !.todo = {e \in Linked : Updatable /\ state[e] = "Outdated"}]
    /\ UNCHANGED <<state, res, at, task, g, r>>

RequestOutdated(e) ==
    /\ w.pc = "outdated" /\ e \in w.todo
    /\ IF state[e] = "Outdated"
         THEN /\ state' = [state EXCEPT ![e] = "Updating"]
              /\ w' = [w EXCEPT !.pc = "submit", !.todo = @ \ {e}, !.e = e]
         ELSE /\ w' = [w EXCEPT !.todo = @ \ {e}]
              /\ UNCHANGED state
    /\ UNCHANGED <<res, at, task, g, r>>

\* The second half of requestNeededResource(). A synchronous request is a task
\* that waits in _requestedResourcesTasks; an asynchronous one is begun at once
\* (nothing else changes "Requested" or "RequestedUpdate" meanwhile), reading
\* the cache only, unless the data shown is known to be old.
SubmitRequest(k) ==
    /\ w.pc = "submit" /\ k \in FreeTasks
    /\ LET first == state[w.e] = "Requesting" IN
       /\ state' = [state EXCEPT ![w.e] =
            IF Async THEN IF first THEN "ProcessingRequest" ELSE "ProcessingUpdate"
                     ELSE IF first THEN "Requested" ELSE "RequestedUpdate"]
       /\ task' = [task EXCEPT ![k] =
            [NoWork EXCEPT !.pc = IF Async THEN "obtain" ELSE "pending", !.e = w.e,
                           !.local = Async /\ ~res[w.e].old]]
       /\ w' = [w EXCEPT !.pc = IF first THEN "request" ELSE "outdated", !.e = NoEntry]
    /\ res' = [res EXCEPT ![w.e].cb = k, ![w.e].old = @ /\ ~Async]
    /\ UNCHANGED <<at, g, r>>

EnqueueTasks ==
    /\ w.pc = "outdated" /\ w.todo = {}
    /\ task' = [k \in Tasks |-> IF task[k].pc = "pending"
                                  THEN [task[k] EXCEPT !.pc = "queued"] ELSE task[k]]
    /\ w' = WorkerIdle
    /\ UNCHANGED <<state, res, at, g, r>>

Worker ==
    \/ WakeWorker \/ ClimbCleanup \/ CancelRequest \/ LastLook \/ CleanupDone
    \/ CollectOutdated \/ EnqueueTasks
    \/ \E e \in Entries : VisitEntry(e) \/ RequestOutdated(e)
    \/ \E t \in Tiles, e \in Entries : AllocateEntry(t, e)
    \/ \E t \in Tiles : KeepEntry(t)
    \/ \E k \in Tasks : SubmitRequest(k)

-----------------------------------------------------------------------------
(* Request tasks: ResourceRequestTask::execute() and postExecute(), or the     *)
(* callback of obtainDataAsync().                                              *)

Goto(k, pc) == task' = [task EXCEPT ![k].pc = pc, ![k].i = 1]
Climb(k) == task' = [task EXCEPT ![k].i = @ + 1]

TakeTask(k) ==
    /\ task[k].pc = "queued" /\ Goto(k, "taken")
    /\ UNCHANGED <<state, res, at, w, g, r>>

\* Task::run(): a task cancelled before it starts only reports so.
RunTask(k) ==
    /\ task[k].pc = "taken"
    /\ Goto(k, IF task[k].cancel THEN "post" ELSE "begin")
    /\ UNCHANGED <<state, res, at, w, g, r>>

\* beginResourceRequestProcessing()
BeginRequest(k) ==
    /\ task[k].pc = "begin"
    /\ LET rung == BeginLadder[task[k].i]  e == task[k].e IN
       \/ Hit(rung, e) /\ Swap(rung, e) /\ Goto(k, "obtain")
       \/ /\ ~Hit(rung, e) /\ UNCHANGED state
          /\ IF task[k].i < Len(BeginLadder) THEN Climb(k) ELSE Goto(k, "post")
    /\ UNCHANGED <<res, at, w, g, r>>

\* obtainData() (or the last callback of obtainDataAsync()): the provider fails,
\* has no data, or has some, which is stored. An entry that left the collection
\* has no provider any more. A synchronous request asked to cancel has failed.
ObtainData(k) ==
    /\ task[k].pc = "obtain" /\ ~task[k].local
    /\ \E succeeded, available \in BOOLEAN :
         /\ succeeded => Async \/ task[k].e \in Linked
         /\ available => succeeded
         /\ task' = [task EXCEPT ![k].pc = "end", ![k].i = 1, ![k].got = available,
                                 ![k].ok = succeeded /\ (Async \/ ~task[k].cancel),
                                 ![k].ret = "post"]
         /\ res' = [res EXCEPT ![task[k].e].data = @ \/ available]
    /\ UNCHANGED <<state, at, w, g, r>>

\* The callback of the first, cache-only request: data of the asked zoom ends it;
\* no data, or data of another zoom ("scaled"), is asked for again; an image the
\* cache could not attribute to a zoom ("undated") is shown, but marked as old.
ObtainCached(k) ==
    /\ task[k].pc = "obtain" /\ task[k].local
    /\ \E found \in {"failed", "none", "exact", "scaled", "undated"} :
         LET e == task[k].e
             again == /\ found \notin {"failed", "exact"} /\ ~task[k].cancel
                      /\ state[e] \in Processing \ {RCWBP, UCWBP}
             undated == again /\ found = "undated" /\ e \in Linked
             retry == again /\ ~undated
         IN  /\ task' = [task EXCEPT
                  ![k].pc = IF retry THEN IF found = "scaled" THEN "scaled" ELSE "obtain"
                                     ELSE "end",
                  ![k].i = 1, ![k].local = FALSE, ![k].ok = ~retry /\ found # "failed",
                  ![k].got = ~retry /\ found \notin {"failed", "none"}, ![k].ret = "post"]
             /\ res' = [res EXCEPT ![e].data = (@ \/ found \notin {"failed", "none"}) /\ ~retry,
                                   ![e].old = @ \/ undated]
    /\ UNCHANGED <<state, at, w, g, r>>

\* Data of another zoom becomes an entry of its own, ready for upload.
AllocateScaled(k, t, e) ==
    /\ task[k].pc = "scaled" /\ CanWrite
    /\ IF task[k].e \in Linked /\ at[t] = NoEntry /\ e \notin Alive
         THEN /\ at' = [at EXCEPT ![t] = e]
              /\ res' = [res EXCEPT ![e] = [Entry(t) EXCEPT !.data = TRUE]]
              /\ state' = [state EXCEPT ![e] = "Ready"]
         ELSE UNCHANGED <<at, res, state>>
    /\ Goto(k, "obtain")
    /\ UNCHANGED <<w, g, r>>

\* endResourceRequestProcessing()
EndRequest(k) ==
    /\ task[k].pc = "end"
    /\ LET ladder == IF task[k].ok THEN EndLadder(task[k].got) ELSE EndFailedLadder
           rung == ladder[task[k].i]
           e == task[k].e
       IN  \/ /\ Hit(rung, e) /\ Swap(rung, e)
              /\ Goto(k, IF task[k].ok THEN "detach" ELSE "post")
           \/ /\ ~Hit(rung, e) /\ UNCHANGED state
              /\ \/ task[k].i < Len(ladder) /\ Climb(k)
                 \/ /\ task[k].i = Len(ladder)
                    /\ Goto(k, IF task[k].ok THEN "assert" ELSE "remove")
    /\ UNCHANGED <<res, at, w, g, r>>

\* _cancelRequestCallback = nullptr
DetachCallback(k) ==
    /\ task[k].pc = "detach" /\ Goto(k, "post")
    /\ res' = [res EXCEPT ![task[k].e].cb = NoTask]
    /\ UNCHANGED <<state, at, w, g, r>>

\* The assertion of endResourceRequestProcessing(), a no-op in a release build.
AssertCancelled(k) ==
    /\ task[k].pc = "assert" /\ Goto(k, "cancel")
    /\ UNCHANGED <<state, res, at, w, g, r>>

\* postExecute(wasCancelled); an asynchronous callback tests isAborted() instead.
PostExecute(k) ==
    /\ task[k].pc = "post"
    /\ task' = [task EXCEPT ![k].pc = IF task[k].cancel THEN "cancel" ELSE "fin",
                            ![k].i = 1, ![k].ret = "fin"]
    /\ UNCHANGED <<state, res, at, w, g, r>>

\* processResourceRequestCancellation()
ProcessCancellation(k) ==
    /\ task[k].pc = "cancel"
    /\ LET rung == CancelLadder[task[k].i]  e == task[k].e IN
       \/ /\ Hit(rung, e) /\ Swap(rung, e)
          /\ Goto(k, IF rung[2] = JBD THEN "remove" ELSE task[k].ret)
       \/ /\ ~Hit(rung, e) /\ UNCHANGED state
          /\ IF task[k].i < Len(CancelLadder) THEN Climb(k) ELSE Goto(k, task[k].ret)
    /\ UNCHANGED <<res, at, w, g, r>>

\* removeSelfFromCollection(): first the link is locked, then removeEntry() takes
\* the write lock and removes whatever entry the tile has by then.
\* A faulty variant: the removal is always left half-way.
LockLinkPreempted(k) ==
    /\ task[k].pc = "remove"
    /\ Goto(k, IF task[k].e \in Linked THEN "erase" ELSE task[k].ret)
    /\ UNCHANGED <<state, res, at, w, g, r>>
LockLink(k) ==
    /\ task[k].pc = "remove"
    /\ LET e == task[k].e IN
       \/ /\ e \in Linked /\ AtomicRemoval /\ CanWrite
          /\ Unlink(e) /\ Goto(k, task[k].ret)
       \/ /\ e \in Linked /\ ~AtomicRemoval
          /\ Goto(k, "erase") /\ UNCHANGED <<res, at>>
       \/ /\ e \notin Linked
          /\ Goto(k, task[k].ret) /\ UNCHANGED <<res, at>>
    /\ UNCHANGED <<state, w, g, r>>

EraseEntry(k) ==
    /\ task[k].pc = "erase" /\ CanWrite
    /\ LET found == at[res[task[k].e].tile] IN
       IF found # NoEntry THEN Unlink(found) ELSE UNCHANGED <<res, at>>
    /\ Goto(k, task[k].ret)
    /\ UNCHANGED <<state, w, g, r>>

\* The task object is deleted; a callback that still names it finds it expired.
FinishTask(k) ==
    /\ task[k].pc = "fin"
    /\ task' = [task EXCEPT ![k] = NoWork]
    /\ res' = [e \in Entries |-> IF res[e].cb = k THEN [res[e] EXCEPT !.cb = Expired]
                                                  ELSE res[e]]
    /\ UNCHANGED <<state, at, w, g, r>>

TaskStep(k) ==
    \/ TakeTask(k) \/ RunTask(k) \/ BeginRequest(k) \/ ObtainData(k) \/ ObtainCached(k)
    \/ \E t \in Tiles, e \in Entries : AllocateScaled(k, t, e)
    \/ EndRequest(k) \/ DetachCallback(k) \/ AssertCancelled(k) \/ PostExecute(k)
    \/ ProcessCancellation(k) \/ LockLink(k) \/ EraseEntry(k) \/ FinishTask(k)

-----------------------------------------------------------------------------
(* The GPU thread: syncResourcesInGPU() = unloadResources(), uploadResources(). *)

CollectUnload ==
    /\ g.pc = "idle" /\ CanRead
    /\ g' = [g EXCEPT !.pc = "unload", !.list = {e \in Linked : state[e] = "UnloadPending"}]
    /\ UNCHANGED <<state, res, at, task, w, r>>

ClaimUnload(e) ==
    /\ g.pc = "unload" /\ e \in g.list
    /\ IF state[e] = "UnloadPending"
         THEN /\ state' = [state EXCEPT ![e] = "Unloading"]
              /\ g' = [g EXCEPT !.pc = "unloading", !.list = @ \ {e}, !.e = e]
         ELSE /\ g' = [g EXCEPT !.list = @ \ {e}]
              /\ UNCHANGED state
    /\ UNCHANGED <<res, at, task, w, r>>

UnloadFromGPU ==
    /\ g.pc = "unloading"
    /\ res' = [res EXCEPT ![g.e].gpu = FALSE, ![g.e].stale = FALSE]
    /\ g' = [g EXCEPT !.pc = "unloaded"]
    /\ UNCHANGED <<state, at, task, w, r>>

MarkUnloaded ==
    /\ g.pc = "unloaded"
    /\ state' = [state EXCEPT ![g.e] = "Unloaded"]
    /\ g' = [g EXCEPT !.pc = "unload", !.e = NoEntry]
    /\ UNCHANGED <<res, at, task, w, r>>

Uploadable == {e \in Linked : state[e] \in {"Ready", "PreparedRenew", "ProcessingUpdate"}}

CollectUpload ==
    /\ g.pc = "unload" /\ g.list = {} /\ CanRead
    /\ g' = [g EXCEPT !.pc = "upload", !.list = Uploadable]
    /\ UNCHANGED <<state, res, at, task, w, r>>

PickUpload(e) ==
    /\ g.pc = "upload" /\ e \in g.list
    /\ g' = [g EXCEPT !.pc = "claim", !.list = @ \ {e}, !.e = e, !.i = 1]
    /\ UNCHANGED <<state, res, at, task, w, r>>

NextUpload == [g EXCEPT !.pc = "upload", !.e = NoEntry, !.i = 1, !.out = "fresh"]

ClaimUpload ==
    /\ g.pc = "claim"
    /\ LET rung == UploadLadder[g.i] IN
       \/ Hit(rung, g.e) /\ Swap(rung, g.e) /\ g' = [g EXCEPT !.pc = "transfer", !.i = 1]
       \/ /\ ~Hit(rung, g.e) /\ UNCHANGED state
          /\ g' = IF g.i < Len(UploadLadder) THEN [g EXCEPT !.i = @ + 1] ELSE NextUpload
    /\ UNCHANGED <<res, at, task, w, r>>

\* uploadToGPU(): without source data there is nothing to do and that is a success;
\* otherwise the data is uploaded for the current tile time, or the upload fails.
UploadToGPU ==
    /\ g.pc = "transfer"
    /\ \/ /\ g' = [g EXCEPT !.pc = "check"]
          /\ res' = IF res[g.e].data
                      THEN [res EXCEPT ![g.e].gpu = TRUE, ![g.e].stale = FALSE] ELSE res
       \/ /\ res[g.e].data
          /\ g' = [g EXCEPT !.pc = "settle", !.out = "failed"]
          /\ UNCHANGED res
    /\ UNCHANGED <<state, at, task, w, r>>

\* if (resource->isOld) ... else if (resource->isOldTime) ... else ...
CheckOld ==
    /\ g.pc = "check"
    /\ g' = [g EXCEPT !.pc = "settle",
                      !.out = IF res[g.e].old THEN "old"
                              ELSE IF res[g.e].oldTime THEN "oldTime" ELSE "fresh"]
    /\ UNCHANGED <<state, res, at, task, w, r>>

SettleUpload ==
    /\ g.pc = "settle"
    /\ LET ladder == IF g.out = "failed" THEN UploadFailedLadder ELSE UploadedLadder(g.out)
           rung == ladder[g.i]
       IN  \/ /\ Hit(rung, g.e) /\ Swap(rung, g.e)
              /\ g' = [NextUpload EXCEPT !.again = @ \/ (g.out = "oldTime" /\ rung[1] # PUWR)]
              /\ res' = [res EXCEPT ![g.e].oldTime = @ /\ g.out # "oldTime"]
           \/ /\ ~Hit(rung, g.e)
              /\ g' = IF g.i < Len(ladder) THEN [g EXCEPT !.i = @ + 1] ELSE NextUpload
              /\ UNCHANGED <<state, res>>
    /\ UNCHANGED <<at, task, w, r>>

\* A collection whose time had to be changed is uploaded from once more.
UploadAgain ==
    /\ g.pc = "upload" /\ g.list = {} /\ g.again /\ g.pass = 1 /\ CanRead
    /\ g' = [g EXCEPT !.list = Uploadable, !.pass = 2, !.again = FALSE]
    /\ UNCHANGED <<state, res, at, task, w, r>>

SyncDone ==
    /\ g.pc = "upload" /\ g.list = {} /\ ~(g.again /\ g.pass = 1)
    /\ g' = GpuIdle
    /\ UNCHANGED <<state, res, at, task, w, r>>

Gpu ==
    \/ CollectUnload \/ UnloadFromGPU \/ MarkUnloaded \/ CollectUpload \/ ClaimUpload
    \/ UploadToGPU \/ CheckOld \/ SettleUpload \/ UploadAgain \/ SyncDone
    \/ \E e \in Entries : ClaimUnload(e) \/ PickUpload(e)

-----------------------------------------------------------------------------
(* The render thread: updateBindingsAndTime(), validateResourcesOfType(),      *)
(* requestResourcesRenew() of keyed symbols.                                   *)

RenderEvents ==
    {"validate"} \cup CASE IsLayer -> {"time", "period", "detail"}
                        [] kind = "Map3DObjects" -> {"config"}
                        [] kind = "Symbols" -> {"renew"}
                        [] OTHER -> {}

\* A new tile time is stored before any entry is looked at.
RenderEvent(ev) ==
    /\ r.pc = "idle" /\ r.left > 0
    /\ r' = [r EXCEPT !.pc = "set", !.ev = ev, !.left = @ - 1]
    /\ res' = IF ev \in {"time", "period"}
                THEN [e \in Entries |-> [res[e] EXCEPT !.stale = res[e].gpu]] ELSE res
    /\ UNCHANGED <<state, at, task, w, g>>

RenderScan ==
    /\ r.pc = "set" /\ CanRead
    /\ r' = [r EXCEPT !.pc = "scan", !.todo = Linked]
    /\ UNCHANGED <<state, res, at, task, w, g>>

RenderRead(e) ==
    /\ r.pc = "scan" /\ e \in r.todo
    /\ r' = [r EXCEPT !.pc = IF r.ev = "validate" THEN "scan" ELSE "uploaded",
                      !.todo = @ \ {e}, !.e = e, !.seen = state[e]]
    /\ res' = [res EXCEPT
         ![e].junk = @ \/ r.ev = "validate",
         ![e].oldTime = @ \/ (r.ev \in {"time", "detail"} /\ state[e] \in {"Uploading", "Renewing"})]
    /\ UNCHANGED <<state, at, task, w, g>>

\* New state of an entry that is shown: reupload it, prepare a renewed one, or
\* ask for up-to-date data.
Shown == CASE r.ev = "time" -> "PreparedRenew" [] r.ev = "renew" -> "PreparingRenew"
           [] OTHER -> "Outdated"

RenderUploaded ==
    /\ r.pc = "uploaded"
    /\ LET rung == <<"Uploaded", Shown>> IN
       \/ /\ Hit(rung, r.e) /\ Swap(rung, r.e)
          /\ r' = [r EXCEPT !.pc = IF r.ev = "renew" THEN "prepared" ELSE "scan"]
       \/ /\ ~Hit(rung, r.e) /\ UNCHANGED state
          /\ \/ r.ev # "time" /\ r.ev # "renew" /\ r' = [r EXCEPT !.pc = "prepared"]
             \/ r.ev \in {"time", "renew", "detail"} /\ r' = [r EXCEPT !.pc = "scan"]
    /\ UNCHANGED <<res, at, task, w, g>>

RenderPrepared ==
    /\ r.pc = "prepared"
    /\ LET rung == IF r.ev = "renew" THEN <<"PreparingRenew", "PreparedRenew">>
                                     ELSE <<"PreparedRenew", "Outdated">> IN
       \/ Hit(rung, r.e) /\ Swap(rung, r.e) /\ r' = [r EXCEPT !.pc = "scan"]
       \/ /\ ~Hit(rung, r.e) /\ UNCHANGED state
          /\ r' = [r EXCEPT !.pc = IF r.ev = "renew" THEN "scan" ELSE "junk"]
    /\ UNCHANGED <<res, at, task, w, g>>

\* The tests on the state as it was read: what cannot be marked outdated is junk.
RenderJunk ==
    /\ r.pc = "junk"
    /\ res' = [res EXCEPT ![r.e].junk = @ \/ r.seen \in
         {"ProcessingRequest", "ProcessingUpdate", PUWR, "Unavailable", "Ready",
          "Uploading", "Uploaded", "PreparedRenew", "Renewing"}]
    /\ r' = [r EXCEPT !.pc = "scan"]
    /\ UNCHANGED <<state, at, task, w, g>>

RenderDone ==
    /\ r.pc = "scan" /\ r.todo = {}
    /\ r' = [r EXCEPT !.pc = "idle", !.e = NoEntry, !.seen = "Unknown", !.ev = "none"]
    /\ UNCHANGED <<state, res, at, task, w, g>>

\* captureGpuResource(): while symbols are drawn, a resource is taken from and put
\* back to "Uploaded", the latter without looking.
HoldSymbol(e) ==
    /\ kind = "Symbols" /\ r.pc = "idle" /\ e \in Linked
    /\ Hit(<<"Uploaded", "IsBeingUsed">>, e) /\ Swap(<<"Uploaded", "IsBeingUsed">>, e)
    /\ r' = [r EXCEPT !.pc = "hold", !.e = e]
    /\ UNCHANGED <<res, at, task, w, g>>

ReleaseSymbol ==
    /\ r.pc = "hold"
    /\ state' = [state EXCEPT ![r.e] = "Uploaded"]
    /\ r' = [r EXCEPT !.pc = "idle", !.e = NoEntry]
    /\ UNCHANGED <<res, at, task, w, g>>

Render ==
    \/ ReleaseSymbol \/ RenderScan \/ RenderUploaded \/ RenderPrepared \/ RenderJunk \/ RenderDone
    \/ \E ev \in RenderEvents : RenderEvent(ev)
    \/ \E e \in Entries : RenderRead(e) \/ HoldSymbol(e)

-----------------------------------------------------------------------------
\* The last reference to an entry outside the collection is dropped.
Referenced(e) ==
    \/ e \in Linked \cup w.todo \cup g.list \cup r.todo \cup {w.e, g.e, r.e}
    \/ \E k \in Tasks : task[k].e = e

Destroy(e) ==
    /\ e \in Alive /\ ~Referenced(e)
    /\ res' = [res EXCEPT ![e] = Blank]
    /\ state' = [state EXCEPT ![e] = "Unknown"]
    /\ UNCHANGED <<at, task, w, g, r>>

Next ==
    /\ UNCHANGED kind
    /\ \/ Worker \/ Gpu \/ Render
       \/ \E k \in Tasks : TaskStep(k)
       \/ \E e \in Entries : Destroy(e)

Spec == Init /\ [][Next]_vars

-----------------------------------------------------------------------------
(* Properties *)

TaskPc == {"none", "pending", "queued", "taken", "begin", "obtain", "scaled", "end", "detach",
           "assert", "post", "cancel", "remove", "erase", "fin"}

Fields == [tile : Tiles \cup {NoTile}, gpu : BOOLEAN, stale : BOOLEAN, data : BOOLEAN,
           junk : BOOLEAN, old : BOOLEAN, oldTime : BOOLEAN, cb : Tasks \cup {NoTask, Expired}]
TaskType == [pc : TaskPc, e : Entries \cup {NoEntry}, i : Nat, ok : BOOLEAN, got : BOOLEAN,
             cancel : BOOLEAN, local : BOOLEAN, ret : {"post", "fin"}]
WorkerType ==
    [pc : {"idle", "visit", "climb", "cancel", "last", "request", "submit", "outdated"},
     todo : SUBSET Entries, e : Entries \cup {NoEntry}, i : Nat, need : SUBSET Tiles]
GpuType ==
    [pc : {"idle", "unload", "unloading", "unloaded", "upload", "claim", "transfer", "check",
           "settle"},
     list : SUBSET Entries, e : Entries \cup {NoEntry}, i : Nat,
     out : {"failed", "old", "oldTime", "fresh"}, pass : 1..2, again : BOOLEAN]
RenderType ==
    [pc : {"idle", "set", "scan", "uploaded", "prepared", "junk", "hold"},
     todo : SUBSET Entries, e : Entries \cup {NoEntry}, seen : ResourceState,
     ev : RenderEvents \cup {"none"}, left : 0..MaxEvents[kind]]

\* Every variable has its type.
TypeOK ==
    /\ kind \in Kinds
    /\ state \in [Entries -> ResourceState]
    /\ res \in [Entries -> Fields]
    /\ at \in [Tiles -> Entries \cup {NoEntry}]
    /\ task \in [Tasks -> TaskType]
    /\ w \in WorkerType /\ g \in GpuType /\ r \in RenderType

\* assert(state == RequestCanceled... || state == UpdatingCancelled...) in
\* endResourceRequestProcessing(): a request that finds its entry in none of the
\* states it may be processed in has been cancelled.
EndAssertion ==
    \A k \in Tasks : task[k].pc = "assert" => state[task[k].e] \in {RCWBP, UCWBP}

\* assert(_cancelRequestCallback != nullptr) in cleanupJunkResource(): an entry
\* whose request the worker has just cancelled still has its cancel callback.
CallbackPresent == w.pc = "cancel" => res[w.e].cb # NoTask

\* Three handlers store a state without a test: the end of an unload (which asserts
\* that the state is Unloading), the submission of a request, and the symbols stage
\* that has borrowed a resource. Each still finds the state it set when it claimed
\* the entry: no other thread moved it, so no transition is lost.
SetStateOwned ==
    /\ g.pc \in {"unloading", "unloaded"} => state[g.e] = "Unloading"
    /\ w.pc = "submit" => state[w.e] \in {"Requesting", "Updating"}
    /\ r.pc = "hold" => state[r.e] = "IsBeingUsed"

\* An entry that has left the collection, so that nobody can unload it any more,
\* leaves nothing behind: no data in the GPU (what the destructors of resources
\* warn of as a GPU memory leak) and no data or published symbols of its own.
RemovedLeavesNothing == \A e \in Alive \ Linked : ~res[e].gpu /\ ~res[e].data

\* What the state says of the GPU is so: no data is there in the states before the
\* first upload and after the unload, and a resource that is shown has its data there.
StateTellsGPU ==
    \A e \in Linked : /\ state[e] \in NotInGPU => ~res[e].gpu
                      /\ state[e] \in {"Uploaded", "IsBeingUsed", "PreparingRenew", "PreparedRenew",
                                       "Outdated", "Updating"} => res[e].gpu

\* An entry that waits for data has a request under way that will move it on: the
\* worker asks again for nothing but "Unknown" and "Outdated" entries, and cleanup
\* leaves cancelled ones to their request.
Unanswered(k) == task[k].pc \in {"pending", "queued", "taken", "begin", "obtain", "scaled",
                                 "end", "assert", "cancel", "remove", "erase"}
WaitingIsServed ==
    \A e \in Linked : state[e] \in Processing \cup {"Requested", "RequestedUpdate"}
                        => \E k \in Tasks : task[k].e = e /\ Unanswered(k)

\* No entry is served by two requests at once: at most one task may still store
\* data into it or end its processing.
OneRequest ==
    \A j, k \in Tasks : /\ j # k /\ task[j].e = task[k].e /\ task[j].pc # "none"
                        /\ task[j].pc \in {"obtain", "scaled", "end"}
                        => task[k].pc \notin {"obtain", "scaled", "end"}

\* Once the render thread has visited every entry after a change of the tile time,
\* no entry stays shown with data made for an older time.
TimeCaughtUp ==
    r.pc = "idle" => \A e \in Linked : state[e] = "Uploaded" /\ ~res[e].junk => ~res[e].stale

\* removeSelfFromCollection() removes the entry it is called on and no other: a
\* step of a request's removal takes no other entry out of the collection.
RemovesSelf ==
    [][\A k \in Tasks : task[k].pc \in {"remove", "erase"} /\ task'[k] # task[k]
         => \A t \in Tiles : at'[t] # at[t] => at[t] = task[k].e]_vars

\* Junk does not stay: an entry marked as junk leaves the collection.
JunkIsRemoved ==
    \A e \in Entries : (e \in Linked /\ res[e].junk) ~> (e \notin Linked)

\* Frames keep coming, so the worker and the GPU thread keep running; the pool and
\* the provider answer every request; a reader that waits for the collection's
\* lock gets it.
Fairness ==
    /\ SF_vars(Worker /\ UNCHANGED kind) /\ SF_vars(Gpu /\ UNCHANGED kind)
    /\ SF_vars(/\ UNCHANGED kind
               /\ \/ RenderScan \/ RenderUploaded \/ RenderPrepared \/ RenderJunk \/ RenderDone
                  \/ ReleaseSymbol \/ \E e \in Entries : RenderRead(e))
    /\ \A k \in Tasks : SF_vars(TaskStep(k) /\ UNCHANGED kind)
    /\ \A e \in Entries : WF_vars(Destroy(e) /\ UNCHANGED kind)

FairSpec == Spec /\ Fairness

=============================================================================
