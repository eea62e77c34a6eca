---------------------------- MODULE RendererRelease ----------------------------
(* How rendering ends: MapRenderer::releaseRendering() against the GPU worker  *)
(* thread, the resources worker thread and requests that are still answered.   *)
(*                                                                             *)
(* RendererResources shows what these threads do to the entries of a           *)
(* collection, compare-and-swap by compare-and-swap. Here the other threads    *)
(* climb a ladder in one step, and what is shown step by step is how threads   *)
(* sleep, are woken, suspended, stopped and waited for, and how                *)
(* blockingReleaseResourcesFrom() empties the collections.                     *)
EXTENDS ResourceStates, FiniteSets

CONSTANTS
    Entries,        \* resource objects of all collections
    Modes,          \* ways to set the renderer up
    InitialStates,  \* states each entry may be in when the renderer is first observed
    MaxRequests,    \* bound on _resourcesGpuSyncRequestsCounter
    NoEntry

\* gpu: the GPU worker thread is enabled; async: the provider answers requests by
\* itself; suspend: the application may suspend the GPU worker.
ASSUME ModesAssumption == Modes \subseteq [gpu : BOOLEAN, async : BOOLEAN, suspend : BOOLEAN]
\* States an entry rests in while the threads that may work on it do something else.
Resting ==
    ResourceState \ {"Requesting", "Updating", "Uploading", "Renewing", PUWR, "Unloading",
                     "IsBeingUsed", "PreparingRenew", JBD}
ASSUME StatesAssumption == InitialStates \in [Entries -> SUBSET Resting]
ASSUME BoundsAssumption == NoEntry \notin Entries /\ MaxRequests \in Nat \ {0}

VARIABLES
    mode,   \* the set-up, which never changes
    state,  \* the atomic state of each entry; "Unknown" before it is allocated
    ent,    \* linked in its collection, leaveQuietly, data in the GPU
    req,    \* the request that serves the entry
    rel,    \* the thread that renders and, in the end, releases
    gw,     \* the GPU worker thread
    sync,   \* the pass of syncResourcesInGPU() under way
    wk,     \* the resources worker thread
    flag    \* flags and counters the threads share

vars == <<mode, state, ent, req, rel, gw, sync, wk, flag>>

Linked == {e \in Entries : ent[e].linked}

\* What a ladder makes of state s when no other thread intervenes.
Hits(ladder, s) == \E i \in DOMAIN ladder : ladder[i][1] = s
Climb(ladder, s) ==
    IF Hits(ladder, s) THEN ladder[CHOOSE i \in DOMAIN ladder : ladder[i][1] = s][2] ELSE s

\* Faulty variants of the release ladder: data prepared for a renewal is taken for
\* data not shown yet; outdated entries are forgotten; a request is not waited for.
ReleaseLadderPrepared == << <<"PreparedRenew", JBD>>, <<"Uploaded", "UnloadPending">> >>
ReleaseLadderForgetful ==
    << <<"Ready", JBD>>, <<"Unloaded", JBD>>, <<"Unavailable", JBD>>, <<"Uploaded", "UnloadPending">> >>
ReleaseLadderHasty == << <<"ProcessingRequest", JBD>>, <<"Ready", JBD>> >>
ReleaseLadder ==
    << <<"Requested", JBD>>, <<"ProcessingRequest", RCWBP>>, <<"RequestedUpdate", "UnloadPending">>,
       <<"ProcessingUpdate", UCWBP>>, <<PUWR, UCWBP>>, <<"Ready", JBD>>, <<"Unloaded", JBD>>,
       <<"Uploaded", "UnloadPending">>, <<"Outdated", "UnloadPending">>,
       <<"PreparedRenew", "UnloadPending">>, <<"Unavailable", JBD>> >>

\* The release holds a collection's write lock while its filter runs, and the
\* storages lock from the first collection to the last.
Filtering == rel.pc \in {"filter", "climb", "look"}
StoragesLocked ==
    \/ rel.pc \in {"pass", "waitgpu"} \/ Filtering
    \/ rel.pc = "sync" /\ rel.ret # "run"

Idle == [pc |-> "none", aborted |-> FALSE, data |-> FALSE, ret |-> "none"]
NoSync == [pc |-> "none", list |-> {}, e |-> NoEntry]

Init ==
    /\ mode \in Modes
    /\ state \in {s \in [Entries -> UNION {InitialStates[e] : e \in Entries}] :
                    \A e \in Entries : /\ s[e] \in InitialStates[e]
                                       /\ mode.async => s[e] \notin {"Requested", "RequestedUpdate"}}
    /\ ent = [e \in Entries |-> [linked |-> state[e] # "Unknown", quiet |-> FALSE,
                                 gpu |-> state[e] \notin NotInGPU]]
    /\ req = [e \in Entries |->
                [Idle EXCEPT !.pc =
                    CASE state[e] \in {"Requested", "RequestedUpdate"} -> "queued"
                      [] state[e] \in Processing -> "serving"
                      [] OTHER -> "none"]]
    /\ rel = [pc |-> "run", todo |-> {}, e |-> NoEntry, i |-> 1, contained |-> FALSE,
              needs |-> FALSE, lost |-> FALSE, ret |-> "run"]
    /\ gw = [pc |-> IF mode.gpu THEN "test" ELSE "exited", taken |-> 0]
    /\ sync = NoSync
    /\ wk = "test"
    /\ flag = [requests |-> 0, suspended |-> FALSE, gpuAlive |-> mode.gpu, workerAlive |-> TRUE]

\* wakeAll() under the wake-up mutex: only a thread that sleeps notices.
WakeGpu == gw' = [gw EXCEPT !.pc = IF @ = "asleep" THEN "woken" ELSE @]

\* requestResourcesUploadOrUnload(). Of those a pass does not answer, requests beyond
\* the bound are not told apart; without a GPU worker they only invalidate the frame.
RequestSync ==
    /\ flag' = [flag EXCEPT !.requests =
                  IF mode.gpu /\ @ < MaxRequests + gw.taken THEN @ + 1 ELSE @]
    /\ WakeGpu

-----------------------------------------------------------------------------
(* syncResourcesInGPU(), in the GPU worker thread or in the render thread.     *)

\* safeGetAllResourcesCollections() takes the storages lock for reading, except in
\* the render thread; obtainResources() takes the lock of a collection.
CanCollect ==
    /\ IF mode.gpu THEN gw.pc = "sync" /\ ~StoragesLocked ELSE rel.pc = "sync"
    /\ ~Filtering

CollectUnload ==
    /\ sync.pc = "none" /\ CanCollect
    /\ sync' = [sync EXCEPT !.pc = "unload",
                            !.list = {e \in Linked : state[e] = "UnloadPending" /\ ~rel.lost}]
    /\ UNCHANGED <<state, ent, req, rel, gw, wk, flag>>

\* The render thread uploads at most one resource in each pass.
CollectUpload ==
    /\ sync.pc = "unload" /\ sync.list = {} /\ CanCollect
    /\ LET ready == {e \in Linked : Hits(UploadLadder, state[e]) /\ ~rel.lost} IN
       \E list \in SUBSET ready :
         /\ IF mode.gpu \/ ready = {} THEN list = ready ELSE Cardinality(list) = 1
         /\ sync' = [sync EXCEPT !.pc = "upload", !.list = list]
    /\ UNCHANGED <<state, ent, req, rel, gw, wk, flag>>

\* Each collected entry is claimed, unless its state moved or the context is lost.
Claim(e) ==
    /\ sync.pc \in {"unload", "upload"} /\ e \in sync.list
    /\ LET ladder == IF sync.pc = "unload" THEN << <<"UnloadPending", "Unloading">> >>
                                           ELSE UploadLadder IN
       IF Hits(ladder, state[e]) /\ ~rel.lost
         THEN /\ state' = [state EXCEPT ![e] = Climb(ladder, @)]
              /\ sync' = [sync EXCEPT !.pc = IF @ = "unload" THEN "unloading" ELSE "uploading",
                                      !.list = @ \ {e}, !.e = e]
         ELSE /\ sync' = [sync EXCEPT !.list = @ \ {e}]
              /\ UNCHANGED state
    /\ UNCHANGED <<ent, req, rel, gw, wk, flag>>

Unloaded ==
    /\ sync.pc = "unloading"
    /\ state' = [state EXCEPT ![sync.e] = "Unloaded"]
    /\ ent' = [ent EXCEPT ![sync.e].gpu = FALSE]
    /\ sync' = [sync EXCEPT !.pc = "unload", !.e = NoEntry]
    /\ UNCHANGED <<req, rel, gw, wk, flag>>

\* The upload succeeds or fails; an update under way may have been cancelled.
Uploaded ==
    /\ sync.pc = "uploading"
    /\ \E ok \in BOOLEAN :
         /\ state' = [state EXCEPT ![sync.e] =
                        Climb(IF ok THEN UploadedLadder("fresh") ELSE UploadFailedLadder, @)]
         /\ ent' = [ent EXCEPT ![sync.e].gpu = @ \/ ok]
    /\ sync' = [sync EXCEPT !.pc = "upload", !.e = NoEntry]
    /\ UNCHANGED <<req, rel, gw, wk, flag>>

SyncStep ==
    \/ CollectUnload \/ CollectUpload \/ Unloaded \/ Uploaded
    \/ \E e \in Entries : Claim(e)
Synced == sync.pc = "upload" /\ sync.list = {}

-----------------------------------------------------------------------------
(* gpuWorkerThreadProcedure() and processGpuWorker() in the GPU worker thread. *)

\* while (_gpuWorkerThreadIsAlive); the wait below has no predicate of its own.
GpuTest ==
    /\ gw.pc = "test"
    /\ gw' = [gw EXCEPT !.pc = IF flag.gpuAlive THEN "enter" ELSE "exited"]
    /\ UNCHANGED <<state, ent, req, rel, sync, wk, flag>>

GpuSleep ==
    /\ gw.pc = "enter"
    /\ gw' = [gw EXCEPT !.pc = "asleep"]
    /\ UNCHANGED <<state, ent, req, rel, sync, wk, flag>>

\* Awake and still alive, it takes _gpuWorkerThreadActiveMutex for what follows.
GpuAwake ==
    /\ gw.pc = "woken"
    /\ gw' = CASE ~flag.gpuAlive -> [gw EXCEPT !.pc = "exited"]
                [] flag.gpuAlive /\ flag.suspended -> [gw EXCEPT !.pc = "test"]
                [] OTHER -> [gw EXCEPT !.pc = "sync", !.taken = flag.requests]
    /\ UNCHANGED <<state, ent, req, rel, sync, wk, flag>>

\* Requests counted before the pass are done with, later ones need another pass.
\* A faulty variant: requests are counted once, before the first pass.
GpuCountOnce ==
    /\ gw.pc = "sync" /\ Synced
    /\ sync' = NoSync
    /\ flag' = [flag EXCEPT !.requests = @ - gw.taken]
    /\ gw' = IF flag.gpuAlive /\ flag'.requests > 0 THEN [gw EXCEPT !.taken = @ + flag'.requests]
                                                    ELSE [gw EXCEPT !.pc = "test", !.taken = 0]
    /\ UNCHANGED <<state, ent, req, rel, wk>>
GpuCount ==
    /\ gw.pc = "sync" /\ Synced
    /\ sync' = NoSync
    /\ flag' = [flag EXCEPT !.requests = @ - gw.taken]
    /\ gw' = IF flag.gpuAlive /\ flag'.requests > 0 THEN [gw EXCEPT !.taken = flag'.requests]
                                                    ELSE [gw EXCEPT !.pc = "test", !.taken = 0]
    /\ UNCHANGED <<state, ent, req, rel, wk>>

GpuWorker == GpuTest \/ GpuSleep \/ GpuAwake \/ GpuCount \/ (mode.gpu /\ SyncStep)
HoldsActive == gw.pc = "sync" \/ (rel.pc = "sync" /\ rel.ret = "run")

-----------------------------------------------------------------------------
(* The resources worker thread; its updates are those of RendererResources.    *)

WorkerTest ==
    /\ wk = "test"
    /\ wk' = IF flag.workerAlive THEN "enter" ELSE "exited"
    /\ UNCHANGED <<state, ent, req, rel, gw, sync, flag>>

WorkerSleep ==
    /\ wk = "enter"
    /\ wk' = "asleep"
    /\ UNCHANGED <<state, ent, req, rel, gw, sync, flag>>

\* An update that moved entries to or from the GPU asks for a pass.
WorkerUpdate ==
    /\ wk = "woken"
    /\ \/ ~flag.workerAlive /\ wk' = "exited" /\ UNCHANGED <<gw, flag>>
       \/ flag.workerAlive /\ wk' = "test" /\ (RequestSync \/ UNCHANGED <<gw, flag>>)
    /\ UNCHANGED <<state, ent, req, rel, sync>>

Worker == WorkerTest \/ WorkerSleep \/ WorkerUpdate

-----------------------------------------------------------------------------
(* Requests: tasks of the pool, or callbacks of an asynchronous provider.      *)

Request(e, pc) ==
    req' = [req EXCEPT ![e] = IF pc = "none" THEN Idle ELSE [@ EXCEPT !.pc = pc]]

StartTask(e) ==
    /\ req[e].pc = "queued"
    /\ state' = [state EXCEPT ![e] = Climb(BeginLadder, @)]
    /\ Request(e, IF Hits(BeginLadder, state[e]) THEN "serving" ELSE "post")
    /\ UNCHANGED <<ent, rel, gw, sync, wk, flag>>

\* endResourceRequestProcessing() of a request that succeeded, with or without data.
Answer(e) ==
    /\ req[e].pc = "serving"
    /\ \E data \in BOOLEAN :
         /\ state' = [state EXCEPT ![e] = Climb(EndLadder(data), @)]
         /\ req' = [req EXCEPT ![e].data = data,
                      ![e].pc = IF Hits(EndLadder(data), state[e]) THEN "ended" ELSE "cancel"]
    /\ UNCHANGED <<ent, rel, gw, sync, wk, flag>>

\* ... and of one that failed: what was never shown is removed.
AnswerFailed(e) ==
    /\ req[e].pc = "serving"
    /\ state' = [state EXCEPT ![e] = Climb(EndFailedLadder, @)]
    /\ req' = [req EXCEPT ![e].data = state[e] = UCWBP, ![e].ret = "ended",
                 ![e].pc = IF Hits(EndFailedLadder, state[e]) THEN "ended" ELSE "remove"]
    /\ UNCHANGED <<ent, rel, gw, sync, wk, flag>>

\* An asynchronous provider found the tile cached at another zoom: the request goes
\* on, and the cached tile becomes an entry of its own, whatever happened since.
AnswerScaled(e) ==
    /\ mode.async /\ req[e].pc = "serving" /\ ~req[e].aborted /\ ent[e].linked
    /\ state[e] \in {"ProcessingRequest", "ProcessingUpdate", PUWR}
    /\ Request(e, "scaled")
    /\ UNCHANGED <<state, ent, rel, gw, sync, wk, flag>>

AllocateScaled(e, f) ==
    /\ req[e].pc = "scaled" /\ ~Filtering
    /\ IF state[f] = "Unknown"
         THEN /\ state' = [state EXCEPT ![f] = "Ready"]
              /\ ent' = [ent EXCEPT ![f].linked = TRUE]
         ELSE UNCHANGED <<state, ent>>
    /\ RequestSync
    /\ Request(e, "serving")
    /\ UNCHANGED <<rel, sync, wk>>

\* if (!leaveQuietly) ... reads the flag, and uses the renderer after that.
LookQuiet(e) ==
    /\ req[e].pc = "ended"
    /\ Request(e, IF ent[e].quiet THEN "post" ELSE "notify")
    /\ UNCHANGED <<state, ent, rel, gw, sync, wk, flag>>

Notify(e) ==
    /\ req[e].pc = "notify"
    /\ IF req[e].data THEN RequestSync ELSE UNCHANGED <<gw, flag>>
    /\ Request(e, "post")
    /\ UNCHANGED <<state, ent, rel, sync, wk>>

Post(e) ==
    /\ req[e].pc = "post"
    /\ Request(e, IF req[e].aborted THEN "cancel" ELSE "none")
    /\ UNCHANGED <<state, ent, rel, gw, sync, wk, flag>>

\* processResourceRequestCancellation()
Cancel(e) ==
    /\ req[e].pc = "cancel"
    /\ state' = [state EXCEPT ![e] = Climb(CancelLadder, @)]
    /\ req' = [req EXCEPT ![e] = IF Hits(CancelLadder, state[e]) /\ state'[e] = JBD
                                  THEN [Idle EXCEPT !.pc = "remove"] ELSE Idle]
    /\ UNCHANGED <<ent, rel, gw, sync, wk, flag>>

Remove(e) ==
    /\ req[e].pc = "remove" /\ ~Filtering
    /\ ent' = [ent EXCEPT ![e].linked = FALSE]
    /\ Request(e, req[e].ret)
    /\ UNCHANGED <<state, rel, gw, sync, wk, flag>>

RequestStep(e) ==
    \/ StartTask(e) \/ Answer(e) \/ AnswerFailed(e) \/ AnswerScaled(e) \/ LookQuiet(e) \/ Notify(e)
    \/ Post(e) \/ Cancel(e) \/ Remove(e) \/ \E f \in Entries : AllocateScaled(e, f)

-----------------------------------------------------------------------------
(* The thread that renders: frames, then releaseRendering().                   *)

To(pc) == rel' = [rel EXCEPT !.pc = pc]

\* doUpdate() does the GPU worker's work when there is no such thread; a frame ends
\* with updateActiveZone(), which wakes the resources worker.
Frame ==
    /\ rel.pc = "run"
    /\ wk' = IF wk = "asleep" THEN "woken" ELSE wk
    /\ rel' = IF ~mode.gpu /\ ~flag.suspended THEN [rel EXCEPT !.pc = "sync", !.ret = "run"] ELSE rel
    /\ UNCHANGED <<state, ent, req, gw, sync, flag>>

SelfSynced ==
    /\ rel.pc = "sync" /\ ~mode.gpu /\ Synced
    /\ sync' = NoSync
    /\ To(rel.ret)
    /\ UNCHANGED <<state, ent, req, gw, wk, flag>>

StartRelease(lost) ==
    /\ rel.pc = "run"
    /\ rel' = [rel EXCEPT !.pc = IF mode.gpu THEN "post" ELSE "stop", !.lost = lost]
    /\ UNCHANGED <<state, ent, req, gw, sync, wk, flag>>

\* postReleaseRendering() waits for one GPU stage, but not for ever.
PostAndWait ==
    /\ \/ rel.pc = "post" /\ WakeGpu /\ To("wait")
       \/ rel.pc = "wait" /\ To("stop") /\ UNCHANGED gw
    /\ UNCHANGED <<state, ent, req, sync, wk, flag>>

\* stopWorkerThread(): the flag first, then the wake-up, then the join.
StopWorker ==
    /\ \/ /\ rel.pc = "stop" /\ To("wake")
          /\ flag' = [flag EXCEPT !.workerAlive = FALSE] /\ UNCHANGED wk
       \/ /\ rel.pc = "wake" /\ To("join")
          /\ wk' = (IF wk = "asleep" THEN "woken" ELSE wk) /\ UNCHANGED flag
       \/ /\ rel.pc = "join" /\ wk = "exited" /\ To("clear") /\ UNCHANGED <<wk, flag>>
    /\ UNCHANGED <<state, ent, req, gw, sync>>

\* dequeueAll() deletes the tasks the pool still has, waitForDone() waits for others.
DrainPool ==
    /\ \/ /\ rel.pc = "clear" /\ To("drain")
          /\ req' = [e \in Entries |-> IF req[e].pc = "queued" THEN Idle ELSE req[e]]
       \/ /\ rel.pc = "drain" /\ (mode.async \/ \A e \in Entries : req[e].pc = "none")
          /\ To("pass") /\ UNCHANGED req
    /\ UNCHANGED <<state, ent, gw, sync, wk, flag>>

\* blockingReleaseResourcesFrom(): removeResources() until nothing stays behind.
BeginPass ==
    /\ rel.pc = "pass"
    /\ rel' = [rel EXCEPT !.pc = "filter", !.todo = Linked, !.contained = FALSE]
    /\ UNCHANGED <<state, ent, req, gw, sync, wk, flag>>

FilterEntry(e) ==
    /\ rel.pc = "filter" /\ e \in rel.todo
    /\ ent' = [ent EXCEPT ![e].quiet = TRUE]
    /\ rel' = [rel EXCEPT !.pc = "climb", !.todo = @ \ {e}, !.e = e, !.i = 1]
    /\ UNCHANGED <<state, req, gw, sync, wk, flag>>

NextEntry == [rel EXCEPT !.pc = "filter", !.e = NoEntry, !.i = 1]
Dropped == [ent EXCEPT ![rel.e].linked = FALSE, ![rel.e].gpu = @ /\ ~rel.lost]

ClimbRelease ==
    /\ rel.pc = "climb"
    /\ LET rung == ReleaseLadder[rel.i]
           dropped == rung[2] = JBD \/ (rung[2] = "UnloadPending" /\ rel.lost)
       IN  IF state[rel.e] = rung[1]
             THEN /\ state' = [state EXCEPT ![rel.e] = rung[2]]
                  /\ req' = [req EXCEPT ![rel.e].aborted = @ \/ rung[2] = RCWBP]
                  /\ ent' = IF dropped THEN Dropped ELSE ent
                  /\ rel' = [NextEntry EXCEPT !.contained = @ \/ ~dropped,
                               !.needs = @ \/ (rung[2] = "UnloadPending" /\ ~rel.lost)]
             ELSE /\ rel' = IF rel.i < Len(ReleaseLadder) THEN [rel EXCEPT !.i = @ + 1]
                                                          ELSE [rel EXCEPT !.pc = "look"]
                  /\ UNCHANGED <<state, ent, req>>
    /\ UNCHANGED <<gw, sync, wk, flag>>

\* No rung was hit: another thread removes the entry, the context is lost, or the
\* GPU or the request has to go on first.
LookState ==
    /\ rel.pc = "look"
    /\ LET s == state[rel.e] IN
       IF s = JBD \/ rel.lost
         THEN /\ ent' = [Dropped EXCEPT ![rel.e].gpu = IF s = JBD THEN ent[rel.e].gpu ELSE FALSE]
              /\ rel' = NextEntry
         ELSE /\ rel' = [NextEntry EXCEPT !.contained = TRUE, !.needs = @ \/
                           s \in {"Uploading", "Renewing", "UnloadPending", "Unloading"}]
              /\ UNCHANGED ent
    /\ UNCHANGED <<state, req, gw, sync, wk, flag>>

\* What is left needs the GPU thread, or just another pass, or there is nothing left.
EndPass ==
    /\ rel.pc = "filter" /\ rel.todo = {}
    /\ \/ /\ rel.needs /\ mode.gpu /\ (rel.contained \/ ~rel.lost)
          /\ RequestSync
          /\ rel' = [rel EXCEPT !.pc = IF rel.contained THEN "waitgpu" ELSE "freed", !.needs = FALSE]
       \/ /\ rel.needs /\ ~mode.gpu /\ (rel.contained \/ ~rel.lost)
          /\ rel' = [rel EXCEPT !.pc = "sync", !.ret = IF rel.contained THEN "pass" ELSE "freed",
                                !.needs = @ /\ rel.contained]
          /\ UNCHANGED <<gw, flag>>
       \/ /\ ~rel.needs \/ (~rel.contained /\ rel.lost)
          /\ To(IF rel.contained THEN "pass" ELSE "freed")
          /\ UNCHANGED <<gw, flag>>
    /\ UNCHANGED <<state, ent, req, sync, wk>>

\* The GPU stage ran, or 250 ms have passed.
WaitGpu == rel.pc = "waitgpu" /\ To("pass") /\ UNCHANGED <<state, ent, req, gw, sync, wk, flag>>

\* The rest of postReleaseRendering(): the worker is resumed, stopped and joined.
StopGpu ==
    /\ \/ /\ rel.pc = "freed" /\ ~HoldsActive
          /\ flag' = [flag EXCEPT !.suspended = FALSE]
          /\ To(IF mode.gpu THEN "quit" ELSE "released") /\ UNCHANGED gw
       \/ /\ rel.pc = "quit" /\ To("quitwake")
          /\ flag' = [flag EXCEPT !.gpuAlive = FALSE] /\ UNCHANGED gw
       \/ rel.pc = "quitwake" /\ WakeGpu /\ To("quitjoin") /\ UNCHANGED flag
       \/ rel.pc = "quitjoin" /\ gw.pc = "exited" /\ To("released") /\ UNCHANGED <<gw, flag>>
    /\ UNCHANGED <<state, ent, req, sync, wk>>

Release ==
    \/ PostAndWait \/ StopWorker \/ DrainPool \/ BeginPass \/ ClimbRelease \/ LookState
    \/ EndPass \/ WaitGpu \/ StopGpu \/ SelfSynced
    \/ ~mode.gpu /\ SyncStep
    \/ \E e \in Entries : FilterEntry(e)

-----------------------------------------------------------------------------
(* The application suspends the GPU worker, and resumes it, from any thread.   *)

\* A faulty variant: the mutex of the active worker is not taken.
SuspendUnlocked ==
    /\ mode.suspend /\ rel.pc # "released"
    /\ flag' = [flag EXCEPT !.suspended = TRUE]
    /\ UNCHANGED <<state, ent, req, rel, gw, sync, wk>>
Suspend ==
    /\ mode.suspend /\ rel.pc # "released" /\ ~flag.suspended /\ ~HoldsActive
    /\ flag' = [flag EXCEPT !.suspended = TRUE]
    /\ UNCHANGED <<state, ent, req, rel, gw, sync, wk>>

Resume ==
    /\ flag.suspended
    /\ flag' = [flag EXCEPT !.suspended = FALSE]
    /\ WakeGpu
    /\ UNCHANGED <<state, ent, req, rel, sync, wk>>

Next ==
    /\ UNCHANGED mode
    /\ \/ GpuWorker \/ Worker \/ Frame \/ Release \/ Suspend \/ Resume
       \/ \E lost \in BOOLEAN : StartRelease(lost)
       \/ \E e \in Entries : RequestStep(e)

Spec == Init /\ [][Next]_vars

\* Threads run; requests are answered; who waits for a lock that is free again and
\* again gets it. Nothing says that frames go on, or when rendering is released.
Fairness ==
    /\ WF_vars(GpuWorker /\ UNCHANGED mode)
    /\ WF_vars(Worker /\ UNCHANGED mode)
    /\ WF_vars(Release /\ UNCHANGED mode)
    /\ SF_vars((\E e \in Entries : RequestStep(e)) /\ UNCHANGED mode)

FairSpec == Spec /\ Fairness

-----------------------------------------------------------------------------
(* Properties *)

ReqPc == {"none", "queued", "serving", "scaled", "ended", "notify", "post", "cancel", "remove"}
RelPc == {"run", "sync", "post", "wait", "stop", "wake", "join", "clear", "drain", "pass", "filter",
          "climb", "look", "waitgpu", "freed", "quit", "quitwake", "quitjoin", "released"}

\* Every variable has its type.
TypeOK ==
    /\ mode \in Modes
    /\ state \in [Entries -> ResourceState]
    /\ ent \in [Entries -> [linked : BOOLEAN, quiet : BOOLEAN, gpu : BOOLEAN]]
    /\ req \in [Entries -> [pc : ReqPc, aborted : BOOLEAN, data : BOOLEAN, ret : {"none", "ended"}]]
    /\ rel \in [pc : RelPc, todo : SUBSET Entries, e : Entries \cup {NoEntry}, i : Nat,
                contained : BOOLEAN, needs : BOOLEAN, lost : BOOLEAN, ret : {"run", "pass", "freed"}]
    /\ gw \in [pc : {"test", "enter", "asleep", "woken", "sync", "exited"},
               taken : 0..MaxRequests]
    /\ sync \in [pc : {"none", "unload", "unloading", "upload", "uploading"},
                 list : SUBSET Entries, e : Entries \cup {NoEntry}]
    /\ wk \in {"test", "enter", "asleep", "woken", "exited"}
    /\ flag \in [requests : 0..(2 * MaxRequests), suspended : BOOLEAN, gpuAlive : BOOLEAN,
                 workerAlive : BOOLEAN]

Freed == rel.pc \in {"freed", "quit", "quitwake", "quitjoin", "released"}

\* "GPU worker should not be suspended afterwards": suspendGpuWorker() returns when
\* no pass is under way, and none starts until resumeGpuWorker() or the release
\* (which syncs on its own account when there is no GPU worker).
SuspendedIsIdle == flag.suspended => ~HoldsActive

\* assert(collection->getResourcesCount() == 0), at the end of the release and in
\* ~MapRendererResourcesManager(): once a release with a working context has emptied
\* the collections, they stay empty, and nothing was removed with data in the GPU.
ReleasedClean ==
    ~rel.lost => /\ Freed => Linked = {}
                 /\ \A e \in Entries : ent[e].gpu => ent[e].linked

\* A release with a working context waits for every request: none still computes
\* data for a resource of a manager that is being destroyed.
ReleaseAwaitsRequests ==
    Freed /\ ~rel.lost => \A e \in Entries : req[e].pc \notin {"serving", "scaled"}

\* "So wait here until all resources will be unloaded from GPU": without a GPU
\* worker, or when the context is lost, the release of the resources ends.
ReleaseFrees == (rel.pc = "drain" /\ (rel.lost \/ ~mode.gpu)) ~> Freed

\* The same comment, for the GPU worker: what the release waits for is unloaded.
ReleaseUnloads ==
    \A e \in Entries : (rel.pc = "waitgpu" /\ state[e] = "UnloadPending")
                         ~> (state[e] # "UnloadPending")

=============================================================================
