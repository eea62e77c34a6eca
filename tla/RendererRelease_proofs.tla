---------------------- MODULE RendererRelease_proofs ----------------------
(* Proofs that the threads of RendererRelease keep their types, that no pass   *)
(* over the GPU's resources is under way while the worker is suspended, and    *)
(* that a release with a working context ends with empty collections, leaves   *)
(* nothing in the GPU and has waited for every request, for any number of      *)
(* entries, any set-up and any bound on the counted requests.                  *)
EXTENDS RendererRelease, TLAPS

USE DEF RCWBP, PUWR, UCWBP, JBD

Thread == {"test", "enter", "asleep", "woken", "exited"}
EntryType == [linked : BOOLEAN, quiet : BOOLEAN, gpu : BOOLEAN]
RequestType == [pc : ReqPc, aborted : BOOLEAN, data : BOOLEAN, ret : {"none", "ended"}]
RelType == [pc : RelPc, todo : SUBSET Entries, e : Entries \cup {NoEntry}, i : Nat,
            contained : BOOLEAN, needs : BOOLEAN, lost : BOOLEAN, ret : {"run", "pass", "freed"}]
GpuType == [pc : Thread \cup {"sync"}, taken : 0..MaxRequests]
SyncType == [pc : {"none", "unload", "unloading", "upload", "uploading"},
             list : SUBSET Entries, e : Entries \cup {NoEntry}]
FlagType == [requests : 0..(2 * MaxRequests), suspended : BOOLEAN, gpuAlive : BOOLEAN,
             workerAlive : BOOLEAN]

-----------------------------------------------------------------------------
(* The inductive invariant.                                                    *)

EntriesOK ==
    /\ mode \in Modes
    /\ state \in [Entries -> ResourceState]
    /\ ent \in [Entries -> EntryType]
    /\ req \in [Entries -> RequestType]

\* The release that climbs its ladder is on one of its rungs, for an entry.
RelOK ==
    /\ rel \in RelType
    /\ rel.pc \in {"climb", "look"} => rel.e \in Entries
    /\ rel.pc = "climb" => rel.i \in 1..11

SyncOK ==
    /\ sync \in SyncType
    /\ sync.pc \in {"unloading", "uploading"} => sync.e \in Entries

WorkerOK == wk \in Thread

\* A frame of the render thread does the GPU worker's work.
FramePass == rel.pc = "sync" /\ rel.ret = "run"

\* The GPU worker has taken no more requests than were counted, and only for a pass;
\* a pass, which holds the mutex of the active worker, excludes suspension.
GpuOK ==
    /\ gw \in GpuType /\ flag \in FlagType
    /\ gw.taken <= flag.requests /\ flag.requests <= MaxRequests + gw.taken
    /\ gw.pc # "sync" => gw.taken = 0
    /\ flag.suspended => gw.pc # "sync" /\ ~FramePass

IInv == EntriesOK /\ RelOK /\ SyncOK /\ WorkerOK /\ GpuOK

-----------------------------------------------------------------------------
(* The operators that several actions use.                                     *)

\* Climbing a ladder of resource states from a resource state ends in one.
Rungs(ladder) == \A i \in DOMAIN ladder : ladder[i][2] \in ResourceState

LEMMA ClimbType ==
    ASSUME NEW ladder, Rungs(ladder), NEW s \in ResourceState
    PROVE  Climb(ladder, s) \in ResourceState
<1>1. CASE Hits(ladder, s)
  <2> DEFINE i == CHOOSE i \in DOMAIN ladder : ladder[i][1] = s
  <2>1. i \in DOMAIN ladder
    BY <1>1 DEF Hits
  <2>2. Climb(ladder, s) = ladder[i][2]
    BY <1>1 DEF Climb
  <2>3. QED
    BY <2>1, <2>2 DEF Rungs
<1>2. CASE ~Hits(ladder, s)
  BY <1>2 DEF Climb
<1>3. QED
  BY <1>1, <1>2

LEMMA LadderRungs ==
    /\ Rungs(BeginLadder) /\ Rungs(EndFailedLadder) /\ Rungs(CancelLadder)
    /\ Rungs(UploadLadder) /\ Rungs(UploadFailedLadder) /\ Rungs(UploadedLadder("fresh"))
    /\ Rungs(<< <<"UnloadPending", "Unloading">> >>)
    /\ \A data \in BOOLEAN : Rungs(EndLadder(data))
BY DEF Rungs, BeginLadder, EndLadder, EndFailedLadder, CancelLadder, UploadLadder,
       UploadFailedLadder, UploadedLadder, ResourceState

LEMMA ReleaseRungs ==
    Len(ReleaseLadder) = 11 /\ \A i \in 1..11 : ReleaseLadder[i][2] \in ResourceState
BY DEF ReleaseLadder, ResourceState

LEMMA InitTypes ==
    /\ Idle \in RequestType /\ NoSync \in SyncType
BY DEF Idle, RequestType, ReqPc, NoSync, SyncType

\* Requests are counted and the GPU worker is woken, with no pass begun thereby.
LEMMA RequestSyncKeeps ==
    ASSUME GpuOK, RequestSync, FramePass' => FramePass
    PROVE  GpuOK'
<1>1. MaxRequests \in Nat
  BY BoundsAssumption
<1>2. gw' \in GpuType /\ gw'.taken = gw.taken /\ (gw'.pc = "sync" <=> gw.pc = "sync")
  BY DEF GpuOK, RequestSync, WakeGpu, GpuType, Thread
<1>3. /\ flag' \in FlagType /\ flag'.suspended = flag.suspended
      /\ flag'.requests \in {flag.requests, flag.requests + 1}
      /\ flag'.requests <= MaxRequests + gw.taken
  BY <1>1 DEF GpuOK, RequestSync, FlagType, GpuType
<1>4. QED
  BY <1>1, <1>2, <1>3 DEF GpuOK, FlagType, GpuType

LEMMA WakeKeeps ==
    ASSUME GpuOK, WakeGpu, flag' = flag, FramePass' => FramePass
    PROVE  GpuOK'
BY DEF GpuOK, WakeGpu, GpuType, Thread

LEMMA GpuFrame ==
    ASSUME GpuOK, UNCHANGED <<gw, flag>>, FramePass' => FramePass
    PROVE  GpuOK'
BY DEF GpuOK

-----------------------------------------------------------------------------
(* The passes over the GPU's resources.                                        *)

LEMMA CollectUnloadKeeps == ASSUME IInv, mode' = mode, CollectUnload PROVE IInv'
<1>1. EntriesOK' /\ RelOK' /\ WorkerOK'
  BY DEF IInv, CollectUnload, EntriesOK, RelOK, WorkerOK
<1>2. SyncOK'
  BY DEF IInv, CollectUnload, SyncOK, SyncType, Linked
<1>3. GpuOK'
  BY GpuFrame DEF IInv, CollectUnload, FramePass
<1>4. QED
  BY <1>1, <1>2, <1>3 DEF IInv

LEMMA CollectUploadKeeps == ASSUME IInv, mode' = mode, CollectUpload PROVE IInv'
<1>1. EntriesOK' /\ RelOK' /\ WorkerOK'
  BY DEF IInv, CollectUpload, EntriesOK, RelOK, WorkerOK
<1>2. PICK list \in SUBSET Linked : sync' = [sync EXCEPT !.pc = "upload", !.list = list]
  BY DEF CollectUpload
<1>3. SyncOK'
  BY <1>2 DEF IInv, SyncOK, SyncType, Linked
<1>4. GpuOK'
  BY GpuFrame DEF IInv, CollectUpload, FramePass
<1>5. QED
  BY <1>1, <1>3, <1>4 DEF IInv

LEMMA ClaimKeeps == ASSUME IInv, mode' = mode, NEW e \in Entries, Claim(e) PROVE IInv'
<1>1. RelOK' /\ WorkerOK'
  BY DEF IInv, Claim, RelOK, WorkerOK
<1>2. EntriesOK'
  <2> DEFINE ladder == IF sync.pc = "unload" THEN << <<"UnloadPending", "Unloading">> >>
                                             ELSE UploadLadder
  <2>1. Rungs(ladder)
    BY LadderRungs
  <2>2. Climb(ladder, state[e]) \in ResourceState
    BY <2>1, ClimbType DEF IInv, EntriesOK
  <2>3. state' = state \/ state' = [state EXCEPT ![e] = Climb(ladder, @)]
    BY DEF Claim
  <2>4. state' \in [Entries -> ResourceState]
    BY <2>2, <2>3 DEF IInv, EntriesOK
  <2>5. QED
    BY <2>4 DEF IInv, EntriesOK, Claim
<1>3. SyncOK'
  <2>1. \/ \E pc \in {"unloading", "uploading"} :
             sync' = [sync EXCEPT !.pc = pc, !.list = @ \ {e}, !.e = e]
        \/ sync' = [sync EXCEPT !.list = @ \ {e}]
    BY DEF Claim
  <2>2. sync \in SyncType /\ sync.pc \in {"unload", "upload"}
    BY DEF IInv, SyncOK, Claim
  <2>3. QED
    BY <2>1, <2>2 DEF SyncOK, SyncType
<1>4. GpuOK'
  BY GpuFrame DEF IInv, Claim, FramePass
<1>5. QED
  BY <1>1, <1>2, <1>3, <1>4 DEF IInv

LEMMA UnloadedKeeps == ASSUME IInv, mode' = mode, Unloaded PROVE IInv'
<1>1. RelOK' /\ WorkerOK'
  BY DEF IInv, Unloaded, RelOK, WorkerOK
<1>2. state' \in [Entries -> ResourceState]
  BY DEF IInv, Unloaded, EntriesOK, ResourceState
<1>3. ent' \in [Entries -> EntryType]
  BY DEF IInv, Unloaded, EntriesOK, EntryType
<1>4. EntriesOK'
  BY <1>2, <1>3 DEF IInv, Unloaded, EntriesOK
<1>5. SyncOK'
  BY DEF IInv, Unloaded, SyncOK, SyncType
<1>6. GpuOK'
  BY GpuFrame DEF IInv, Unloaded, FramePass
<1>7. QED
  BY <1>1, <1>4, <1>5, <1>6 DEF IInv

LEMMA UploadedKeeps == ASSUME IInv, mode' = mode, Uploaded PROVE IInv'
<1>1. RelOK' /\ WorkerOK'
  BY DEF IInv, Uploaded, RelOK, WorkerOK
<1>2. PICK ok \in BOOLEAN :
        /\ state' = [state EXCEPT ![sync.e] =
                       Climb(IF ok THEN UploadedLadder("fresh") ELSE UploadFailedLadder, @)]
        /\ ent' = [ent EXCEPT ![sync.e].gpu = @ \/ ok]
  BY DEF Uploaded
<1>3. state' \in [Entries -> ResourceState]
  <2> DEFINE ladder == IF ok THEN UploadedLadder("fresh") ELSE UploadFailedLadder
  <2>1. Rungs(ladder)
    BY LadderRungs
  <2>2. sync.e \in Entries /\ state[sync.e] \in ResourceState
    BY DEF IInv, Uploaded, SyncOK, EntriesOK
  <2>3. Climb(ladder, state[sync.e]) \in ResourceState
    BY <2>1, <2>2, ClimbType
  <2>4. QED
    BY <1>2, <2>3 DEF IInv, EntriesOK
<1>4. ent' \in [Entries -> EntryType]
  <2> DEFINE gpu == ent[sync.e].gpu \/ ok
  <2>1. gpu \in BOOLEAN
    OBVIOUS
  <2>2. ent' = [ent EXCEPT ![sync.e].gpu = gpu]
    BY <1>2
  <2> HIDE DEF gpu
  <2>3. QED
    BY <2>1, <2>2 DEF IInv, EntriesOK, EntryType
<1>5. EntriesOK'
  BY <1>3, <1>4 DEF IInv, Uploaded, EntriesOK
<1>6. SyncOK'
  BY DEF IInv, Uploaded, SyncOK, SyncType
<1>7. GpuOK'
  BY GpuFrame DEF IInv, Uploaded, FramePass
<1>8. QED
  BY <1>1, <1>5, <1>6, <1>7 DEF IInv

LEMMA SyncStepKeeps == ASSUME IInv, mode' = mode, SyncStep PROVE IInv'
BY CollectUnloadKeeps, CollectUploadKeeps, ClaimKeeps, UnloadedKeeps, UploadedKeeps DEF SyncStep

-----------------------------------------------------------------------------
(* The GPU worker thread and the resources worker thread.                      *)

LEMMA GpuTestKeeps == ASSUME IInv, mode' = mode, GpuTest PROVE IInv'
<1>1. EntriesOK' /\ RelOK' /\ SyncOK' /\ WorkerOK'
  BY DEF IInv, GpuTest, EntriesOK, RelOK, SyncOK, WorkerOK
<1>2. GpuOK'
  BY DEF IInv, GpuTest, GpuOK, GpuType, Thread, FramePass
<1>3. QED
  BY <1>1, <1>2 DEF IInv

LEMMA GpuSleepKeeps == ASSUME IInv, mode' = mode, GpuSleep PROVE IInv'
<1>1. EntriesOK' /\ RelOK' /\ SyncOK' /\ WorkerOK'
  BY DEF IInv, GpuSleep, EntriesOK, RelOK, SyncOK, WorkerOK
<1>2. GpuOK'
  BY DEF IInv, GpuSleep, GpuOK, GpuType, Thread, FramePass
<1>3. QED
  BY <1>1, <1>2 DEF IInv

\* A pass begins only when the worker is not suspended, with what is counted so far.
LEMMA GpuAwakeKeeps == ASSUME IInv, mode' = mode, GpuAwake PROVE IInv'
<1>1. EntriesOK' /\ RelOK' /\ SyncOK' /\ WorkerOK'
  BY DEF IInv, GpuAwake, EntriesOK, RelOK, SyncOK, WorkerOK
<1>2. MaxRequests \in Nat
  BY BoundsAssumption
<1>3. gw \in GpuType /\ gw.taken = 0 /\ flag \in FlagType
  BY DEF IInv, GpuAwake, GpuOK
<1>4. flag.requests \in 0..MaxRequests
  BY <1>2, <1>3 DEF IInv, GpuOK, FlagType
<1>5. CASE ~flag.gpuAlive \/ flag.suspended
  <2>1. gw' = [gw EXCEPT !.pc = "exited"] \/ gw' = [gw EXCEPT !.pc = "test"]
    BY <1>3, <1>5 DEF GpuAwake, FlagType
  <2>2. GpuOK'
    BY <1>3, <2>1 DEF IInv, GpuAwake, GpuOK, GpuType, Thread, FramePass
  <2>3. QED
    BY <1>1, <2>2 DEF IInv
<1>6. CASE flag.gpuAlive /\ ~flag.suspended
  <2>1. gw' = [gw EXCEPT !.pc = "sync", !.taken = flag.requests]
    BY <1>3, <1>6 DEF GpuAwake, FlagType
  <2>2. gw' \in GpuType /\ gw'.taken = flag.requests /\ gw'.pc = "sync" /\ flag' = flag
    BY <1>3, <1>4, <2>1 DEF GpuType, GpuAwake
  <2>3. flag'.requests <= MaxRequests + gw'.taken /\ gw'.taken <= flag'.requests
    BY <1>2, <1>4, <2>2
  <2>4. GpuOK'
    BY <1>3, <1>6, <2>2, <2>3 DEF GpuOK
  <2>5. QED
    BY <1>1, <2>4 DEF IInv
<1>7. QED
  BY <1>5, <1>6

\* What is left to count after a pass stays within the bound.
LEMMA GpuCountKeeps == ASSUME IInv, mode' = mode, GpuCount PROVE IInv'
<1>1. EntriesOK' /\ RelOK' /\ SyncOK' /\ WorkerOK'
  BY InitTypes DEF IInv, GpuCount, EntriesOK, RelOK, SyncOK, WorkerOK, NoSync
<1>2. MaxRequests \in Nat
  BY BoundsAssumption
<1>3. /\ gw \in GpuType /\ flag \in FlagType
      /\ flag.requests - gw.taken \in 0..MaxRequests
      /\ ~flag.suspended
  BY <1>2 DEF IInv, GpuCount, GpuOK, GpuType, FlagType
<1>4. /\ flag' \in FlagType /\ flag'.requests = flag.requests - gw.taken
      /\ flag'.suspended = flag.suspended
  BY <1>2, <1>3 DEF GpuCount, FlagType
<1>5. CASE flag.gpuAlive /\ flag'.requests > 0
  <2>1. gw' = [gw EXCEPT !.taken = flag'.requests]
    BY <1>5 DEF GpuCount
  <2>2. gw' \in GpuType /\ gw'.taken = flag'.requests /\ gw'.pc = "sync"
    BY <1>3, <1>4, <2>1 DEF GpuType, GpuCount
  <2>3. GpuOK'
    BY <1>2, <1>3, <1>4, <2>2 DEF GpuOK
  <2>4. QED
    BY <1>1, <2>3 DEF IInv
<1>6. CASE ~(flag.gpuAlive /\ flag'.requests > 0)
  <2>1. gw' = [gw EXCEPT !.pc = "test", !.taken = 0]
    BY <1>6 DEF GpuCount
  <2>2. gw' \in GpuType /\ gw'.taken = 0 /\ gw'.pc = "test"
    <3>1. gw \in GpuType /\ 0 \in 0..MaxRequests
      BY <1>2, <1>3
    <3>2. QED
      BY <2>1, <3>1 DEF GpuType, Thread
  <2>3. GpuOK'
    BY <1>2, <1>3, <1>4, <2>2 DEF GpuOK
  <2>4. QED
    BY <1>1, <2>3 DEF IInv
<1>7. QED
  BY <1>5, <1>6

LEMMA GpuWorkerKeeps == ASSUME IInv, mode' = mode, GpuWorker PROVE IInv'
BY GpuTestKeeps, GpuSleepKeeps, GpuAwakeKeeps, GpuCountKeeps, SyncStepKeeps DEF GpuWorker

LEMMA WorkerKeeps == ASSUME IInv, mode' = mode, Worker PROVE IInv'
<1>1. EntriesOK' /\ RelOK' /\ SyncOK' /\ FramePass' = FramePass
  BY DEF IInv, Worker, WorkerTest, WorkerSleep, WorkerUpdate, EntriesOK, RelOK, SyncOK, FramePass
<1>2. WorkerOK'
  BY DEF IInv, Worker, WorkerTest, WorkerSleep, WorkerUpdate, WorkerOK, Thread
<1>3. RequestSync \/ UNCHANGED <<gw, flag>>
  BY DEF Worker, WorkerTest, WorkerSleep, WorkerUpdate
<1>4. GpuOK'
  BY <1>1, <1>3, RequestSyncKeeps, GpuFrame DEF IInv
<1>5. QED
  BY <1>1, <1>2, <1>4 DEF IInv

-----------------------------------------------------------------------------
(* Requests.                                                                   *)

\* A step of a request changes entries, and asks for a pass at most.
LEMMA RequestAlone ==
    ASSUME IInv, mode' = mode, UNCHANGED <<rel, sync, wk>>, RequestSync \/ UNCHANGED <<gw, flag>>,
           state' \in [Entries -> ResourceState], ent' \in [Entries -> EntryType],
           req' \in [Entries -> RequestType]
    PROVE  IInv'
<1>1. RelOK' /\ SyncOK' /\ WorkerOK' /\ FramePass' = FramePass
  BY DEF IInv, RelOK, SyncOK, WorkerOK, FramePass
<1>2. GpuOK'
  BY <1>1, RequestSyncKeeps, GpuFrame DEF IInv
<1>3. QED
  BY <1>1, <1>2 DEF IInv, EntriesOK

\* Moving on keeps the type of the requests.
LEMMA RequestMoves ==
    ASSUME EntriesOK, NEW e \in Entries, NEW pc \in ReqPc, Request(e, pc)
    PROVE  req' \in [Entries -> RequestType]
<1>1. Idle \in RequestType /\ [req[e] EXCEPT !.pc = pc] \in RequestType
  BY InitTypes DEF EntriesOK, RequestType
<1>2. QED
  BY <1>1 DEF Request, EntriesOK

LEMMA StateClimbs ==
    ASSUME EntriesOK, NEW e \in Entries, NEW ladder, Rungs(ladder),
           state' = [state EXCEPT ![e] = Climb(ladder, @)]
    PROVE  state' \in [Entries -> ResourceState]
<1>1. Climb(ladder, state[e]) \in ResourceState
  BY ClimbType DEF EntriesOK
<1>2. QED
  BY <1>1 DEF EntriesOK

LEMMA StartTaskKeeps == ASSUME IInv, mode' = mode, NEW e \in Entries, StartTask(e) PROVE IInv'
<1>1. state' \in [Entries -> ResourceState]
  BY LadderRungs, StateClimbs DEF IInv, StartTask
<1>2. PICK pc \in ReqPc : Request(e, pc)
  <2>1. (IF Hits(BeginLadder, state[e]) THEN "serving" ELSE "post") \in ReqPc
    BY DEF ReqPc
  <2>2. QED
    BY <2>1 DEF StartTask
<1>3. req' \in [Entries -> RequestType]
  BY <1>2, RequestMoves DEF IInv
<1>4. QED
  BY <1>1, <1>3, RequestAlone DEF IInv, EntriesOK, StartTask

LEMMA AnswerKeeps == ASSUME IInv, mode' = mode, NEW e \in Entries, Answer(e) PROVE IInv'
<1>1. PICK data \in BOOLEAN :
        /\ state' = [state EXCEPT ![e] = Climb(EndLadder(data), @)]
        /\ req' = [req EXCEPT ![e].data = data,
                     ![e].pc = IF Hits(EndLadder(data), state[e]) THEN "ended" ELSE "cancel"]
  BY DEF Answer
<1>2. state' \in [Entries -> ResourceState]
  BY <1>1, LadderRungs, StateClimbs DEF IInv
<1>3. req' \in [Entries -> RequestType]
  <2> DEFINE pc == IF Hits(EndLadder(data), state[e]) THEN "ended" ELSE "cancel"
  <2>1. pc \in ReqPc
    BY DEF ReqPc
  <2>2. req' = [req EXCEPT ![e].data = data, ![e].pc = pc]
    BY <1>1
  <2> HIDE DEF pc
  <2>3. QED
    BY <2>1, <2>2 DEF IInv, EntriesOK, RequestType
<1>4. QED
  BY <1>2, <1>3, RequestAlone DEF IInv, EntriesOK, Answer

LEMMA AnswerFailedKeeps == ASSUME IInv, mode' = mode, NEW e \in Entries, AnswerFailed(e) PROVE IInv'
<1>1. state' \in [Entries -> ResourceState]
  BY LadderRungs, StateClimbs DEF IInv, AnswerFailed
<1>2. req' \in [Entries -> RequestType]
  <2> DEFINE pc == IF Hits(EndFailedLadder, state[e]) THEN "ended" ELSE "remove"
             data == state[e] = UCWBP
  <2>1. pc \in ReqPc /\ data \in BOOLEAN
    BY DEF ReqPc
  <2>2. req' = [req EXCEPT ![e].data = data, ![e].ret = "ended", ![e].pc = pc]
    BY DEF AnswerFailed
  <2> HIDE DEF pc, data
  <2>3. [req[e] EXCEPT !.data = data, !.ret = "ended", !.pc = pc] \in RequestType
    BY <2>1 DEF IInv, EntriesOK, RequestType
  <2>4. req' = [req EXCEPT ![e] = [req[e] EXCEPT !.data = data, !.ret = "ended", !.pc = pc]]
    BY <2>2 DEF IInv, EntriesOK
  <2>5. QED
    BY <2>3, <2>4 DEF IInv, EntriesOK
<1>3. QED
  BY <1>1, <1>2, RequestAlone DEF IInv, EntriesOK, AnswerFailed

LEMMA AnswerScaledKeeps == ASSUME IInv, mode' = mode, NEW e \in Entries, AnswerScaled(e) PROVE IInv'
<1>1. "scaled" \in ReqPc
  BY DEF ReqPc
<1>2. req' \in [Entries -> RequestType]
  BY <1>1, RequestMoves DEF IInv, AnswerScaled
<1>3. QED
  BY <1>2, RequestAlone DEF IInv, EntriesOK, AnswerScaled

LEMMA AllocateScaledKeeps ==
    ASSUME IInv, mode' = mode, NEW e \in Entries, NEW f \in Entries, AllocateScaled(e, f)
    PROVE  IInv'
<1>1. "serving" \in ReqPc
  BY DEF ReqPc
<1>2. req' \in [Entries -> RequestType]
  BY <1>1, RequestMoves DEF IInv, AllocateScaled
<1>3. state' \in [Entries -> ResourceState]
  BY DEF IInv, EntriesOK, AllocateScaled, ResourceState
<1>4. ent' \in [Entries -> EntryType]
  <2>1. ent' = ent \/ ent' = [ent EXCEPT ![f].linked = TRUE]
    BY DEF AllocateScaled
  <2>2. QED
    BY <2>1 DEF IInv, EntriesOK, EntryType
<1>5. QED
  BY <1>2, <1>3, <1>4, RequestAlone DEF AllocateScaled

LEMMA LookQuietKeeps == ASSUME IInv, mode' = mode, NEW e \in Entries, LookQuiet(e) PROVE IInv'
<1>1. PICK pc \in ReqPc : Request(e, pc)
  <2>1. (IF ent[e].quiet THEN "post" ELSE "notify") \in ReqPc
    BY DEF ReqPc
  <2>2. QED
    BY <2>1 DEF LookQuiet
<1>2. req' \in [Entries -> RequestType]
  BY <1>1, RequestMoves DEF IInv
<1>3. QED
  BY <1>2, RequestAlone DEF IInv, EntriesOK, LookQuiet

LEMMA NotifyKeeps == ASSUME IInv, mode' = mode, NEW e \in Entries, Notify(e) PROVE IInv'
<1>1. "post" \in ReqPc
  BY DEF ReqPc
<1>2. req' \in [Entries -> RequestType]
  BY <1>1, RequestMoves DEF IInv, Notify
<1>3. RequestSync \/ UNCHANGED <<gw, flag>>
  BY DEF Notify
<1>4. QED
  BY <1>2, <1>3, RequestAlone DEF IInv, EntriesOK, Notify

LEMMA PostKeeps == ASSUME IInv, mode' = mode, NEW e \in Entries, Post(e) PROVE IInv'
<1>1. PICK pc \in ReqPc : Request(e, pc)
  <2>1. (IF req[e].aborted THEN "cancel" ELSE "none") \in ReqPc
    BY DEF ReqPc
  <2>2. QED
    BY <2>1 DEF Post
<1>2. req' \in [Entries -> RequestType]
  BY <1>1, RequestMoves DEF IInv
<1>3. QED
  BY <1>2, RequestAlone DEF IInv, EntriesOK, Post

LEMMA CancelKeeps == ASSUME IInv, mode' = mode, NEW e \in Entries, Cancel(e) PROVE IInv'
<1>1. state' \in [Entries -> ResourceState]
  BY LadderRungs, StateClimbs DEF IInv, Cancel
<1>2. Idle \in RequestType /\ [Idle EXCEPT !.pc = "remove"] \in RequestType
  BY DEF Idle, RequestType, ReqPc
<1>3. req' \in [Entries -> RequestType]
  BY <1>2 DEF IInv, EntriesOK, Cancel
<1>4. QED
  BY <1>1, <1>3, RequestAlone DEF IInv, EntriesOK, Cancel

LEMMA RemoveKeeps == ASSUME IInv, mode' = mode, NEW e \in Entries, Remove(e) PROVE IInv'
<1>1. req[e].ret \in ReqPc
  BY DEF IInv, EntriesOK, RequestType, ReqPc
<1>2. req' \in [Entries -> RequestType]
  BY <1>1, RequestMoves DEF IInv, Remove
<1>3. ent' \in [Entries -> EntryType]
  BY DEF IInv, EntriesOK, Remove, EntryType
<1>4. QED
  BY <1>2, <1>3, RequestAlone DEF IInv, EntriesOK, Remove

LEMMA RequestStepKeeps == ASSUME IInv, mode' = mode, NEW e \in Entries, RequestStep(e) PROVE IInv'
BY StartTaskKeeps, AnswerKeeps, AnswerFailedKeeps, AnswerScaledKeeps, AllocateScaledKeeps,
   LookQuietKeeps, NotifyKeeps, PostKeeps, CancelKeeps, RemoveKeeps DEF RequestStep

-----------------------------------------------------------------------------
(* The thread that renders and releases.                                       *)

\* A step to another place of the release, which is not a pass of a frame.
LEMMA RelMoves ==
    ASSUME IInv, mode' = mode, NEW pc \in RelPc \ {"climb", "look"}, To(pc),
           pc = "sync" => rel.ret # "run"
    PROVE  RelOK' /\ (FramePass' => FramePass)
BY DEF IInv, To, RelOK, RelType, FramePass

LEMMA FrameKeeps == ASSUME IInv, mode' = mode, Frame PROVE IInv'
<1>1. EntriesOK' /\ SyncOK'
  BY DEF IInv, Frame, EntriesOK, SyncOK
<1>2. WorkerOK'
  BY DEF IInv, Frame, WorkerOK, Thread
<1>3. CASE ~mode.gpu /\ ~flag.suspended
  <2>1. rel' = [rel EXCEPT !.pc = "sync", !.ret = "run"]
    BY <1>3 DEF Frame
  <2>2. RelOK'
    BY <2>1 DEF IInv, RelOK, RelType, RelPc
  <2>3. GpuOK'
    BY <1>3 DEF IInv, Frame, GpuOK
  <2>4. QED
    BY <1>1, <1>2, <2>2, <2>3 DEF IInv
<1>4. CASE ~(~mode.gpu /\ ~flag.suspended)
  <2>1. rel' = rel
    BY <1>4 DEF Frame
  <2>2. RelOK' /\ GpuOK'
    BY <2>1, GpuFrame DEF IInv, Frame, RelOK, FramePass
  <2>3. QED
    BY <1>1, <1>2, <2>2 DEF IInv
<1>5. QED
  BY <1>3, <1>4

LEMMA SelfSyncedKeeps == ASSUME IInv, mode' = mode, SelfSynced PROVE IInv'
<1>1. EntriesOK' /\ SyncOK' /\ WorkerOK'
  BY InitTypes DEF IInv, SelfSynced, EntriesOK, SyncOK, WorkerOK, NoSync
<1>2. rel.ret \in RelPc \ {"climb", "look", "sync"}
  BY DEF IInv, RelOK, RelType, RelPc
<1>3. RelOK' /\ (FramePass' => FramePass)
  BY <1>2, RelMoves DEF SelfSynced
<1>4. QED
  BY <1>1, <1>3, GpuFrame DEF IInv, SelfSynced

LEMMA StartReleaseKeeps ==
    ASSUME IInv, mode' = mode, NEW lost \in BOOLEAN, StartRelease(lost)
    PROVE  IInv'
<1>1. EntriesOK' /\ SyncOK' /\ WorkerOK'
  BY DEF IInv, StartRelease, EntriesOK, SyncOK, WorkerOK
<1>2. PICK pc \in {"post", "stop"} : rel' = [rel EXCEPT !.pc = pc, !.lost = lost]
  BY DEF StartRelease
<1>3. rel' \in RelType
  <2>1. rel \in RelType /\ pc \in RelPc
    BY DEF IInv, RelOK, RelPc
  <2>2. QED
    BY <1>2, <2>1 DEF RelType
<1>4. rel'.pc = pc
  BY <1>2 DEF IInv, RelOK, RelType
<1>5. RelOK' /\ ~FramePass'
  BY <1>3, <1>4 DEF RelOK, FramePass
<1>6. QED
  BY <1>1, <1>5, GpuFrame DEF IInv, StartRelease

LEMMA PostAndWaitKeeps == ASSUME IInv, mode' = mode, PostAndWait PROVE IInv'
<1>1. EntriesOK' /\ SyncOK' /\ WorkerOK'
  BY DEF IInv, PostAndWait, EntriesOK, SyncOK, WorkerOK
<1>2. PICK pc \in RelPc \ {"climb", "look", "sync"} : To(pc)
  BY DEF PostAndWait, RelPc
<1>3. RelOK' /\ (FramePass' => FramePass)
  BY <1>2, RelMoves
<1>4. GpuOK'
  BY <1>3, WakeKeeps, GpuFrame DEF IInv, PostAndWait
<1>5. QED
  BY <1>1, <1>3, <1>4 DEF IInv

LEMMA StopWorkerKeeps == ASSUME IInv, mode' = mode, StopWorker PROVE IInv'
<1>1. EntriesOK' /\ SyncOK'
  BY DEF IInv, StopWorker, EntriesOK, SyncOK
<1>2. WorkerOK'
  BY DEF IInv, StopWorker, WorkerOK, Thread
<1>3. PICK pc \in RelPc \ {"climb", "look", "sync"} : To(pc)
  BY DEF StopWorker, RelPc
<1>4. RelOK' /\ (FramePass' => FramePass)
  BY <1>3, RelMoves
<1>5. gw' = gw /\ (flag' = flag \/ flag' = [flag EXCEPT !.workerAlive = FALSE])
  BY DEF StopWorker
<1>6. GpuOK'
  BY <1>4, <1>5 DEF IInv, GpuOK, FlagType
<1>7. QED
  BY <1>1, <1>2, <1>4, <1>6 DEF IInv

LEMMA DrainPoolKeeps == ASSUME IInv, mode' = mode, DrainPool PROVE IInv'
<1>1. SyncOK' /\ WorkerOK'
  BY DEF IInv, DrainPool, SyncOK, WorkerOK
<1>2. EntriesOK'
  <2>1. req' = req \/ req' = [e \in Entries |-> IF req[e].pc = "queued" THEN Idle ELSE req[e]]
    BY DEF DrainPool
  <2>2. req' \in [Entries -> RequestType]
    BY <2>1, InitTypes DEF IInv, EntriesOK
  <2>3. QED
    BY <2>2 DEF IInv, EntriesOK, DrainPool
<1>3. PICK pc \in RelPc \ {"climb", "look", "sync"} : To(pc)
  BY DEF DrainPool, RelPc
<1>4. RelOK' /\ (FramePass' => FramePass)
  BY <1>3, RelMoves
<1>5. QED
  BY <1>1, <1>2, <1>4, GpuFrame DEF IInv, DrainPool

LEMMA BeginPassKeeps == ASSUME IInv, mode' = mode, BeginPass PROVE IInv'
<1>1. EntriesOK' /\ SyncOK' /\ WorkerOK'
  BY DEF IInv, BeginPass, EntriesOK, SyncOK, WorkerOK
<1>2. RelOK' /\ (FramePass' => FramePass)
  BY DEF IInv, BeginPass, RelOK, RelType, RelPc, FramePass, Linked
<1>3. QED
  BY <1>1, <1>2, GpuFrame DEF IInv, BeginPass

LEMMA FilterEntryKeeps ==
    ASSUME IInv, mode' = mode, NEW e \in Entries, FilterEntry(e)
    PROVE  IInv'
<1>1. SyncOK' /\ WorkerOK'
  BY DEF IInv, FilterEntry, SyncOK, WorkerOK
<1>2. ent' \in [Entries -> EntryType]
  BY DEF IInv, FilterEntry, EntriesOK, EntryType
<1>3. EntriesOK'
  BY <1>2 DEF IInv, FilterEntry, EntriesOK
<1>4. RelOK' /\ ~FramePass'
  <2>1. rel \in RelType /\ "climb" \in RelPc /\ rel.todo \ {e} \in SUBSET Entries
    BY DEF IInv, RelOK, RelType, RelPc
  <2>2. rel' = [rel EXCEPT !.pc = "climb", !.todo = @ \ {e}, !.e = e, !.i = 1]
    BY DEF FilterEntry
  <2>3. rel' \in RelType
    BY <2>1, <2>2 DEF RelType
  <2>4. rel'.pc = "climb" /\ rel'.e = e /\ rel'.i = 1
    BY <2>1, <2>2 DEF RelType
  <2>5. QED
    BY <2>3, <2>4 DEF RelOK, FramePass
<1>5. QED
  BY <1>1, <1>3, <1>4, GpuFrame DEF IInv, FilterEntry

\* The end of a filter's work on an entry: the flags it collects stay flags.
LEMMA NextEntryOK ==
    ASSUME RelOK, NEW contained \in BOOLEAN, NEW needs \in BOOLEAN,
           rel' = [NextEntry EXCEPT !.contained = contained, !.needs = needs]
    PROVE  RelOK' /\ ~FramePass'
BY DEF RelOK, NextEntry, RelType, RelPc, FramePass

LEMMA DroppedOK ==
    ASSUME EntriesOK, RelOK, rel.e \in Entries
    PROVE  Dropped \in [Entries -> EntryType]
<1> DEFINE gpu == ent[rel.e].gpu /\ ~rel.lost
<1>1. gpu \in BOOLEAN
  OBVIOUS
<1>2. Dropped = [ent EXCEPT ![rel.e].linked = FALSE, ![rel.e].gpu = gpu]
  BY DEF Dropped, EntriesOK
<1> HIDE DEF gpu
<1>3. [ent[rel.e] EXCEPT !.linked = FALSE, !.gpu = gpu] \in EntryType
  BY <1>1 DEF EntriesOK, EntryType
<1>4. Dropped = [ent EXCEPT ![rel.e] = [ent[rel.e] EXCEPT !.linked = FALSE, !.gpu = gpu]]
  BY <1>2 DEF EntriesOK
<1>5. QED
  BY <1>3, <1>4 DEF EntriesOK

LEMMA ClimbReleaseKeeps == ASSUME IInv, mode' = mode, ClimbRelease PROVE IInv'
<1>1. SyncOK' /\ WorkerOK'
  BY DEF IInv, ClimbRelease, SyncOK, WorkerOK
<1>2. rel.e \in Entries /\ rel.i \in 1..11
  BY DEF IInv, RelOK, ClimbRelease
<1> DEFINE rung == ReleaseLadder[rel.i]
           dropped == rung[2] = JBD \/ (rung[2] = "UnloadPending" /\ rel.lost)
<1>3. CASE state[rel.e] = rung[1]
  <2>1. state' \in [Entries -> ResourceState]
    <3>1. rung[2] \in ResourceState
      BY <1>2, ReleaseRungs
    <3>2. state' = [state EXCEPT ![rel.e] = rung[2]]
      BY <1>3 DEF ClimbRelease
    <3>3. QED
      BY <3>1, <3>2 DEF IInv, EntriesOK
  <2>2. req' \in [Entries -> RequestType]
    <3> DEFINE aborted == req[rel.e].aborted \/ rung[2] = RCWBP
    <3>1. aborted \in BOOLEAN
      OBVIOUS
    <3>2. req' = [req EXCEPT ![rel.e].aborted = aborted]
      BY <1>3 DEF ClimbRelease
    <3> HIDE DEF aborted
    <3>3. QED
      BY <3>1, <3>2 DEF IInv, EntriesOK, RequestType
  <2>3. ent' \in [Entries -> EntryType]
    BY <1>2, <1>3, DroppedOK DEF IInv, ClimbRelease, EntriesOK
  <2>4. RelOK' /\ ~FramePass'
    <3> DEFINE contained == rel.contained \/ ~dropped
               needs == rel.needs \/ (rung[2] = "UnloadPending" /\ ~rel.lost)
    <3>1. contained \in BOOLEAN /\ needs \in BOOLEAN
      OBVIOUS
    <3>2. NextEntry.contained = rel.contained /\ NextEntry.needs = rel.needs
      BY DEF NextEntry, IInv, RelOK, RelType
    <3>3. rel' = [NextEntry EXCEPT !.contained = @ \/ ~dropped,
                    !.needs = @ \/ (rung[2] = "UnloadPending" /\ ~rel.lost)]
      BY <1>3 DEF ClimbRelease
    <3>4. rel' = [NextEntry EXCEPT !.contained = contained, !.needs = needs]
      BY <3>2, <3>3
    <3> HIDE DEF contained, needs
    <3>5. QED
      BY <3>1, <3>4, NextEntryOK DEF IInv
  <2>5. EntriesOK'
    BY <2>1, <2>2, <2>3 DEF IInv, EntriesOK
  <2>6. QED
    BY <1>1, <2>4, <2>5, GpuFrame DEF IInv, ClimbRelease
<1>4. CASE state[rel.e] # rung[1]
  <2>1. rel' = IF rel.i < 11 THEN [rel EXCEPT !.i = @ + 1] ELSE [rel EXCEPT !.pc = "look"]
    BY <1>4, ReleaseRungs DEF ClimbRelease
  <2>2. RelOK' /\ (FramePass' => FramePass)
    <3>1. CASE rel.i < 11
      BY <1>2, <2>1, <3>1 DEF IInv, RelOK, RelType, FramePass
    <3>2. CASE ~(rel.i < 11)
      BY <1>2, <2>1, <3>2 DEF IInv, RelOK, RelType, RelPc, FramePass
    <3>3. QED
      BY <3>1, <3>2
  <2>3. EntriesOK'
    BY <1>4 DEF IInv, ClimbRelease, EntriesOK
  <2>4. QED
    BY <1>1, <2>2, <2>3, GpuFrame DEF IInv, ClimbRelease
<1>5. QED
  BY <1>3, <1>4

LEMMA LookStateKeeps == ASSUME IInv, mode' = mode, LookState PROVE IInv'
<1>1. SyncOK' /\ WorkerOK'
  BY DEF IInv, LookState, SyncOK, WorkerOK
<1>2. rel.e \in Entries
  BY DEF IInv, RelOK, LookState
<1> DEFINE s == state[rel.e]
<1>3. CASE s = JBD \/ rel.lost
  <2> DEFINE gpu == IF s = JBD THEN ent[rel.e].gpu ELSE FALSE
  <2>1. gpu \in BOOLEAN
    BY <1>2 DEF IInv, EntriesOK, EntryType
  <2>2. ent' = [Dropped EXCEPT ![rel.e].gpu = gpu] /\ rel' = NextEntry
    BY <1>3 DEF LookState
  <2> HIDE DEF gpu
  <2>3. ent' \in [Entries -> EntryType]
    BY <1>2, <2>1, <2>2, DroppedOK DEF IInv, EntryType
  <2>4. EntriesOK'
    BY <2>3 DEF IInv, LookState, EntriesOK
  <2>5. RelOK' /\ ~FramePass'
    BY <2>2 DEF IInv, RelOK, NextEntry, RelType, RelPc, FramePass
  <2>6. QED
    BY <1>1, <2>4, <2>5, GpuFrame DEF IInv, LookState
<1>4. CASE ~(s = JBD \/ rel.lost)
  <2> DEFINE needs == rel.needs \/ s \in {"Uploading", "Renewing", "UnloadPending", "Unloading"}
  <2>1. needs \in BOOLEAN
    OBVIOUS
  <2>2. NextEntry.needs = rel.needs
    BY DEF NextEntry, IInv, RelOK, RelType
  <2>3. rel' = [NextEntry EXCEPT !.contained = TRUE, !.needs = needs]
    BY <1>4, <2>2 DEF LookState
  <2> HIDE DEF needs
  <2>4. RelOK' /\ ~FramePass'
    BY <2>1, <2>3, NextEntryOK DEF IInv
  <2>5. EntriesOK'
    BY <1>4 DEF IInv, LookState, EntriesOK
  <2>6. QED
    BY <1>1, <2>4, <2>5, GpuFrame DEF IInv, LookState
<1>5. QED
  BY <1>3, <1>4

LEMMA EndPassKeeps == ASSUME IInv, mode' = mode, EndPass PROVE IInv'
<1>1. EntriesOK' /\ SyncOK' /\ WorkerOK'
  BY DEF IInv, EndPass, EntriesOK, SyncOK, WorkerOK
<1>2. /\ RequestSync \/ UNCHANGED <<gw, flag>>
      /\ \/ \E pc \in {"waitgpu", "freed"} : rel' = [rel EXCEPT !.pc = pc, !.needs = FALSE]
         \/ \E ret \in {"pass", "freed"}, needs \in BOOLEAN :
              rel' = [rel EXCEPT !.pc = "sync", !.ret = ret, !.needs = needs]
         \/ \E pc \in {"pass", "freed"} : To(pc)
  <2>1. CASE rel.needs /\ mode.gpu /\ (rel.contained \/ ~rel.lost)
    BY <2>1 DEF EndPass
  <2>2. CASE rel.needs /\ ~mode.gpu /\ (rel.contained \/ ~rel.lost)
    <3> DEFINE ret == IF rel.contained THEN "pass" ELSE "freed"
               needs == rel.needs /\ rel.contained
    <3>1. ret \in {"pass", "freed"} /\ needs \in BOOLEAN
      OBVIOUS
    <3>2. UNCHANGED <<gw, flag>> /\ rel' = [rel EXCEPT !.pc = "sync", !.ret = ret, !.needs = needs]
      BY <2>2 DEF EndPass
    <3> HIDE DEF ret, needs
    <3>3. QED
      BY <3>1, <3>2
  <2>3. CASE ~rel.needs \/ (~rel.contained /\ rel.lost)
    BY <2>3 DEF EndPass
  <2>4. QED
    BY <2>1, <2>2, <2>3 DEF EndPass
<1>3. RelOK' /\ ~FramePass'
  <2>1. ASSUME NEW pc \in {"waitgpu", "freed"}, rel' = [rel EXCEPT !.pc = pc, !.needs = FALSE]
        PROVE  RelOK' /\ ~FramePass'
    BY <2>1 DEF IInv, RelOK, RelType, RelPc, FramePass
  <2>2. ASSUME NEW ret \in {"pass", "freed"}, NEW needs \in BOOLEAN,
               rel' = [rel EXCEPT !.pc = "sync", !.ret = ret, !.needs = needs]
        PROVE  RelOK' /\ ~FramePass'
    BY <2>2 DEF IInv, RelOK, RelType, RelPc, FramePass
  <2>3. ASSUME NEW pc \in {"pass", "freed"}, To(pc)
        PROVE  RelOK' /\ ~FramePass'
    BY <2>3 DEF IInv, To, RelOK, RelType, RelPc, FramePass
  <2>4. QED
    BY <1>2, <2>1, <2>2, <2>3
<1>4. GpuOK'
  BY <1>2, <1>3, RequestSyncKeeps, GpuFrame DEF IInv
<1>5. QED
  BY <1>1, <1>3, <1>4 DEF IInv

LEMMA WaitGpuKeeps == ASSUME IInv, mode' = mode, WaitGpu PROVE IInv'
<1>1. EntriesOK' /\ SyncOK' /\ WorkerOK'
  BY DEF IInv, WaitGpu, EntriesOK, SyncOK, WorkerOK
<1>2. "pass" \in RelPc \ {"climb", "look", "sync"}
  BY DEF RelPc
<1>3. RelOK' /\ (FramePass' => FramePass)
  BY <1>2, RelMoves DEF WaitGpu
<1>4. QED
  BY <1>1, <1>3, GpuFrame DEF IInv, WaitGpu

LEMMA StopGpuKeeps == ASSUME IInv, mode' = mode, StopGpu PROVE IInv'
<1>1. EntriesOK' /\ SyncOK' /\ WorkerOK'
  BY DEF IInv, StopGpu, EntriesOK, SyncOK, WorkerOK
<1>2. PICK pc \in RelPc \ {"climb", "look", "sync"} : To(pc)
  BY DEF StopGpu, RelPc
<1>3. RelOK' /\ (FramePass' => FramePass)
  BY <1>2, RelMoves
<1>4. GpuOK'
  <2>1. CASE WakeGpu /\ flag' = flag
    BY <1>3, <2>1, WakeKeeps DEF IInv
  <2>2. CASE /\ gw' = gw
             /\ \/ flag' = flag \/ flag' = [flag EXCEPT !.suspended = FALSE]
                \/ flag' = [flag EXCEPT !.gpuAlive = FALSE]
    BY <1>3, <2>2 DEF IInv, GpuOK, FlagType
  <2>3. QED
    BY <2>1, <2>2 DEF StopGpu
<1>5. QED
  BY <1>1, <1>3, <1>4 DEF IInv

LEMMA ReleaseKeeps == ASSUME IInv, mode' = mode, Release PROVE IInv'
BY PostAndWaitKeeps, StopWorkerKeeps, DrainPoolKeeps, BeginPassKeeps, ClimbReleaseKeeps,
   LookStateKeeps, EndPassKeeps, WaitGpuKeeps, StopGpuKeeps, SelfSyncedKeeps, SyncStepKeeps,
   FilterEntryKeeps DEF Release

-----------------------------------------------------------------------------
(* Suspension.                                                                 *)

\* Suspending waits for the mutex, which a pass would hold.
LEMMA SuspendKeeps == ASSUME IInv, mode' = mode, Suspend PROVE IInv'
<1>1. EntriesOK' /\ RelOK' /\ SyncOK' /\ WorkerOK'
  BY DEF IInv, Suspend, EntriesOK, RelOK, SyncOK, WorkerOK
<1>2. GpuOK'
  BY DEF IInv, Suspend, GpuOK, FlagType, HoldsActive, FramePass
<1>3. QED
  BY <1>1, <1>2 DEF IInv

LEMMA ResumeKeeps == ASSUME IInv, mode' = mode, Resume PROVE IInv'
<1>1. EntriesOK' /\ RelOK' /\ SyncOK' /\ WorkerOK'
  BY DEF IInv, Resume, EntriesOK, RelOK, SyncOK, WorkerOK
<1>2. GpuOK'
  BY DEF IInv, Resume, WakeGpu, GpuOK, GpuType, FlagType, Thread, FramePass
<1>3. QED
  BY <1>1, <1>2 DEF IInv

-----------------------------------------------------------------------------
(* The theorems.                                                               *)

LEMMA Initially == Init => IInv
<1> SUFFICES ASSUME Init PROVE IInv
  OBVIOUS
<1>1. state \in [Entries -> ResourceState]
  BY StatesAssumption DEF Init, Resting
<1>2. ent \in [Entries -> EntryType]
  BY DEF Init, EntryType
<1>3. req \in [Entries -> RequestType]
  <2>1. \A pc \in ReqPc : [Idle EXCEPT !.pc = pc] \in RequestType
    BY DEF Idle, RequestType, ReqPc
  <2>2. {"queued", "serving", "none"} \subseteq ReqPc
    BY DEF ReqPc
  <2> DEFINE pc(e) == CASE state[e] \in {"Requested", "RequestedUpdate"} -> "queued"
                        [] state[e] \in Processing -> "serving"
                        [] OTHER -> "none"
  <2>3. \A e \in Entries : pc(e) \in ReqPc
    BY <2>2
  <2>4. req = [e \in Entries |-> [Idle EXCEPT !.pc = pc(e)]]
    BY DEF Init
  <2> HIDE DEF pc
  <2>5. QED
    BY <2>1, <2>3, <2>4
<1>4. RelOK /\ SyncOK /\ WorkerOK
  BY InitTypes DEF Init, RelOK, RelType, RelPc, SyncOK, NoSync, WorkerOK, Thread
<1>5. GpuOK
  <2>1. MaxRequests \in Nat /\ 0 \in 0..MaxRequests /\ 0 \in 0..(2 * MaxRequests)
    BY BoundsAssumption
  <2>2. mode.gpu \in BOOLEAN
    BY ModesAssumption DEF Init
  <2>3. gw \in GpuType /\ gw.taken = 0 /\ gw.pc # "sync"
    BY <2>1 DEF Init, GpuType, Thread
  <2>4. flag \in FlagType /\ flag.requests = 0 /\ flag.suspended = FALSE
    BY <2>1, <2>2 DEF Init, FlagType
  <2>5. QED
    BY <2>1, <2>3, <2>4 DEF GpuOK
<1>6. QED
  BY <1>1, <1>2, <1>3, <1>4, <1>5 DEF IInv, EntriesOK, Init

LEMMA Steps == IInv /\ [Next]_vars => IInv'
<1> SUFFICES ASSUME IInv, [Next]_vars PROVE IInv'
  OBVIOUS
<1>1. CASE Next
  BY <1>1, GpuWorkerKeeps, WorkerKeeps, FrameKeeps, ReleaseKeeps, SuspendKeeps, ResumeKeeps,
     StartReleaseKeeps, RequestStepKeeps DEF Next
<1>2. CASE UNCHANGED vars
  BY <1>2 DEF vars, IInv, EntriesOK, RelOK, SyncOK, WorkerOK, GpuOK, FramePass
<1>3. QED
  BY <1>1, <1>2

\* The inductive invariant holds in every state of every behaviour.
THEOREM Invariance == Spec => []IInv
BY Initially, Steps, PTL DEF Spec

\* Every variable keeps its type: the release stays on its ladder, and the requests
\* that processGpuWorker() subtracts from the counter never exceed those counted.
THEOREM TypeCorrect == Spec => []TypeOK
<1>1. IInv => TypeOK
  BY DEF IInv, EntriesOK, RelOK, SyncOK, WorkerOK, GpuOK, TypeOK, EntryType, RequestType,
         RelType, GpuType, SyncType, FlagType, Thread
<1>2. QED
  BY <1>1, Invariance, PTL

\* suspendGpuWorker() returns when no pass is under way, and none begins before
\* resumeGpuWorker() or the release.
THEOREM SuspendedStaysIdle == Spec => []SuspendedIsIdle
<1>1. IInv => SuspendedIsIdle
  BY DEF IInv, GpuOK, SuspendedIsIdle, HoldsActive, FramePass
<1>2. QED
  BY <1>1, Invariance, PTL

-----------------------------------------------------------------------------
(* The inductive invariant of the collections, which the release cleans.       *)

\* States of an entry that may be out of its collection.
Leaving == {"Unknown", "ProcessingRequest", RCWBP, JBD}
NoData == NotInGPU \cup {"Uploading"}

\* The state tells whether there may be data in the GPU and whether the entry is in
\* its collection; a request that computes data has its entry there, being processed;
\* an entry is removed by its request in states without data only.
Sound(e) ==
    /\ state[e] \in NoData => ~ent[e].gpu
    /\ state[e] \notin Leaving => ent[e].linked
    /\ req[e].pc \in {"serving", "scaled"} => state[e] \in Processing /\ ent[e].linked
    /\ req[e].pc = "remove" => state[e] \in {"ProcessingRequest", RCWBP, JBD}
EntriesSound == \A e \in Entries : Sound(e)

\* Nobody else moves an entry that is being unloaded, or makes one that is being
\* uploaded forget about the GPU.
SyncSound ==
    /\ sync.pc = "unloading" => state[sync.e] = "Unloading"
    /\ sync.pc = "uploading" => state[sync.e] \notin NotInGPU

\* A pass of the release that has left nothing behind so far has yet to look at
\* whatever is in the collections; after such a pass they are empty.
Ending == Freed \/ (rel.pc = "sync" /\ rel.ret = "freed")
PassSound ==
    /\ Filtering /\ ~rel.contained => Linked \subseteq rel.todo \cup {rel.e}
    /\ rel.pc \notin {"climb", "look"} => rel.e = NoEntry
    /\ Ending => Linked = {}

\* The context is lost, if at all, when the release starts.
Intact == rel.pc = "run" \/ FramePass => ~rel.lost

SInv == Intact /\ (~rel.lost => EntriesSound /\ SyncSound /\ PassSound)

-----------------------------------------------------------------------------
(* What the ladders do to a state.                                             *)

LEMMA ClimbCases ==
    ASSUME NEW ladder, NEW s
    PROVE  \/ ~Hits(ladder, s) /\ Climb(ladder, s) = s
           \/ \E i \in DOMAIN ladder : /\ Hits(ladder, s) /\ ladder[i][1] = s
                                       /\ Climb(ladder, s) = ladder[i][2]
<1>1. CASE Hits(ladder, s)
  <2> DEFINE i == CHOOSE i \in DOMAIN ladder : ladder[i][1] = s
  <2>1. i \in DOMAIN ladder /\ ladder[i][1] = s
    BY <1>1 DEF Hits
  <2>2. Climb(ladder, s) = ladder[i][2]
    BY <1>1 DEF Climb
  <2> HIDE DEF i
  <2>3. QED
    BY <1>1, <2>1, <2>2
<1>2. CASE ~Hits(ladder, s)
  BY <1>2 DEF Climb
<1>3. QED
  BY <1>1, <1>2

\* The rungs of a ladder lead from its tests to its new states.
Leads(ladder, pairs) ==
    \A i \in DOMAIN ladder : \E p \in pairs : ladder[i][1] = p[1] /\ ladder[i][2] = p[2]

BeginPairs == {<<"Requested", "ProcessingRequest">>, <<"RequestedUpdate", "ProcessingUpdate">>}
EndPairs == {<<"ProcessingRequest", "Ready">>, <<"ProcessingRequest", "Unavailable">>,
             <<"ProcessingUpdate", "PreparedRenew">>, <<"ProcessingUpdate", "Uploaded">>,
             <<PUWR, "PreparedRenew">>, <<PUWR, "Uploaded">>}
CancelPairs == {<<"Requested", JBD>>, <<"Ready", JBD>>, <<"Unavailable", JBD>>, <<RCWBP, JBD>>,
                <<"RequestedUpdate", "UnloadPending">>, <<UCWBP, "UnloadPending">>}
UploadPairs == {<<"Ready", "Uploading">>, <<"PreparedRenew", "Renewing">>, <<"ProcessingUpdate", PUWR>>}
ReleasePairs == {<<"Requested", JBD>>, <<"ProcessingRequest", RCWBP>>,
                 <<"RequestedUpdate", "UnloadPending">>, <<"ProcessingUpdate", UCWBP>>,
                 <<PUWR, UCWBP>>, <<"Ready", JBD>>, <<"Unloaded", JBD>>,
                 <<"Uploaded", "UnloadPending">>, <<"Outdated", "UnloadPending">>,
                 <<"PreparedRenew", "UnloadPending">>, <<"Unavailable", JBD>>}

LEMMA LadderLeads ==
    /\ Leads(BeginLadder, BeginPairs) /\ Leads(CancelLadder, CancelPairs)
    /\ Leads(UploadLadder, UploadPairs)
    /\ Leads(<< <<"UnloadPending", "Unloading">> >>, {<<"UnloadPending", "Unloading">>})
    /\ Leads(EndFailedLadder, {<<"ProcessingUpdate", "Outdated">>, <<PUWR, "Outdated">>,
                               <<UCWBP, "UnloadPending">>})
    /\ Leads(UploadFailedLadder, {<<"Uploading", "Unloaded">>, <<"Renewing", "Uploaded">>})
    /\ \A data \in BOOLEAN : Leads(EndLadder(data), EndPairs)
BY DEF Leads, BeginLadder, BeginPairs, CancelLadder, CancelPairs, UploadLadder, UploadPairs,
       EndFailedLadder, UploadFailedLadder, EndLadder, EndPairs

LEMMA UploadedLeads ==
    Leads(UploadedLadder("fresh"), {<<"Uploading", "Uploaded">>, <<"Renewing", "Uploaded">>,
                                    <<PUWR, "ProcessingUpdate">>})
<1>1. UploadedLadder("fresh") =
        << <<"Uploading", "Uploaded">>, <<"Renewing", "Uploaded">>, <<PUWR, "ProcessingUpdate">> >>
  BY Zenon DEF UploadedLadder
<1>2. QED
  BY <1>1 DEF Leads

LEMMA ReleaseLeads ==
    \A i \in 1..11 : <<ReleaseLadder[i][1], ReleaseLadder[i][2]>> \in ReleasePairs
BY DEF ReleaseLadder, ReleasePairs

LEMMA ClimbLeads ==
    ASSUME NEW ladder, NEW pairs, Leads(ladder, pairs), NEW s
    PROVE  \/ ~Hits(ladder, s) /\ Climb(ladder, s) = s
           \/ \E p \in pairs : Hits(ladder, s) /\ p[1] = s /\ Climb(ladder, s) = p[2]
BY ClimbCases DEF Leads

\* A failed update that hits no rung was a first request.
LEMMA FailedMisses ==
    ASSUME NEW s \in Processing, ~Hits(EndFailedLadder, s)
    PROVE  s \in {"ProcessingRequest", RCWBP}
BY DEF Hits, EndFailedLadder, Processing

-----------------------------------------------------------------------------
(* What steps of others leave of the invariant.                                *)

LEMMA RelStays ==
    ASSUME SInv, rel' = rel, ~rel.lost => EntriesSound' /\ SyncSound' /\ PassSound'
    PROVE  SInv'
BY DEF SInv, Intact, FramePass

\* Nothing enters the collections, or at least not during a pass or after the last.
LEMMA PassStays ==
    ASSUME PassSound, rel' = rel, Linked' \subseteq Linked \/ (~Filtering /\ ~Ending)
    PROVE  PassSound'
BY DEF PassSound, Filtering, Ending, Freed

LEMMA EntriesStay ==
    ASSUME EntriesSound, UNCHANGED <<state, ent, req>>
    PROVE  EntriesSound' /\ Linked' = Linked
BY DEF EntriesSound, Sound, Linked

\* A step of the request that serves e: e stays sound, is not added to its
\* collection, and is not taken from the GPU thread.
LEMMA RequestSound ==
    ASSUME IInv, SInv, NEW e \in Entries, UNCHANGED <<rel, sync>>,
           \A f \in Entries \ {e} : UNCHANGED <<state[f], ent[f], req[f]>>,
           ~rel.lost => /\ Sound(e)' /\ (ent'[e].linked => ent[e].linked)
                        /\ state[e] = "Unloading" => state'[e] = "Unloading"
                        /\ state[e] \notin NotInGPU => state'[e] \notin NotInGPU
    PROVE  SInv'
<1> SUFFICES ASSUME ~rel.lost PROVE EntriesSound' /\ SyncSound' /\ PassSound'
  BY RelStays
<1>1. EntriesSound'
  BY DEF SInv, EntriesSound, Sound
<1>2. SyncSound'
  <2>1. sync.pc \in {"unloading", "uploading"} => sync.e \in Entries
    BY DEF IInv, SyncOK
  <2>2. QED
    BY <2>1 DEF SInv, SyncSound
<1>3. Linked' \subseteq Linked
  BY DEF Linked
<1>4. PassSound'
  BY <1>3, PassStays DEF SInv
<1>5. QED
  BY <1>1, <1>2, <1>4

-----------------------------------------------------------------------------
(* Requests.                                                                   *)

\* What an entry and its request are after a step that changes one of them.
LEMMA StateOf ==
    ASSUME EntriesOK, NEW e \in Entries, NEW s, state' = [state EXCEPT ![e] = s]
    PROVE  state'[e] = s /\ \A f \in Entries \ {e} : state'[f] = state[f]
BY DEF EntriesOK

LEMMA RequestOf ==
    ASSUME EntriesOK, NEW e \in Entries, NEW pc, Request(e, pc)
    PROVE  /\ \A f \in Entries \ {e} : req'[f] = req[f]
           /\ req'[e].pc = pc
<1>1. req[e] \in RequestType /\ Idle.pc = "none"
  BY DEF EntriesOK, Idle
<1>2. req'[e] = IF pc = "none" THEN Idle ELSE [req[e] EXCEPT !.pc = pc]
  BY DEF EntriesOK, Request
<1>3. req'[e].pc = pc
  BY <1>1, <1>2 DEF RequestType
<1>4. QED
  BY <1>3 DEF EntriesOK, Request

LEMMA StartTaskSound ==
    ASSUME IInv, SInv, NEW e \in Entries, StartTask(e)
    PROVE  SInv'
<1>1. EntriesOK
  BY DEF IInv
<1>2. /\ state'[e] = Climb(BeginLadder, state[e])
      /\ \A f \in Entries \ {e} : state'[f] = state[f]
  BY <1>1, StateOf DEF StartTask
<1>3. \/ ~Hits(BeginLadder, state[e]) /\ state'[e] = state[e]
      \/ state[e] = "Requested" /\ state'[e] = "ProcessingRequest"
      \/ state[e] = "RequestedUpdate" /\ state'[e] = "ProcessingUpdate"
  BY <1>2, LadderLeads, ClimbLeads DEF BeginPairs
<1>4. /\ \A f \in Entries \ {e} : req'[f] = req[f]
      /\ req'[e].pc = IF Hits(BeginLadder, state[e]) THEN "serving" ELSE "post"
  BY <1>1, RequestOf DEF StartTask
<1>5. ~rel.lost => /\ Sound(e)' /\ (state[e] = "Unloading" => state'[e] = "Unloading")
                   /\ state[e] \notin NotInGPU => state'[e] \notin NotInGPU
  BY <1>3, <1>4 DEF SInv, EntriesSound, Sound, StartTask, NoData, NotInGPU, Leaving, Processing
<1>6. QED
  BY <1>2, <1>4, <1>5, RequestSound DEF StartTask

LEMMA AnswerSound ==
    ASSUME IInv, SInv, NEW e \in Entries, Answer(e)
    PROVE  SInv'
<1>1. EntriesOK
  BY DEF IInv
<1>2. PICK data \in BOOLEAN :
        /\ state' = [state EXCEPT ![e] = Climb(EndLadder(data), @)]
        /\ req' = [req EXCEPT ![e].data = data,
                     ![e].pc = IF Hits(EndLadder(data), state[e]) THEN "ended" ELSE "cancel"]
  BY DEF Answer
<1>3. /\ state'[e] = Climb(EndLadder(data), state[e])
      /\ \A f \in Entries \ {e} : state'[f] = state[f]
  BY <1>1, <1>2, StateOf
<1>4. \/ state'[e] = state[e]
      \/ state[e] = "ProcessingRequest" /\ state'[e] \in {"Ready", "Unavailable"}
      \/ state[e] \in {"ProcessingUpdate", PUWR} /\ state'[e] \in {"PreparedRenew", "Uploaded"}
  BY <1>3, LadderLeads, ClimbLeads DEF EndPairs
<1>5. (\A f \in Entries \ {e} : req'[f] = req[f]) /\ req'[e].pc \in {"ended", "cancel"}
  BY <1>1, <1>2 DEF EntriesOK, RequestType
<1>6. ~rel.lost => /\ Sound(e)' /\ (state[e] = "Unloading" => state'[e] = "Unloading")
                   /\ state[e] \notin NotInGPU => state'[e] \notin NotInGPU
  BY <1>4, <1>5 DEF SInv, EntriesSound, Sound, Answer, NoData, NotInGPU, Leaving, Processing
<1>7. QED
  BY <1>3, <1>5, <1>6, RequestSound DEF Answer

LEMMA AnswerFailedSound ==
    ASSUME IInv, SInv, NEW e \in Entries, AnswerFailed(e)
    PROVE  SInv'
<1>1. EntriesOK
  BY DEF IInv
<1>2. /\ state'[e] = Climb(EndFailedLadder, state[e])
      /\ \A f \in Entries \ {e} : state'[f] = state[f]
  BY <1>1, StateOf DEF AnswerFailed
<1>3. \/ ~Hits(EndFailedLadder, state[e]) /\ state'[e] = state[e]
      \/ state[e] \in {"ProcessingUpdate", PUWR} /\ state'[e] = "Outdated"
      \/ state[e] = UCWBP /\ state'[e] = "UnloadPending"
  BY <1>2, LadderLeads, ClimbLeads
<1>4. /\ \A f \in Entries \ {e} : req'[f] = req[f]
      /\ req'[e].pc = IF Hits(EndFailedLadder, state[e]) THEN "ended" ELSE "remove"
  BY <1>1 DEF EntriesOK, RequestType, AnswerFailed
<1>5. ~rel.lost /\ ~Hits(EndFailedLadder, state[e]) => state[e] \in {"ProcessingRequest", RCWBP}
  BY FailedMisses DEF SInv, EntriesSound, Sound, AnswerFailed
<1>6. ~rel.lost => /\ Sound(e)' /\ (state[e] = "Unloading" => state'[e] = "Unloading")
                   /\ state[e] \notin NotInGPU => state'[e] \notin NotInGPU
  BY <1>3, <1>4, <1>5
     DEF SInv, EntriesSound, Sound, AnswerFailed, NoData, NotInGPU, Leaving, Processing
<1>7. QED
  BY <1>2, <1>4, <1>6, RequestSound DEF AnswerFailed

LEMMA CancelSound ==
    ASSUME IInv, SInv, NEW e \in Entries, Cancel(e)
    PROVE  SInv'
<1>1. EntriesOK
  BY DEF IInv
<1>2. /\ state'[e] = Climb(CancelLadder, state[e])
      /\ \A f \in Entries \ {e} : state'[f] = state[f]
  BY <1>1, StateOf DEF Cancel
<1>3. \/ state'[e] = state[e]
      \/ state[e] \in {"Requested", "Ready", "Unavailable", RCWBP} /\ state'[e] = JBD
      \/ state[e] \in {"RequestedUpdate", UCWBP} /\ state'[e] = "UnloadPending"
  BY <1>2, LadderLeads, ClimbLeads DEF CancelPairs
<1>4. /\ \A f \in Entries \ {e} : req'[f] = req[f]
      /\ req'[e].pc = "none" \/ (req'[e].pc = "remove" /\ state'[e] = JBD)
  BY <1>1 DEF EntriesOK, Cancel, Idle
<1>5. ~rel.lost => /\ Sound(e)' /\ (state[e] = "Unloading" => state'[e] = "Unloading")
                   /\ state[e] \notin NotInGPU => state'[e] \notin NotInGPU
  BY <1>3, <1>4 DEF SInv, EntriesSound, Sound, Cancel, NoData, NotInGPU, Leaving, Processing
<1>6. QED
  BY <1>2, <1>4, <1>5, RequestSound DEF Cancel

LEMMA RemoveSound ==
    ASSUME IInv, SInv, NEW e \in Entries, Remove(e)
    PROVE  SInv'
<1>1. EntriesOK
  BY DEF IInv
<1>2. (\A f \in Entries \ {e} : req'[f] = req[f]) /\ req'[e].pc \in {"none", "ended"}
  <2>1. req[e].ret \in {"none", "ended"}
    BY <1>1 DEF EntriesOK, RequestType
  <2>2. QED
    BY <1>1, <2>1, RequestOf DEF Remove
<1>3. /\ \A f \in Entries \ {e} : ent'[f] = ent[f]
      /\ ~ent'[e].linked /\ ent'[e].gpu = ent[e].gpu
  BY <1>1 DEF EntriesOK, EntryType, Remove
<1>4. ~rel.lost => Sound(e)'
  BY <1>2, <1>3 DEF SInv, EntriesSound, Sound, Remove, Leaving
<1>5. QED
  BY <1>2, <1>3, <1>4, RequestSound DEF Remove

\* A request goes on without touching its entry.
LEMMA RequestGoesOn ==
    ASSUME IInv, SInv, NEW e \in Entries, NEW pc, Request(e, pc), pc # "remove",
           ~rel.lost /\ pc \in {"serving", "scaled"} => state[e] \in Processing /\ ent[e].linked,
           UNCHANGED <<state, ent, rel, sync>>
    PROVE  SInv'
<1>1. (\A f \in Entries \ {e} : req'[f] = req[f]) /\ req'[e].pc = pc
  BY RequestOf DEF IInv
<1>2. ~rel.lost => Sound(e)'
  BY <1>1 DEF SInv, EntriesSound, Sound
<1>3. QED
  BY <1>1, <1>2, RequestSound

LEMMA AnswerScaledSound ==
    ASSUME IInv, SInv, NEW e \in Entries, AnswerScaled(e)
    PROVE  SInv'
BY RequestGoesOn DEF AnswerScaled, Processing

LEMMA LookQuietSound ==
    ASSUME IInv, SInv, NEW e \in Entries, LookQuiet(e)
    PROVE  SInv'
<1>1. PICK pc \in {"post", "notify"} : Request(e, pc)
  BY DEF LookQuiet
<1>2. QED
  BY <1>1, RequestGoesOn DEF LookQuiet

LEMMA NotifySound ==
    ASSUME IInv, SInv, NEW e \in Entries, Notify(e)
    PROVE  SInv'
BY RequestGoesOn DEF Notify

LEMMA PostSound ==
    ASSUME IInv, SInv, NEW e \in Entries, Post(e)
    PROVE  SInv'
<1>1. PICK pc \in {"cancel", "none"} : Request(e, pc)
  BY DEF Post
<1>2. QED
  BY <1>1, RequestGoesOn DEF Post

\* The cached tile of another zoom becomes an entry only while its request goes on,
\* whose own entry is in the collection: not after the last pass.
LEMMA AllocateScaledSound ==
    ASSUME IInv, SInv, NEW e \in Entries, NEW f \in Entries, AllocateScaled(e, f)
    PROVE  SInv'
<1>1. EntriesOK
  BY DEF IInv
<1>2. Request(e, "serving") /\ UNCHANGED <<rel, sync>> /\ req[e].pc = "scaled" /\ ~Filtering
  BY DEF AllocateScaled
<1>3. ~rel.lost => state[e] \in Processing /\ ent[e].linked
  BY <1>2 DEF SInv, EntriesSound, Sound
<1>4. CASE state[f] # "Unknown"
  <2>1. UNCHANGED <<state, ent>>
    BY <1>4 DEF AllocateScaled
  <2>2. QED
    BY <1>2, <1>3, <2>1, RequestGoesOn
<1>5. CASE state[f] = "Unknown"
  <2> SUFFICES ASSUME ~rel.lost PROVE EntriesSound' /\ SyncSound' /\ PassSound'
    BY <1>2, RelStays
  <2>1. state' = [state EXCEPT ![f] = "Ready"] /\ ent' = [ent EXCEPT ![f].linked = TRUE]
    BY <1>5 DEF AllocateScaled
  <2>2. /\ state'[f] = "Ready" /\ ent'[f].linked /\ ent'[f].gpu = ent[f].gpu
        /\ \A h \in Entries \ {f} : state'[h] = state[h] /\ ent'[h] = ent[h]
    BY <1>1, <2>1 DEF EntriesOK, EntryType
  <2>3. (\A h \in Entries \ {e} : req'[h] = req[h]) /\ req'[e].pc = "serving"
    BY <1>1, <1>2, RequestOf
  <2>4. e # f
    BY <1>3, <1>5 DEF Processing
  <2>5. EntriesSound'
    <3> SUFFICES ASSUME NEW h \in Entries PROVE Sound(h)'
      BY DEF EntriesSound
    <3>1. Sound(h)
      BY DEF SInv, EntriesSound
    <3>2. CASE h = f
      BY <1>5, <2>2, <2>3, <2>4, <3>1, <3>2 DEF Sound, NoData, NotInGPU, Processing
    <3>3. CASE h = e
      BY <1>3, <2>2, <2>3, <2>4, <3>1, <3>3 DEF Sound
    <3>4. CASE h # f /\ h # e
      BY <2>2, <2>3, <3>1, <3>4 DEF Sound
    <3>5. QED
      BY <3>2, <3>3, <3>4
  <2>6. SyncSound'
    <3>1. sync.pc \in {"unloading", "uploading"} => sync.e \in Entries
      BY DEF IInv, SyncOK
    <3>2. QED
      BY <1>2, <1>5, <2>2, <3>1 DEF SInv, SyncSound, NotInGPU
  <2>7. PassSound'
    <3>1. e \in Linked
      BY <1>3 DEF Linked
    <3>2. ~Ending
      BY <3>1 DEF SInv, PassSound
    <3>3. QED
      BY <1>2, <3>2, PassStays DEF SInv
  <2>8. QED
    BY <2>5, <2>6, <2>7
<1>6. QED
  BY <1>4, <1>5

LEMMA RequestStepSound ==
    ASSUME IInv, SInv, NEW e \in Entries, RequestStep(e)
    PROVE  SInv'
BY StartTaskSound, AnswerSound, AnswerFailedSound, AnswerScaledSound, AllocateScaledSound,
   LookQuietSound, NotifySound, PostSound, CancelSound, RemoveSound DEF RequestStep

-----------------------------------------------------------------------------
(* Passes over the GPU's resources, and the threads that do not touch entries. *)

\* A step of the GPU thread: at most one entry moves, without leaving or entering
\* its collection, and no request does.
LEMMA SyncStepSoundIf ==
    ASSUME IInv, SInv, NEW e \in Entries, UNCHANGED <<rel, req>>,
           \A f \in Entries \ {e} : UNCHANGED <<state[f], ent[f]>>,
           ~rel.lost => Sound(e)' /\ SyncSound' /\ ent'[e].linked = ent[e].linked
    PROVE  SInv'
<1> SUFFICES ASSUME ~rel.lost PROVE EntriesSound' /\ SyncSound' /\ PassSound'
  BY RelStays
<1>1. EntriesSound'
  BY DEF SInv, EntriesSound, Sound
<1>2. Linked' = Linked
  BY DEF Linked
<1>3. PassSound'
  BY <1>2, PassStays DEF SInv
<1>4. QED
  BY <1>1, <1>3

\* A step that leaves the entries alone.
LEMMA NothingMoves ==
    ASSUME IInv, SInv, UNCHANGED <<state, ent, req, rel>>, SyncSound => SyncSound'
    PROVE  SInv'
BY RelStays, EntriesStay, PassStays DEF SInv

LEMMA ClaimSound ==
    ASSUME IInv, SInv, NEW e \in Entries, Claim(e)
    PROVE  SInv'
<1> DEFINE ladder == IF sync.pc = "unload" THEN << <<"UnloadPending", "Unloading">> >>
                                           ELSE UploadLadder
<1>1. EntriesOK /\ sync \in SyncType /\ sync.pc \in {"unload", "upload"}
  BY DEF IInv, SyncOK, Claim
<1>2. CASE Hits(ladder, state[e]) /\ ~rel.lost
  <2>1. /\ state' = [state EXCEPT ![e] = Climb(ladder, @)]
        /\ sync' = [sync EXCEPT !.pc = IF @ = "unload" THEN "unloading" ELSE "uploading",
                                !.list = @ \ {e}, !.e = e]
    BY <1>2 DEF Claim
  <2>2. /\ state'[e] = Climb(ladder, state[e])
        /\ \A f \in Entries \ {e} : state'[f] = state[f]
    BY <1>1, <2>1, StateOf
  <2>3. \/ /\ state[e] = "UnloadPending" /\ state'[e] = "Unloading" /\ sync.pc = "unload"
        \/ /\ sync.pc = "upload"
           /\ \/ state[e] = "Ready" /\ state'[e] = "Uploading"
              \/ state[e] = "PreparedRenew" /\ state'[e] = "Renewing"
              \/ state[e] = "ProcessingUpdate" /\ state'[e] = PUWR
    <3>1. CASE sync.pc = "unload"
      BY <1>2, <2>2, <3>1, LadderLeads, ClimbLeads
    <3>2. CASE sync.pc = "upload"
      BY <1>2, <2>2, <3>2, LadderLeads, ClimbLeads DEF UploadPairs
    <3>3. QED
      BY <1>1, <3>1, <3>2
  <2>4. /\ sync'.e = e
        /\ sync'.pc = IF sync.pc = "unload" THEN "unloading" ELSE "uploading"
    BY <1>1, <2>1 DEF SyncType
  <2>5. SyncSound'
    BY <2>3, <2>4 DEF SyncSound, NotInGPU
  <2>6. Sound(e)'
    BY <1>2, <2>3 DEF Claim, SInv, EntriesSound, Sound, NoData, NotInGPU, Leaving, Processing
  <2>7. QED
    BY <2>2, <2>5, <2>6, SyncStepSoundIf DEF Claim
<1>3. CASE ~(Hits(ladder, state[e]) /\ ~rel.lost)
  <2>1. sync' = [sync EXCEPT !.list = @ \ {e}] /\ UNCHANGED state
    BY <1>3 DEF Claim
  <2>2. sync'.pc = sync.pc
    BY <1>1, <2>1 DEF SyncType
  <2>3. SyncSound'
    BY <1>1, <2>2 DEF SyncSound
  <2>4. QED
    BY <2>1, <2>3, NothingMoves DEF Claim
<1>4. QED
  BY <1>2, <1>3

LEMMA UnloadedSound == ASSUME IInv, SInv, Unloaded PROVE SInv'
<1>1. EntriesOK /\ sync \in SyncType
  BY DEF IInv, SyncOK
<1>2. PICK e \in Entries : e = sync.e
  BY DEF IInv, SyncOK, Unloaded
<1>3. state'[e] = "Unloaded" /\ \A f \in Entries \ {e} : state'[f] = state[f]
  BY <1>1, <1>2, StateOf DEF Unloaded
<1>4. /\ ~ent'[e].gpu /\ ent'[e].linked = ent[e].linked
      /\ \A f \in Entries \ {e} : ent'[f] = ent[f]
  BY <1>1, <1>2 DEF EntriesOK, EntryType, Unloaded
<1>5. sync'.pc = "unload"
  BY <1>1 DEF SyncType, Unloaded
<1>6. SyncSound'
  BY <1>5 DEF SyncSound
<1>7. ~rel.lost => state[e] = "Unloading" /\ Sound(e)
  BY <1>2 DEF SInv, EntriesSound, SyncSound, Unloaded
<1>8. ~rel.lost => Sound(e)'
  BY <1>3, <1>4, <1>7 DEF Sound, Unloaded, NotInGPU, Leaving, Processing
<1>9. QED
  BY <1>3, <1>4, <1>6, <1>8, SyncStepSoundIf DEF Unloaded

\* An upload that succeeds leaves the entry in a state that tells of the GPU.
LEMMA UploadedSound == ASSUME IInv, SInv, Uploaded PROVE SInv'
<1>1. EntriesOK /\ sync \in SyncType
  BY DEF IInv, SyncOK
<1>2. PICK e \in Entries : e = sync.e
  BY DEF IInv, SyncOK, Uploaded
<1>3. PICK ok \in BOOLEAN :
        /\ state' = [state EXCEPT ![e] =
                       Climb(IF ok THEN UploadedLadder("fresh") ELSE UploadFailedLadder, @)]
        /\ ent' = [ent EXCEPT ![e].gpu = @ \/ ok]
  BY <1>2 DEF Uploaded
<1>4. \A f \in Entries \ {e} : state'[f] = state[f] /\ ent'[f] = ent[f]
  BY <1>1, <1>3 DEF EntriesOK
<1>5. state'[e] = Climb(IF ok THEN UploadedLadder("fresh") ELSE UploadFailedLadder, state[e])
  BY <1>1, <1>3, StateOf
<1>6. ent'[e].linked = ent[e].linked
  BY <1>1, <1>3 DEF EntriesOK, EntryType
<1>7. sync'.pc = "upload"
  BY <1>1 DEF SyncType, Uploaded
<1>8. SyncSound'
  BY <1>7 DEF SyncSound
<1>9. ~rel.lost => state[e] \notin NotInGPU /\ Sound(e)
  BY <1>2 DEF SInv, EntriesSound, SyncSound, Uploaded
<1>10. ~rel.lost => Sound(e)'
  <2>1. CASE ok
    <3>1. \/ state'[e] = state[e] /\ state[e] # "Uploading"
          \/ state[e] \in {"Uploading", "Renewing"} /\ state'[e] = "Uploaded"
          \/ state[e] = PUWR /\ state'[e] = "ProcessingUpdate"
      <4>1. state'[e] = Climb(UploadedLadder("fresh"), state[e])
        BY <1>5, <2>1
      <4>2. Hits(UploadedLadder("fresh"), "Uploading")
        <5>1. UploadedLadder("fresh") = << <<"Uploading", "Uploaded">>, <<"Renewing", "Uploaded">>,
                                           <<PUWR, "ProcessingUpdate">> >>
          BY Zenon DEF UploadedLadder
        <5>2. QED
          BY <5>1 DEF Hits
      <4>3. QED
        BY <4>1, <4>2, UploadedLeads, ClimbLeads
    <3>2. QED
      BY <1>6, <1>9, <3>1 DEF Sound, Uploaded, NoData, NotInGPU, Leaving, Processing
  <2>2. CASE ~ok
    <3>1. \/ state'[e] = state[e]
          \/ state[e] = "Uploading" /\ state'[e] = "Unloaded"
          \/ state[e] = "Renewing" /\ state'[e] = "Uploaded"
      BY <1>5, <2>2, LadderLeads, ClimbLeads
    <3>2. ent'[e].gpu <=> ent[e].gpu
      BY <1>1, <1>3, <2>2 DEF EntriesOK, EntryType
    <3>3. QED
      BY <1>6, <1>9, <3>1, <3>2 DEF Sound, Uploaded, NoData, NotInGPU, Leaving, Processing
  <2>3. QED
    BY <2>1, <2>2
<1>11. QED
  BY <1>4, <1>6, <1>8, <1>10, SyncStepSoundIf DEF Uploaded

LEMMA SyncStepSound == ASSUME IInv, SInv, SyncStep PROVE SInv'
<1>1. CASE CollectUnload
  <2>1. sync'.pc = "unload"
    BY <1>1 DEF IInv, SyncOK, SyncType, CollectUnload
  <2>2. QED
    BY <1>1, <2>1, NothingMoves DEF CollectUnload, SyncSound
<1>2. CASE CollectUpload
  <2>1. PICK list : sync' = [sync EXCEPT !.pc = "upload", !.list = list]
    BY <1>2 DEF CollectUpload
  <2>2. sync'.pc = "upload"
    BY <2>1 DEF IInv, SyncOK, SyncType
  <2>3. QED
    BY <1>2, <2>2, NothingMoves DEF CollectUpload, SyncSound
<1>3. QED
  BY <1>1, <1>2, ClaimSound, UnloadedSound, UploadedSound DEF SyncStep

LEMMA GpuWorkerSound == ASSUME IInv, SInv, GpuWorker PROVE SInv'
<1>1. CASE GpuTest \/ GpuSleep \/ GpuAwake
  BY <1>1, NothingMoves DEF GpuTest, GpuSleep, GpuAwake, SyncSound
<1>2. CASE GpuCount
  <2>1. SyncSound'
    BY <1>2 DEF GpuCount, NoSync, SyncSound
  <2>2. QED
    BY <1>2, <2>1, NothingMoves DEF GpuCount
<1>3. QED
  BY <1>1, <1>2, SyncStepSound DEF GpuWorker

LEMMA OthersSound == ASSUME IInv, SInv, Worker \/ Suspend \/ Resume PROVE SInv'
BY NothingMoves DEF Worker, WorkerTest, WorkerSleep, WorkerUpdate, Suspend, Resume, SyncSound

-----------------------------------------------------------------------------
(* The thread that renders and releases.                                       *)

\* The release goes from one place to another, and nothing else happens.
LEMMA RelGoes ==
    ASSUME IInv, SInv, UNCHANGED <<state, ent, req>>, rel'.lost = rel.lost, Intact',
           SyncSound => SyncSound', ~rel.lost /\ PassSound => PassSound'
    PROVE  SInv'
BY EntriesStay DEF SInv

LEMMA RelGoesTo ==
    ASSUME IInv, SInv, UNCHANGED <<state, ent, req, sync>>, NEW pc, To(pc),
           pc \in RelPc \ {"run", "sync", "filter", "climb", "look"},
           rel.pc \notin {"climb", "look"},
           pc \in {"freed", "quit", "quitwake", "quitjoin", "released"} /\ ~rel.lost => Linked = {}
    PROVE  SInv'
<1>1. rel'.pc = pc /\ rel'.lost = rel.lost /\ rel'.e = rel.e
  BY DEF IInv, RelOK, RelType, To
<1>2. Intact'
  BY <1>1 DEF Intact, FramePass
<1>3. ~rel.lost /\ PassSound => PassSound'
  BY <1>1, EntriesStay DEF PassSound, Filtering, Ending, Freed, Linked
<1>4. QED
  BY <1>1, <1>2, <1>3, RelGoes DEF SyncSound

LEMMA FrameSound == ASSUME IInv, SInv, Frame PROVE SInv'
<1>1. CASE rel' = rel
  BY <1>1, NothingMoves DEF Frame, SyncSound
<1>2. CASE rel' = [rel EXCEPT !.pc = "sync", !.ret = "run"]
  <2>1. rel'.pc = "sync" /\ rel'.ret = "run" /\ rel'.lost = rel.lost /\ rel'.e = rel.e
    BY <1>2 DEF IInv, RelOK, RelType
  <2>2. Intact'
    BY <2>1 DEF SInv, Intact, FramePass, Frame
  <2>3. PassSound => PassSound'
    BY <2>1 DEF PassSound, Filtering, Ending, Freed, Frame
  <2>4. QED
    BY <2>1, <2>2, <2>3, RelGoes DEF Frame, SyncSound
<1>3. QED
  BY <1>1, <1>2 DEF Frame

LEMMA SelfSyncedSound == ASSUME IInv, SInv, SelfSynced PROVE SInv'
<1>1. rel.pc = "sync" /\ rel.ret \in {"run", "pass", "freed"}
  BY DEF IInv, RelOK, RelType, SelfSynced
<1>2. rel'.pc = rel.ret /\ rel'.lost = rel.lost /\ rel'.e = rel.e
  BY DEF IInv, RelOK, RelType, SelfSynced, To
<1>3. Intact'
  BY <1>1, <1>2 DEF SInv, Intact, FramePass
<1>4. PassSound => PassSound'
  <2>1. Linked' = Linked
    BY DEF SelfSynced, Linked
  <2>2. QED
    BY <1>1, <1>2, <2>1 DEF PassSound, Filtering, Ending, Freed
<1>5. SyncSound'
  BY DEF SelfSynced, NoSync, SyncSound
<1>6. QED
  BY <1>2, <1>3, <1>4, <1>5, RelGoes DEF SelfSynced

LEMMA StartReleaseSound ==
    ASSUME IInv, SInv, NEW lost \in BOOLEAN, StartRelease(lost)
    PROVE  SInv'
<1>1. ~rel.lost
  BY DEF SInv, Intact, StartRelease
<1>2. PICK pc \in {"post", "stop"} : rel' = [rel EXCEPT !.pc = pc, !.lost = lost]
  BY DEF StartRelease
<1>3. rel'.pc = pc /\ rel'.e = rel.e
  BY <1>2 DEF IInv, RelOK, RelType
<1>4. Intact'
  BY <1>3 DEF Intact, FramePass
<1>5. EntriesSound' /\ SyncSound'
  BY <1>1, EntriesStay DEF SInv, StartRelease, SyncSound
<1>6. PassSound'
  BY <1>1, <1>3 DEF SInv, StartRelease, PassSound, Filtering, Ending, Freed
<1>7. QED
  BY <1>4, <1>5, <1>6 DEF SInv

LEMMA PostAndWaitSound == ASSUME IInv, SInv, PostAndWait PROVE SInv'
<1>1. PICK pc \in {"wait", "stop"} : To(pc)
  BY DEF PostAndWait
<1>2. QED
  BY <1>1, RelGoesTo DEF PostAndWait, RelPc

LEMMA StopWorkerSound == ASSUME IInv, SInv, StopWorker PROVE SInv'
<1>1. PICK pc \in {"wake", "join", "clear"} : To(pc)
  BY DEF StopWorker
<1>2. QED
  BY <1>1, RelGoesTo DEF StopWorker, RelPc

LEMMA WaitGpuSound == ASSUME IInv, SInv, WaitGpu PROVE SInv'
BY RelGoesTo DEF WaitGpu, RelPc

LEMMA StopGpuSound == ASSUME IInv, SInv, StopGpu PROVE SInv'
<1>1. PICK pc \in {"quit", "released", "quitwake", "quitjoin"} : To(pc)
  BY DEF StopGpu
<1>2. Freed
  BY DEF StopGpu, Freed
<1>3. ~rel.lost => Linked = {}
  BY <1>2 DEF SInv, PassSound, Ending
<1>4. QED
  BY <1>1, <1>3, RelGoesTo DEF StopGpu, RelPc

\* The tasks that are deleted were not started.
LEMMA DrainPoolSound == ASSUME IInv, SInv, DrainPool PROVE SInv'
<1>1. CASE rel.pc = "drain"
  <2>1. UNCHANGED req /\ To("pass")
    BY <1>1 DEF DrainPool
  <2>2. QED
    BY <1>1, <2>1, RelGoesTo DEF DrainPool, RelPc
<1>2. CASE rel.pc = "clear"
  <2>1. /\ To("drain")
        /\ req' = [e \in Entries |-> IF req[e].pc = "queued" THEN Idle ELSE req[e]]
    BY <1>2 DEF DrainPool
  <2>2. rel'.pc = "drain" /\ rel'.lost = rel.lost /\ rel'.e = rel.e
    BY <2>1 DEF IInv, RelOK, RelType, To
  <2>3. \A e \in Entries : req'[e].pc \in {"none", req[e].pc}
    BY <2>1 DEF Idle
  <2>4. EntriesSound => EntriesSound'
    BY <2>3 DEF EntriesSound, Sound, DrainPool
  <2>5. PassSound => PassSound'
    BY <1>2, <2>2 DEF PassSound, Filtering, Ending, Freed
  <2>6. Intact'
    BY <2>2 DEF Intact, FramePass
  <2>7. QED
    BY <2>2, <2>4, <2>5, <2>6 DEF SInv, DrainPool, SyncSound
<1>3. QED
  BY <1>1, <1>2 DEF DrainPool

LEMMA BeginPassSound == ASSUME IInv, SInv, BeginPass PROVE SInv'
<1>1. /\ rel'.pc = "filter" /\ rel'.todo = Linked /\ rel'.lost = rel.lost /\ rel'.e = rel.e
  BY DEF IInv, RelOK, RelType, BeginPass
<1>2. Linked' = Linked
  BY DEF Linked, BeginPass
<1>3. PassSound => PassSound'
  BY <1>1, <1>2 DEF PassSound, BeginPass, Ending, Freed
<1>4. Intact'
  BY <1>1 DEF Intact, FramePass
<1>5. QED
  BY <1>1, <1>3, <1>4, RelGoes DEF BeginPass, SyncSound

LEMMA FilterEntrySound ==
    ASSUME IInv, SInv, NEW e \in Entries, FilterEntry(e)
    PROVE  SInv'
<1>1. /\ rel'.pc = "climb" /\ rel'.todo = rel.todo \ {e} /\ rel'.e = e
      /\ rel'.lost = rel.lost /\ rel'.contained = rel.contained
  <2>1. rel \in RelType /\ rel' = [rel EXCEPT !.pc = "climb", !.todo = @ \ {e}, !.e = e, !.i = 1]
    BY DEF IInv, RelOK, FilterEntry
  <2>2. QED
    BY <2>1 DEF RelType
<1>2. \A f \in Entries : ent'[f].linked = ent[f].linked /\ ent'[f].gpu = ent[f].gpu
  BY DEF IInv, EntriesOK, EntryType, FilterEntry
<1>3. EntriesSound => EntriesSound'
  BY <1>2 DEF EntriesSound, Sound, FilterEntry
<1>4. PassSound => PassSound'
  <2>1. Linked' = Linked /\ NoEntry \notin Linked
    BY <1>2, BoundsAssumption DEF Linked
  <2>2. QED
    BY <1>1, <2>1 DEF PassSound, Filtering, Ending, Freed, FilterEntry
<1>5. Intact'
  BY <1>1 DEF Intact, FramePass
<1>6. QED
  BY <1>1, <1>3, <1>4, <1>5 DEF SInv, FilterEntry, SyncSound

\* An entry of the release is settled: it stays in its collection and with it a
\* reason to come back, or it goes without data in the GPU.
LEMMA SettledSound ==
    ASSUME IInv, SInv, NEW e \in Entries, rel.e = e, Filtering, sync' = sync,
           rel'.pc = "filter", rel'.e = NoEntry, rel'.todo = rel.todo, rel'.lost = rel.lost,
           \A f \in Entries \ {e} : UNCHANGED <<state[f], ent[f], req[f].pc>>,
           ~rel.lost => /\ Sound(e)'
                        /\ rel'.contained \/ (rel'.contained = rel.contained /\ ~ent'[e].linked)
                        /\ state[e] = "Unloading" => state'[e] = "Unloading"
                        /\ state[e] \notin NotInGPU => state'[e] \notin NotInGPU
    PROVE  SInv'
<1>1. Intact'
  BY DEF Intact, FramePass
<1>2. SUFFICES ASSUME ~rel.lost PROVE EntriesSound' /\ SyncSound' /\ PassSound'
  BY <1>1 DEF SInv
<1>3. EntriesSound'
  BY <1>2 DEF SInv, EntriesSound, Sound
<1>4. SyncSound'
  <2>1. sync.pc \in {"unloading", "uploading"} => sync.e \in Entries
    BY DEF IInv, SyncOK
  <2>2. QED
    BY <1>2, <2>1 DEF SInv, SyncSound
<1>5. PassSound'
  <2>1. ~rel'.contained => Linked \subseteq rel.todo \cup {e} /\ Linked' \subseteq Linked \ {e}
    <3> SUFFICES ASSUME ~rel'.contained
                 PROVE  Linked \subseteq rel.todo \cup {e} /\ Linked' \subseteq Linked \ {e}
      OBVIOUS
    <3>1. ~rel.contained /\ ~ent'[e].linked
      BY <1>2
    <3>2. Linked \subseteq rel.todo \cup {e}
      BY <1>2, <3>1 DEF SInv, PassSound
    <3>3. Linked' \subseteq Linked \ {e}
      BY <3>1 DEF Linked
    <3>4. QED
      BY <3>2, <3>3
  <2>2. QED
    BY <2>1 DEF PassSound, Ending, Freed
<1>6. QED
  BY <1>3, <1>4, <1>5

LEMMA DroppedEntry ==
    ASSUME EntriesOK, rel.e \in Entries, ~rel.lost
    PROVE  /\ ~Dropped[rel.e].linked /\ (Dropped[rel.e].gpu <=> ent[rel.e].gpu)
           /\ \A f \in Entries \ {rel.e} : Dropped[f] = ent[f]
<1>1. ent[rel.e] \in EntryType
  BY DEF EntriesOK
<1>2. Dropped[rel.e] = [ent[rel.e] EXCEPT !.linked = FALSE, !.gpu = @ /\ ~rel.lost]
  BY DEF EntriesOK, Dropped
<1>3. QED
  BY <1>1, <1>2 DEF EntriesOK, EntryType, Dropped

LEMMA ClimbReleaseSound == ASSUME IInv, SInv, ClimbRelease PROVE SInv'
<1>1. PICK e \in Entries : e = rel.e
  BY DEF IInv, RelOK, ClimbRelease
<1>2. EntriesOK /\ rel \in RelType /\ rel.i \in 1..11 /\ Filtering
  BY DEF IInv, RelOK, ClimbRelease, Filtering
<1> DEFINE rung == ReleaseLadder[rel.i]
           dropped == rung[2] = JBD \/ (rung[2] = "UnloadPending" /\ rel.lost)
<1>3. CASE state[e] = rung[1]
  <2>1. /\ state' = [state EXCEPT ![e] = rung[2]]
        /\ req' = [req EXCEPT ![e].aborted = @ \/ rung[2] = RCWBP]
        /\ ent' = IF dropped THEN Dropped ELSE ent
        /\ rel' = [NextEntry EXCEPT !.contained = @ \/ ~dropped,
                     !.needs = @ \/ (rung[2] = "UnloadPending" /\ ~rel.lost)]
    BY <1>1, <1>3 DEF ClimbRelease
  <2>2. state'[e] = rung[2] /\ \A f \in Entries \ {e} : state'[f] = state[f]
    BY <1>2, <2>1, StateOf
  <2>3. \A f \in Entries : req'[f].pc = req[f].pc
    BY <1>2, <2>1 DEF EntriesOK, RequestType
  <2>4. <<state[e], state'[e]>> \in ReleasePairs
    BY <1>2, <1>3, <2>2, ReleaseLeads
  <2>5. /\ rel'.pc = "filter" /\ rel'.e = NoEntry /\ rel'.todo = rel.todo /\ rel'.lost = rel.lost
        /\ dropped => rel'.contained = rel.contained
        /\ ~dropped => rel'.contained
    BY <1>2, <2>1 DEF NextEntry, RelType
  <2>6. ~rel.lost => /\ dropped <=> state'[e] = JBD
                     /\ state'[e] = JBD => ~ent'[e].linked /\ (ent'[e].gpu <=> ent[e].gpu)
                     /\ state'[e] # JBD => ent'[e] = ent[e]
    BY <1>1, <1>2, <2>1, <2>2, DroppedEntry
  <2>7. \A f \in Entries \ {e} : ent'[f] = ent[f]
    BY <1>1, <1>2, <2>1 DEF Dropped, EntriesOK
  <2>8. ~rel.lost => Sound(e)
    BY DEF SInv, EntriesSound
  <2>9. ~rel.lost => /\ Sound(e)' /\ (state[e] = "Unloading" => state'[e] = "Unloading")
                     /\ state[e] \notin NotInGPU => state'[e] \notin NotInGPU
    BY <2>3, <2>4, <2>6, <2>8 DEF ReleasePairs, Sound, NoData, NotInGPU, Leaving, Processing
  <2>10. sync' = sync
    BY DEF ClimbRelease
  <2>11. ~rel.lost => rel'.contained \/ (rel'.contained = rel.contained /\ ~ent'[e].linked)
    BY <2>5, <2>6
  <2> HIDE DEF dropped
  <2>12. QED
    BY <1>1, <1>2, <2>2, <2>3, <2>5, <2>7, <2>9, <2>10, <2>11, SettledSound
<1>4. CASE state[e] # rung[1]
  <2>1. rel' = IF rel.i < 11 THEN [rel EXCEPT !.i = @ + 1] ELSE [rel EXCEPT !.pc = "look"]
    BY <1>1, <1>4, ReleaseRungs DEF ClimbRelease
  <2>2. /\ rel'.pc \in {"climb", "look"} /\ rel'.e = rel.e /\ rel'.lost = rel.lost
        /\ rel'.todo = rel.todo /\ rel'.contained = rel.contained
    BY <1>2, <2>1 DEF RelType, ClimbRelease
  <2>3. UNCHANGED <<state, ent, req, sync>>
    BY <1>1, <1>4 DEF ClimbRelease
  <2>4. Intact'
    BY <2>2 DEF Intact, FramePass
  <2>5. PassSound => PassSound'
    BY <1>2, <2>2, <2>3 DEF PassSound, Filtering, Ending, Freed, Linked
  <2>6. QED
    BY <2>2, <2>3, <2>4, <2>5, RelGoes DEF SyncSound
<1>5. QED
  BY <1>3, <1>4

LEMMA LookStateSound == ASSUME IInv, SInv, LookState PROVE SInv'
<1>1. PICK e \in Entries : e = rel.e
  BY DEF IInv, RelOK, LookState
<1>2. EntriesOK /\ rel \in RelType /\ Filtering
  BY DEF IInv, RelOK, LookState, Filtering
<1>3. UNCHANGED <<state, req, sync>>
  BY DEF LookState
<1>4. ~rel.lost => Sound(e)
  BY DEF SInv, EntriesSound
<1> DEFINE gpu == IF state[e] = JBD THEN ent[e].gpu ELSE FALSE
<1>5. CASE state[e] = JBD \/ rel.lost
  <2>1. ent' = [Dropped EXCEPT ![e].gpu = gpu] /\ rel' = NextEntry
    BY <1>1, <1>5 DEF LookState
  <2>2. /\ rel'.pc = "filter" /\ rel'.e = NoEntry /\ rel'.todo = rel.todo
        /\ rel'.lost = rel.lost /\ rel'.contained = rel.contained
    BY <1>2, <2>1 DEF NextEntry, RelType
  <2>3. Dropped \in [Entries -> EntryType]
    BY <1>1, <1>2, DroppedOK DEF IInv
  <2>4. \A f \in Entries \ {e} : ent'[f] = ent[f]
    BY <1>1, <1>2, <2>1 DEF Dropped, EntriesOK
  <2>5. ~rel.lost => ~ent'[e].linked /\ (ent'[e].gpu <=> ent[e].gpu)
    <3> SUFFICES ASSUME ~rel.lost PROVE ~ent'[e].linked /\ (ent'[e].gpu <=> ent[e].gpu)
      OBVIOUS
    <3>1. gpu = ent[e].gpu
      BY <1>5
    <3>2. ~Dropped[e].linked
      BY <1>1, <1>2, DroppedEntry
    <3>3. ent'[e].linked = Dropped[e].linked /\ ent'[e].gpu = gpu
      BY <2>1, <2>3 DEF EntryType
    <3>4. QED
      BY <3>1, <3>2, <3>3
  <2>6. ~rel.lost => Sound(e)'
    BY <1>3, <1>4, <1>5, <2>5 DEF Sound, Leaving, Processing
  <2>7. QED
    BY <1>1, <1>2, <1>3, <2>2, <2>4, <2>5, <2>6, SettledSound
<1>6. CASE ~(state[e] = JBD \/ rel.lost)
  <2>1. ent' = ent
    BY <1>1, <1>6 DEF LookState
  <2>2. rel' = [NextEntry EXCEPT !.contained = TRUE, !.needs = @ \/
                  state[e] \in {"Uploading", "Renewing", "UnloadPending", "Unloading"}]
    BY <1>1, <1>6 DEF LookState
  <2>3. /\ rel'.pc = "filter" /\ rel'.e = NoEntry /\ rel'.todo = rel.todo
        /\ rel'.lost = rel.lost /\ rel'.contained
    BY <1>2, <2>2 DEF NextEntry, RelType
  <2>4. ~rel.lost => Sound(e)'
    BY <1>3, <1>4, <2>1 DEF Sound
  <2>5. QED
    BY <1>1, <1>2, <1>3, <2>1, <2>3, <2>4, SettledSound
<1>7. QED
  BY <1>5, <1>6

\* A pass that ends without anything left behind has emptied the collections.
LEMMA EndPassSound == ASSUME IInv, SInv, EndPass PROVE SInv'
<1>1. rel \in RelType /\ rel.pc = "filter" /\ rel.todo = {} /\ UNCHANGED <<state, ent, req, sync>>
  BY DEF IInv, RelOK, EndPass
<1>2. ~rel.lost /\ ~rel.contained => Linked = {}
  <2>1. SUFFICES ASSUME ~rel.lost, ~rel.contained PROVE Linked = {}
    OBVIOUS
  <2>2. PassSound
    BY <2>1 DEF SInv
  <2>3. Linked \subseteq {NoEntry}
    BY <1>1, <2>1, <2>2 DEF PassSound, Filtering
  <2>4. QED
    BY <2>3, BoundsAssumption DEF Linked
<1>3. /\ rel'.e = rel.e /\ rel'.lost = rel.lost
      /\ rel'.pc \in {"waitgpu", "pass", "freed", "sync"}
      /\ rel'.pc = "freed" \/ (rel'.pc = "sync" /\ rel'.ret = "freed") => ~rel.contained
      /\ rel'.pc = "sync" => rel'.ret \in {"pass", "freed"}
  <2>1. CASE rel.needs /\ mode.gpu /\ (rel.contained \/ ~rel.lost)
    <3>1. rel' = [rel EXCEPT !.pc = IF rel.contained THEN "waitgpu" ELSE "freed", !.needs = FALSE]
      BY <2>1 DEF EndPass
    <3>2. QED
      BY <1>1, <3>1 DEF RelType
  <2>2. CASE rel.needs /\ ~mode.gpu /\ (rel.contained \/ ~rel.lost)
    <3>1. rel' = [rel EXCEPT !.pc = "sync", !.ret = IF rel.contained THEN "pass" ELSE "freed",
                             !.needs = @ /\ rel.contained]
      BY <2>2 DEF EndPass
    <3>2. QED
      BY <1>1, <3>1 DEF RelType
  <2>3. CASE ~rel.needs \/ (~rel.contained /\ rel.lost)
    <3>1. To(IF rel.contained THEN "pass" ELSE "freed")
      BY <2>3 DEF EndPass
    <3>2. QED
      BY <1>1, <3>1 DEF RelType, To
  <2>4. QED
    BY <2>1, <2>2, <2>3 DEF EndPass
<1>4. Intact'
  BY <1>3 DEF Intact, FramePass
<1>5. ~rel.lost /\ PassSound => PassSound'
  <2>1. Linked' = Linked
    BY <1>1 DEF Linked
  <2>2. QED
    BY <1>1, <1>2, <1>3, <2>1 DEF PassSound, Filtering, Ending, Freed
<1>6. QED
  BY <1>1, <1>3, <1>4, <1>5, RelGoes DEF SyncSound

LEMMA ReleaseSound == ASSUME IInv, SInv, Release PROVE SInv'
BY PostAndWaitSound, StopWorkerSound, DrainPoolSound, BeginPassSound, ClimbReleaseSound,
   LookStateSound, EndPassSound, WaitGpuSound, StopGpuSound, SelfSyncedSound, SyncStepSound,
   FilterEntrySound DEF Release

-----------------------------------------------------------------------------
(* The theorems.                                                               *)

\* An entry is observed first in a state it rests in, and what serves it follows.
LEMMA SoundInitially == Init => SInv
<1> SUFFICES ASSUME Init PROVE SInv
  OBVIOUS
<1>1. EntriesSound
  <2> SUFFICES ASSUME NEW e \in Entries PROVE Sound(e)
    BY DEF EntriesSound
  <2>1. state[e] \in Resting
    BY StatesAssumption DEF Init
  <2>2. /\ ent[e].linked <=> state[e] # "Unknown"
        /\ ent[e].gpu <=> state[e] \notin NotInGPU
    BY DEF Init
  <2>3. /\ req[e].pc \in {"queued", "serving", "none"}
        /\ req[e].pc = "serving" => state[e] \in Processing
    <3>1. req[e].pc = CASE state[e] \in {"Requested", "RequestedUpdate"} -> "queued"
                        [] state[e] \in Processing -> "serving"
                        [] OTHER -> "none"
      BY DEF Init, Idle
    <3>2. CASE state[e] \in {"Requested", "RequestedUpdate"}
      BY <3>1, <3>2 DEF Processing
    <3>3. CASE state[e] \in Processing
      BY <3>1, <3>3 DEF Processing
    <3>4. CASE state[e] \notin {"Requested", "RequestedUpdate"} \cup Processing
      BY <3>1, <3>4
    <3>5. QED
      BY <3>2, <3>3, <3>4
  <2>4. QED
    BY <2>1, <2>2, <2>3 DEF Sound, Resting, NoData, Leaving, Processing
<1>2. SyncSound /\ PassSound /\ Intact
  BY DEF Init, NoSync, SyncSound, PassSound, Filtering, Ending, Freed, Intact
<1>3. QED
  BY <1>1, <1>2 DEF SInv

LEMMA SoundSteps == IInv /\ SInv /\ [Next]_vars => SInv'
<1> SUFFICES ASSUME IInv, SInv, [Next]_vars PROVE SInv'
  OBVIOUS
<1>1. CASE Next
  BY <1>1, GpuWorkerSound, OthersSound, FrameSound, ReleaseSound, StartReleaseSound,
     RequestStepSound DEF Next
<1>2. CASE UNCHANGED vars
  BY <1>2, NothingMoves DEF vars, SyncSound
<1>3. QED
  BY <1>1, <1>2

\* The state of every entry tells what its request, the GPU thread and the release
\* may rely on, in every state of every behaviour.
THEOREM SoundInvariance == Spec => []SInv
BY Invariance, SoundInitially, SoundSteps, PTL DEF Spec

\* blockingReleaseResourcesFrom() empties the collections, unless the context is lost:
\* nothing is allocated in them afterwards, and nothing left them with data in the GPU.
THEOREM ReleaseEndsClean == Spec => []ReleasedClean
<1>1. SInv => ReleasedClean
  <2> SUFFICES ASSUME SInv, ~rel.lost
               PROVE  /\ Freed => Linked = {}
                      /\ \A e \in Entries : ent[e].gpu => ent[e].linked
    BY DEF ReleasedClean
  <2>1. Freed => Linked = {}
    BY DEF SInv, PassSound, Ending
  <2>2. \A e \in Entries : ent[e].gpu => ent[e].linked
    BY DEF SInv, EntriesSound, Sound, NoData, NotInGPU, Leaving
  <2>3. QED
    BY <2>1, <2>2
<1>2. QED
  BY <1>1, SoundInvariance, PTL

\* A release with a working context that has ended waited for every request that
\* computes data: its entry would still be in a collection.
THEOREM RequestsAwaited == Spec => []ReleaseAwaitsRequests
<1>1. SInv => ReleaseAwaitsRequests
  BY DEF SInv, EntriesSound, Sound, PassSound, Ending, Linked, ReleaseAwaitsRequests
<1>2. QED
  BY <1>1, SoundInvariance, PTL

=============================================================================
