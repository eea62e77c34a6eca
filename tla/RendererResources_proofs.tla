---------------------- MODULE RendererResources_proofs ----------------------
(* Proofs about a resources collection, for any number of tiles, entries and  *)
(* tasks. In the order of the module:                                         *)
(*   - for every kind of resource: its types, and that no thread moves an     *)
(*     entry whose owner is about to store a state without a test; that no    *)
(*     entry is served by two requests; that the states tell what is in the   *)
(*     GPU;                                                                   *)
(*   - if a removal is not preempted: that it takes out its own entry only;   *)
(*   - if, besides, nothing is updated: the two assertions of the code, that  *)
(*     no entry waits in vain, and that none leaves anything behind.          *)
(* Each part has its own conjuncts of the inductive invariant, which rest on  *)
(* those of the parts before: IInv, RequestsApart, GpuTold and DataStored,    *)
(* NoneErases, NotUpdated and Served, and RemovedLeavesNothing itself.         *)
EXTENDS RendererResources, TLAPS

USE DEF RCWBP, PUWR, UCWBP, JBD

\* States in which one thread owns the entry: it will store the next one untested.
Owned == {"Requesting", "Updating", "Unloading", "IsBeingUsed"}

Legal(rung) ==
    /\ rung[1] \in ResourceState \ Owned
    /\ rung[2] \in ResourceState \ Owned

-----------------------------------------------------------------------------
(* The inductive invariant: what holds of the entries and of each thread.      *)

EntriesOK ==
    /\ kind \in Kinds
    /\ state \in [Entries -> ResourceState]
    /\ res \in [Entries -> Fields]
    /\ at \in [Tiles -> Entries \cup {NoEntry}]
    /\ Linked \subseteq Alive

\* A thread that has work holds an entry, which has not been destroyed; one that
\* climbs a ladder is on one of its rungs; the entry an owner claimed is in the
\* state it was left in.
WorkerOK ==
    /\ w \in WorkerType
    /\ w.todo \subseteq Alive
    /\ w.pc \in {"climb", "cancel", "last", "submit"} => w.e \in Entries
    /\ w.e \in Entries => w.e \in Alive
    /\ w.pc \in {"climb", "cancel"} => w.i \in 1..11
    /\ w.pc = "submit" => state[w.e] \in {"Requesting", "Updating"}

GpuOK ==
    /\ g \in GpuType
    /\ g.list \subseteq Alive
    /\ g.pc \in {"unloading", "unloaded", "claim", "transfer", "check", "settle"}
         => g.e \in Entries
    /\ g.e \in Entries => g.e \in Alive
    /\ g.pc = "claim" => g.i \in 1..3
    /\ g.pc \in {"transfer", "check"} => g.i = 1
    /\ g.pc = "settle" => g.i \in 1..3 /\ (g.out = "failed" => g.i \in 1..2)
    /\ g.pc \in {"unloading", "unloaded"} => state[g.e] = "Unloading"

RenderOK ==
    /\ r \in RenderType
    /\ r.todo \subseteq Alive
    /\ r.pc \in {"uploaded", "prepared", "junk", "hold"} => r.e \in Entries
    /\ r.e \in Entries => r.e \in Alive
    /\ r.pc = "hold" => state[r.e] = "IsBeingUsed"

TaskOK(k) ==
    /\ task[k].pc # "none" => task[k].e \in Entries
    /\ task[k].e \in Entries => task[k].e \in Alive
    /\ task[k].pc = "begin" => task[k].i \in 1..2
    /\ task[k].pc = "end" => task[k].i \in 1..3
    /\ task[k].pc = "cancel" => task[k].i \in 1..6
TasksOK == task \in [Tasks -> TaskType] /\ \A k \in Tasks : TaskOK(k)

IInv == EntriesOK /\ WorkerOK /\ GpuOK /\ RenderOK /\ TasksOK

\* No entry is destroyed, and none that is alive leaves a state of S.
AliveKept == Alive \subseteq Alive'
Kept(S) == \A e \in Alive : state[e] \in S => state'[e] = state[e]

-----------------------------------------------------------------------------
(* No ladder leads into or out of an owned state, and each has the length that *)
(* bounds its climber's index.                                                 *)

LEMMA BeginRungs == Len(BeginLadder) = 2 /\ \A i \in 1..2 : Legal(BeginLadder[i])
BY DEF BeginLadder, Legal, Owned, ResourceState

LEMMA EndRungs ==
    /\ Len(EndFailedLadder) = 3 /\ \A i \in 1..3 : Legal(EndFailedLadder[i])
    /\ \A available \in BOOLEAN : /\ Len(EndLadder(available)) = 3
                                  /\ \A i \in 1..3 : Legal(EndLadder(available)[i])
BY DEF EndFailedLadder, EndLadder, Legal, Owned, ResourceState

LEMMA CancelRungs == Len(CancelLadder) = 6 /\ \A i \in 1..6 : Legal(CancelLadder[i])
BY DEF CancelLadder, Legal, Owned, ResourceState

LEMMA UploadRungs == Len(UploadLadder) = 3 /\ \A i \in 1..3 : Legal(UploadLadder[i])
BY DEF UploadLadder, Legal, Owned, ResourceState

LEMMA UploadedRungs ==
    /\ Len(UploadFailedLadder) = 2 /\ \A i \in 1..2 : Legal(UploadFailedLadder[i])
    /\ \A outcome \in {"old", "oldTime", "fresh"} :
         /\ Len(UploadedLadder(outcome)) = 3
         /\ \A i \in 1..3 : Legal(UploadedLadder(outcome)[i])
BY DEF UploadFailedLadder, UploadedLadder, Legal, Owned, ResourceState

LEMMA CleanupRungs == Len(CleanupLadder) = 11 /\ \A i \in 1..11 : Legal(CleanupLadder[i])
BY DEF CleanupLadder, Legal, Owned, ResourceState

\* A compare-and-swap of a ladder keeps the types and every owned state.
LEMMA SwapKeeps ==
    ASSUME EntriesOK, NEW rung, Legal(rung), NEW e \in Entries, Hit(rung, e), Swap(rung, e)
    PROVE  state' \in [Entries -> ResourceState] /\ Kept(Owned)
BY DEF EntriesOK, Legal, Hit, Swap, Kept, Alive

-----------------------------------------------------------------------------
(* What a step of one thread leaves of the others' part of the invariant.      *)

LEMMA WorkerFrame ==
    ASSUME WorkerOK, w' = w, AliveKept, Kept({"Requesting", "Updating"})
    PROVE  WorkerOK'
BY DEF WorkerOK, AliveKept, Kept, WorkerType

LEMMA GpuFrame ==
    ASSUME GpuOK, g' = g, AliveKept, Kept({"Unloading"})
    PROVE  GpuOK'
BY DEF GpuOK, AliveKept, Kept, GpuType

LEMMA RenderTypeFixed == ASSUME kind' = kind PROVE RenderType' = RenderType
<1>1. RenderEvents' = RenderEvents
  BY Zenon DEF RenderEvents, IsLayer
<1>2. QED
  BY <1>1 DEF RenderType

LEMMA RenderFrame ==
    ASSUME RenderOK, kind' = kind, r' = r, AliveKept, Kept({"IsBeingUsed"})
    PROVE  RenderOK'
<1>1. r' \in RenderType'
  BY RenderTypeFixed DEF RenderOK
<1>2. QED
  BY <1>1 DEF RenderOK, AliveKept, Kept

LEMMA TasksFrame == ASSUME TasksOK, task' = task, AliveKept PROVE TasksOK'
BY DEF TasksOK, TaskOK, AliveKept

\* A step that leaves the entries alone, one that only swaps a state, and one
\* that only changes fields of entries.
LEMMA NothingMoved ==
    ASSUME UNCHANGED <<state, res>>
    PROVE  AliveKept /\ Kept(Owned)
BY DEF AliveKept, Kept, Alive

LEMMA EntriesFrame ==
    ASSUME EntriesOK, kind' = kind, state' \in [Entries -> ResourceState], UNCHANGED <<res, at>>
    PROVE  EntriesOK' /\ AliveKept
BY DEF EntriesOK, AliveKept, Alive, Linked

LEMMA FieldsFrame ==
    ASSUME EntriesOK, kind' = kind, UNCHANGED <<state, at>>, res' \in [Entries -> Fields],
           \A e \in Entries : res'[e].tile = res[e].tile
    PROVE  EntriesOK' /\ AliveKept /\ Kept(Owned)
BY DEF EntriesOK, AliveKept, Kept, Alive, Linked

LEMMA KeptSubset == ASSUME Kept(Owned) PROVE /\ Kept({"Requesting", "Updating"})
                                            /\ Kept({"Unloading"}) /\ Kept({"IsBeingUsed"})
BY DEF Kept, Owned

\* An update of one entry's fields, its tile excepted.
LEMMA FieldUpdate ==
    ASSUME EntriesOK, NEW e \in Entries, NEW f \in Fields, f.tile = res[e].tile,
           res' = [res EXCEPT ![e] = f]
    PROVE  res' \in [Entries -> Fields] /\ \A x \in Entries : res'[x].tile = res[x].tile
BY DEF EntriesOK

LEMMA UnlinkKeeps ==
    ASSUME EntriesOK, NEW e \in Entries, Unlink(e)
    PROVE  /\ res' \in [Entries -> Fields]
           /\ at' \in [Tiles -> Entries \cup {NoEntry}]
           /\ Linked' \subseteq Alive' /\ AliveKept
<1>1. [res[e] EXCEPT !.data = FALSE] \in Fields /\ [res[e] EXCEPT !.data = FALSE].tile = res[e].tile
  BY DEF EntriesOK, Fields
<1>2. res' = [res EXCEPT ![e] = [res[e] EXCEPT !.data = FALSE]]
  BY DEF Unlink
<1>3. res' \in [Entries -> Fields] /\ \A x \in Entries : res'[x].tile = res[x].tile
  BY <1>1, <1>2, FieldUpdate
<1>4. at' \in [Tiles -> Entries \cup {NoEntry}]
  BY DEF EntriesOK, Unlink
<1>5. Linked' \subseteq Linked
  BY NamesAssumption DEF EntriesOK, Unlink, Linked
<1>6. QED
  BY <1>3, <1>4, <1>5 DEF EntriesOK, AliveKept, Alive

-----------------------------------------------------------------------------
(* The resources worker.                                                       *)

LEMMA WorkerAlone ==
    ASSUME IInv, kind' = kind, UNCHANGED <<task, g, r>>, AliveKept, Kept(Owned \ {"Requesting", "Updating"}),
           EntriesOK', WorkerOK'
    PROVE  IInv'
<1>1. Kept({"Unloading"}) /\ Kept({"IsBeingUsed"})
  BY DEF Kept, Owned
<1>2. QED
  BY <1>1, GpuFrame, RenderFrame, TasksFrame DEF IInv

\* A step that changes nothing but the worker's own record.
LEMMA WorkerMoves ==
    ASSUME IInv, kind' = kind, UNCHANGED <<state, res, at, task, g, r>>, w' \in WorkerType,
           w'.todo \subseteq Alive, w'.e \in Entries => w'.e \in Alive,
           w'.pc \in {"climb", "cancel", "last", "submit"} => w'.e \in Entries,
           w'.pc \in {"climb", "cancel"} => w'.i \in 1..11, w'.pc # "submit"
    PROVE  IInv'
<1>1. EntriesOK' /\ AliveKept /\ Kept(Owned)
  BY EntriesFrame, NothingMoved DEF IInv, EntriesOK
<1>2. WorkerOK'
  BY <1>1 DEF WorkerOK, AliveKept
<1>3. Kept(Owned \ {"Requesting", "Updating"})
  BY <1>1 DEF Kept
<1>4. QED
  BY <1>1, <1>2, <1>3, WorkerAlone

LEMMA WakeWorkerKeeps == ASSUME IInv, kind' = kind, WakeWorker PROVE IInv'
<1>1. PICK need \in Zones : w' = [w EXCEPT !.pc = "visit", !.todo = Linked, !.need = need]
  BY DEF WakeWorker
<1>2. Linked \subseteq Entries /\ need \subseteq Tiles /\ Linked \subseteq Alive
  BY ZonesAssumption DEF Linked, IInv, EntriesOK
<1>3. w \in WorkerType /\ (w.e \in Entries => w.e \in Alive)
  BY DEF IInv, WorkerOK
<1>4. w' \in WorkerType /\ w'.todo = Linked /\ w'.e = w.e /\ w'.pc = "visit"
  BY <1>1, <1>2, <1>3 DEF WorkerType
<1>5. UNCHANGED <<state, res, at, task, g, r>>
  BY DEF WakeWorker
<1>6. QED
  BY <1>2, <1>3, <1>4, <1>5, WorkerMoves

LEMMA NextVisitOK ==
    ASSUME WorkerOK
    PROVE  /\ NextVisit \in WorkerType /\ NextVisit.todo = w.todo
           /\ NextVisit.pc = "visit" /\ NextVisit.e = NoEntry
BY DEF WorkerOK, WorkerType, NextVisit

\* The worker goes on to its next entry.
LEMMA WorkerVisits ==
    ASSUME WorkerOK, AliveKept, w' = NextVisit
    PROVE  WorkerOK'
BY NextVisitOK, NamesAssumption DEF WorkerOK, AliveKept

LEMMA VisitEntryKeeps ==
    ASSUME IInv, kind' = kind, NEW e \in Entries, VisitEntry(e)
    PROVE  IInv'
<1> DEFINE v == [w EXCEPT !.todo = @ \ {e}]
<1>0. /\ w \in WorkerType /\ w.todo \subseteq Alive /\ w.pc = "visit" /\ e \in w.todo
      /\ (w.e \in Entries => w.e \in Alive) /\ UNCHANGED <<task, g, r>>
  BY DEF IInv, WorkerOK, VisitEntry
<1>1. v \in WorkerType /\ v.todo \subseteq Alive /\ v.pc = "visit" /\ v.e = w.e
  BY <1>0 DEF WorkerType
<1>2. CASE state[e] = "Unloaded" /\ state' = [state EXCEPT ![e] = JBD] /\ Unlink(e) /\ w' = v
  <2>1. EntriesOK' /\ AliveKept
    BY <1>2, UnlinkKeeps DEF IInv, EntriesOK, ResourceState
  <2>2. Kept(Owned)
    BY <1>2 DEF Kept, Owned, IInv, EntriesOK, Alive
  <2>3. WorkerOK'
    BY <1>0, <1>1, <1>2, <2>1 DEF WorkerOK, AliveKept
  <2>4. QED
    BY <1>0, <2>1, <2>2, <2>3, WorkerAlone DEF Kept
<1>3. CASE /\ res' = [res EXCEPT ![e].junk = TRUE]
           /\ w' = [w EXCEPT !.pc = "climb", !.todo = @ \ {e}, !.e = e, !.i = 1]
           /\ UNCHANGED <<state, at>>
  <2>1. [res[e] EXCEPT !.junk = TRUE] \in Fields /\ [res[e] EXCEPT !.junk = TRUE].tile = res[e].tile
    BY DEF IInv, EntriesOK, Fields
  <2>2. res' = [res EXCEPT ![e] = [res[e] EXCEPT !.junk = TRUE]]
    BY <1>3
  <2>3. EntriesOK' /\ AliveKept /\ Kept(Owned)
    BY <1>3, <2>1, <2>2, FieldUpdate, FieldsFrame DEF IInv
  <2>4. w' \in WorkerType /\ w'.todo \subseteq Alive /\ w'.pc = "climb" /\ w'.e = e /\ w'.i = 1
    BY <1>0, <1>3 DEF WorkerType
  <2>5. WorkerOK'
    BY <1>0, <2>3, <2>4 DEF WorkerOK, AliveKept
  <2>6. QED
    BY <1>0, <2>3, <2>5, WorkerAlone DEF Kept
<1>4. CASE w' = v /\ UNCHANGED <<state, res, at>>
  BY <1>0, <1>1, <1>4, WorkerMoves
<1>5. QED
  BY <1>2, <1>3, <1>4 DEF VisitEntry

LEMMA ClimbCleanupKeeps == ASSUME IInv, kind' = kind, ClimbCleanup PROVE IInv'
<1> DEFINE rung == CleanupLadder[w.i]
<1>0. /\ w \in WorkerType /\ w.todo \subseteq Alive /\ w.e \in Entries /\ w.e \in Alive
      /\ w.i \in 1..11 /\ Legal(rung) /\ UNCHANGED <<task, g, r>> /\ EntriesOK /\ WorkerOK
  BY CleanupRungs DEF IInv, WorkerOK, ClimbCleanup
<1>1. ASSUME Hit(rung, w.e), Swap(rung, w.e)
      PROVE  state' \in [Entries -> ResourceState] /\ Kept(Owned)
  BY <1>0, <1>1, SwapKeeps
<1>2. CASE Hit(rung, w.e) /\ Swap(rung, w.e) /\ w' = [w EXCEPT !.pc = "cancel"] /\ UNCHANGED <<res, at>>
  <2>1. EntriesOK' /\ AliveKept /\ Kept(Owned)
    BY <1>0, <1>1, <1>2, EntriesFrame
  <2>2. w' \in WorkerType /\ w'.todo = w.todo /\ w'.pc = "cancel" /\ w'.e = w.e /\ w'.i = w.i
    BY <1>0, <1>2 DEF WorkerType
  <2>3. WorkerOK'
    BY <1>0, <2>1, <2>2 DEF WorkerOK, AliveKept
  <2>4. QED
    BY <1>0, <2>1, <2>3, WorkerAlone DEF Kept
<1>3. CASE Hit(rung, w.e) /\ Swap(rung, w.e) /\ Unlink(w.e) /\ w' = NextVisit
  <2>1. EntriesOK' /\ AliveKept
    BY <1>0, <1>1, <1>3, UnlinkKeeps DEF EntriesOK
  <2>2. WorkerOK'
    BY <1>0, <1>3, <2>1, WorkerVisits
  <2>3. QED
    BY <1>0, <1>1, <1>3, <2>1, <2>2, WorkerAlone DEF Kept
<1>4. CASE Hit(rung, w.e) /\ Swap(rung, w.e) /\ w' = NextVisit /\ UNCHANGED <<res, at>>
  <2>1. EntriesOK' /\ AliveKept /\ Kept(Owned)
    BY <1>0, <1>1, <1>4, EntriesFrame
  <2>2. WorkerOK'
    BY <1>0, <1>4, <2>1, WorkerVisits
  <2>3. QED
    BY <1>0, <2>1, <2>2, WorkerAlone DEF Kept
<1>5. CASE /\ w' = IF w.i < Len(CleanupLadder) THEN [w EXCEPT !.i = @ + 1]
                                               ELSE [w EXCEPT !.pc = "last"]
           /\ UNCHANGED <<state, res, at>>
  <2>1. /\ w' \in WorkerType /\ w'.todo = w.todo /\ w'.e = w.e
        /\ w'.pc \in {"climb", "last"} /\ (w'.pc = "climb" => w'.i \in 1..11)
    BY <1>0, <1>5, CleanupRungs DEF WorkerType, ClimbCleanup
  <2>2. QED
    BY <1>0, <1>5, <2>1, WorkerMoves
<1>6. QED
  BY <1>2, <1>3, <1>4, <1>5 DEF ClimbCleanup

LEMMA CancelRequestKeeps == ASSUME IInv, kind' = kind, CancelRequest PROVE IInv'
<1> DEFINE e == w.e
           k == res[e].cb
           dequeued == k \in Tasks /\ task[k].pc = "queued"
           gone == CleanupLadder[w.i][2] = JBD
           f == [res[e] EXCEPT !.cb = IF dequeued THEN Expired ELSE @, !.data = @ /\ ~gone]
<1>0. /\ e \in Entries /\ UNCHANGED <<state, g, r>> /\ w' = NextVisit
      /\ EntriesOK /\ WorkerOK /\ TasksOK /\ res[e] \in Fields
  BY DEF IInv, WorkerOK, EntriesOK, CancelRequest
<1>1. f \in Fields /\ f.tile = res[e].tile
  BY <1>0 DEF Fields
<1>2. res' = [res EXCEPT ![e] = f]
  BY <1>0 DEF CancelRequest
<1>3. res' \in [Entries -> Fields] /\ \A x \in Entries : res'[x].tile = res[x].tile
  BY <1>0, <1>1, <1>2, FieldUpdate
<1>4. at' = [t \in Tiles |-> IF gone /\ at[t] = e THEN NoEntry ELSE at[t]]
  BY DEF CancelRequest
<1>5. at' \in [Tiles -> Entries \cup {NoEntry}] /\ Linked' \subseteq Linked
  BY <1>0, <1>4, NamesAssumption DEF EntriesOK, Linked
<1>6. EntriesOK' /\ AliveKept /\ Kept(Owned)
  BY <1>0, <1>3, <1>5 DEF EntriesOK, AliveKept, Kept, Alive
<1>7. WorkerOK'
  BY <1>0, <1>6, WorkerVisits
<1>8. TasksOK'
  <2>1. task' = [j \in Tasks |-> IF j # k THEN task[j] ELSE IF dequeued THEN NoWork
                                 ELSE [task[j] EXCEPT !.cancel = TRUE]]
    BY DEF CancelRequest
  <2>2. NoWork \in TaskType /\ NoWork.pc = "none" /\ NoWork.e = NoEntry
    BY DEF NoWork, TaskType, TaskPc
  <2>3. ASSUME NEW j \in Tasks
        PROVE  /\ [task[j] EXCEPT !.cancel = TRUE] \in TaskType
               /\ [task[j] EXCEPT !.cancel = TRUE].pc = task[j].pc
               /\ [task[j] EXCEPT !.cancel = TRUE].e = task[j].e
               /\ [task[j] EXCEPT !.cancel = TRUE].i = task[j].i
    BY <1>0 DEF TasksOK, TaskType
  <2>4. task' \in [Tasks -> TaskType]
    BY <1>0, <2>1, <2>2, <2>3 DEF TasksOK
  <2>5. ASSUME NEW j \in Tasks PROVE TaskOK(j)'
    <3>1. \/ task'[j] = task[j] \/ task'[j] = NoWork
          \/ task'[j] = [task[j] EXCEPT !.cancel = TRUE]
      BY <2>1
    <3>2. QED
      BY <1>0, <1>6, <2>2, <2>3, <3>1, NamesAssumption DEF TasksOK, TaskOK, AliveKept
  <2>6. QED
    BY <2>4, <2>5 DEF TasksOK
<1>9. QED
  BY <1>0, <1>6, <1>7, <1>8, KeptSubset, GpuFrame, RenderFrame DEF IInv

LEMMA LastLookKeeps == ASSUME IInv, kind' = kind, LastLook PROVE IInv'
<1>0. /\ w.e \in Entries /\ UNCHANGED <<state, task, g, r>> /\ w' = NextVisit
      /\ EntriesOK /\ WorkerOK
  BY DEF IInv, WorkerOK, LastLook
<1>1. CASE Unlink(w.e)
  <2>1. EntriesOK' /\ AliveKept /\ Kept(Owned)
    BY <1>0, <1>1, UnlinkKeeps DEF EntriesOK, Kept
  <2>2. QED
    BY <1>0, <2>1, WorkerVisits, WorkerAlone DEF Kept
<1>2. CASE UNCHANGED <<res, at>>
  <2>1. EntriesOK' /\ AliveKept /\ Kept(Owned)
    BY <1>0, <1>2, EntriesFrame, NothingMoved DEF EntriesOK
  <2>2. QED
    BY <1>0, <2>1, WorkerVisits, WorkerAlone DEF Kept
<1>3. QED
  BY <1>1, <1>2 DEF LastLook

LEMMA CleanupDoneKeeps == ASSUME IInv, kind' = kind, CleanupDone PROVE IInv'
<1>1. /\ w' \in WorkerType /\ w'.todo = w.todo /\ w'.e = w.e /\ w'.pc = "request"
      /\ WorkerOK /\ UNCHANGED <<state, res, at, task, g, r>>
  BY DEF IInv, WorkerOK, WorkerType, CleanupDone
<1>2. QED
  BY <1>1, WorkerMoves DEF WorkerOK

\* A new entry, made for a tile that has none.
LEMMA NewEntry ==
    ASSUME EntriesOK, kind' = kind, NEW t \in Tiles, NEW e \in Entries \ Alive, NEW f \in Fields,
           NEW s \in ResourceState, at' = [at EXCEPT ![t] = e], f.tile = t,
           res' = [res EXCEPT ![e] = f],
           state' = [state EXCEPT ![e] = s]
    PROVE  EntriesOK' /\ AliveKept /\ Kept(Owned) /\ e \in Alive' /\ state'[e] = s
<1>2. /\ res' \in [Entries -> Fields] /\ res'[e].tile = t
      /\ \A x \in Entries : x # e => res'[x] = res[x]
  BY DEF EntriesOK
<1>3. e \in Alive' /\ AliveKept
  BY <1>2, NamesAssumption DEF Alive, AliveKept
<1>4. at' \in [Tiles -> Entries \cup {NoEntry}] /\ Linked' \subseteq Linked \cup {e}
  BY DEF EntriesOK, Linked
<1>5. QED
  BY <1>2, <1>3, <1>4 DEF EntriesOK, AliveKept, Kept

LEMMA AllocateEntryKeeps ==
    ASSUME IInv, kind' = kind, NEW t \in Tiles, NEW e \in Entries, AllocateEntry(t, e)
    PROVE  IInv'
<1>1. Entry(t) \in Fields /\ Entry(t).tile = t
  BY DEF Entry, Blank, Fields
<1>2. /\ EntriesOK /\ e \in Entries \ Alive /\ at' = [at EXCEPT ![t] = e]
      /\ res' = [res EXCEPT ![e] = Entry(t)]
      /\ state' = [state EXCEPT ![e] = "Requesting"] /\ "Requesting" \in ResourceState
  BY DEF IInv, AllocateEntry, ResourceState
<1>3. EntriesOK' /\ AliveKept /\ Kept(Owned) /\ e \in Alive' /\ state'[e] = "Requesting"
  BY <1>1, <1>2, NewEntry
<1>4. /\ w' = [w EXCEPT !.pc = "submit", !.need = @ \ {t}, !.e = e]
      /\ UNCHANGED <<task, g, r>> /\ WorkerOK
  BY DEF IInv, AllocateEntry
<1>5. w' \in WorkerType /\ w'.pc = "submit" /\ w'.e = e /\ w'.todo = w.todo
  BY <1>4 DEF WorkerOK, WorkerType
<1>6. WorkerOK'
  BY <1>3, <1>4, <1>5 DEF WorkerOK, AliveKept
<1>7. QED
  BY <1>3, <1>4, <1>6, WorkerAlone DEF Kept

LEMMA KeepEntryKeeps ==
    ASSUME IInv, kind' = kind, NEW t \in Tiles, KeepEntry(t)
    PROVE  IInv'
<1>0. /\ w' \in WorkerType /\ w'.todo = w.todo /\ w'.e = w.e /\ w'.pc = "request"
      /\ WorkerOK /\ RenderOK /\ EntriesOK /\ UNCHANGED <<res, at, task, g>>
  BY DEF IInv, WorkerOK, WorkerType, KeepEntry
<1>1. CASE UNCHANGED <<state, r>>
  BY <1>0, <1>1, WorkerMoves DEF WorkerOK
<1>2. CASE /\ r.left > 0 /\ r' = [r EXCEPT !.left = @ - 1] /\ Hit(<<"Uploaded", "Outdated">>, at[t])
           /\ Swap(<<"Uploaded", "Outdated">>, at[t])
  <2>1. state' \in [Entries -> ResourceState] /\ Kept(Owned)
    BY <1>0, <1>2 DEF EntriesOK, Kept, Owned, Hit, Swap, ResourceState, Alive
  <2>2. EntriesOK' /\ AliveKept
    BY <1>0, <2>1, EntriesFrame
  <2>3. WorkerOK'
    BY <1>0, <2>2 DEF WorkerOK, AliveKept
  <2>4. RenderOK'
    <3>1. r \in RenderType /\ kind \in Kinds
      BY <1>0 DEF RenderOK, EntriesOK
    <3>2. /\ [r EXCEPT !.left = @ - 1] \in RenderType /\ [r EXCEPT !.left = @ - 1].pc = r.pc
          /\ [r EXCEPT !.left = @ - 1].e = r.e /\ [r EXCEPT !.left = @ - 1].todo = r.todo
      BY <1>2, <3>1, BoundsAssumption DEF RenderType
    <3>3. QED
      BY <1>0, <1>2, <2>1, <2>2, <3>2, RenderTypeFixed DEF RenderOK, AliveKept, Kept, Owned
  <2>5. QED
    BY <1>0, <2>1, <2>2, <2>3, <2>4, KeptSubset, GpuFrame, TasksFrame DEF IInv
<1>3. QED
  BY <1>1, <1>2 DEF KeepEntry

LEMMA CollectOutdatedKeeps == ASSUME IInv, kind' = kind, CollectOutdated PROVE IInv'
<1> DEFINE todo == {e \in Linked : Updatable /\ state[e] = "Outdated"}
<1>0. WorkerOK /\ todo \subseteq Entries /\ todo \subseteq Alive
  BY DEF IInv, EntriesOK, Linked
<1>1. w' = [w EXCEPT !.pc = "outdated", !.todo = todo] /\ UNCHANGED <<state, res, at, task, g, r>>
  BY DEF CollectOutdated
<1> HIDE DEF todo
<1>2. w' \in WorkerType /\ w'.todo = todo /\ w'.e = w.e /\ w'.pc = "outdated"
  BY <1>0, <1>1 DEF WorkerOK, WorkerType
<1>3. QED
  BY <1>0, <1>1, <1>2, WorkerMoves DEF WorkerOK

LEMMA RequestOutdatedKeeps ==
    ASSUME IInv, kind' = kind, NEW e \in Entries, RequestOutdated(e)
    PROVE  IInv'
<1>0. /\ e \in w.todo /\ e \in Alive /\ WorkerOK /\ EntriesOK /\ w.pc = "outdated"
      /\ UNCHANGED <<res, at, task, g, r>>
  BY DEF IInv, WorkerOK, RequestOutdated
<1>1. CASE /\ state[e] = "Outdated" /\ state' = [state EXCEPT ![e] = "Updating"]
           /\ w' = [w EXCEPT !.pc = "submit", !.todo = @ \ {e}, !.e = e]
  <2>1. state' \in [Entries -> ResourceState] /\ Kept(Owned) /\ state'[e] = "Updating"
    BY <1>0, <1>1 DEF EntriesOK, Kept, Owned, ResourceState, Alive
  <2>2. EntriesOK' /\ AliveKept
    BY <1>0, <2>1, EntriesFrame
  <2>3. w' \in WorkerType /\ w'.pc = "submit" /\ w'.e = e /\ w'.todo \subseteq w.todo
    BY <1>0, <1>1 DEF WorkerOK, WorkerType
  <2>4. WorkerOK'
    BY <1>0, <2>1, <2>2, <2>3 DEF WorkerOK, AliveKept
  <2>5. QED
    BY <1>0, <2>1, <2>2, <2>4, WorkerAlone DEF Kept
<1>2. CASE w' = [w EXCEPT !.todo = @ \ {e}] /\ UNCHANGED state
  <2>1. w' \in WorkerType /\ w'.pc = "outdated" /\ w'.e = w.e /\ w'.todo \subseteq w.todo
    BY <1>0, <1>2 DEF WorkerOK, WorkerType
  <2>2. QED
    BY <1>0, <1>2, <2>1, WorkerMoves DEF WorkerOK
<1>3. QED
  BY <1>1, <1>2 DEF RequestOutdated

LEMMA SubmitRequestKeeps ==
    ASSUME IInv, kind' = kind, NEW k \in Tasks, SubmitRequest(k)
    PROVE  IInv'
<1> DEFINE e == w.e
           first == state[e] = "Requesting"
           s == IF Async THEN IF first THEN "ProcessingRequest" ELSE "ProcessingUpdate"
                         ELSE IF first THEN "Requested" ELSE "RequestedUpdate"
           old == res[e].old /\ ~Async
           f == [res[e] EXCEPT !.cb = k, !.old = old]
           x == [NoWork EXCEPT !.pc = IF Async THEN "obtain" ELSE "pending", !.e = e,
                               !.local = Async /\ ~res[e].old]
<1>0. /\ WorkerOK /\ EntriesOK /\ TasksOK /\ e \in Entries /\ e \in Alive
      /\ state[e] \in {"Requesting", "Updating"} /\ UNCHANGED <<at, g, r>>
  BY DEF IInv, WorkerOK, SubmitRequest
<1>1. state' = [state EXCEPT ![e] = s] /\ s \in ResourceState
  BY DEF SubmitRequest, ResourceState
<1> HIDE DEF s
<1>2. state' \in [Entries -> ResourceState] /\ Kept(Owned \ {"Requesting", "Updating"})
  BY <1>0, <1>1 DEF EntriesOK, Kept, Alive
<1>3. EntriesOK' /\ AliveKept
  <2>1. old \in BOOLEAN
    OBVIOUS
  <2>2. res' = [res EXCEPT ![e] = f]
    BY <1>0 DEF SubmitRequest
  <2> HIDE DEF old
  <2>5. f \in Fields /\ f.tile = res[e].tile
    <3>1. res[e] \in Fields
      BY <1>0 DEF EntriesOK
    <3>2. QED
      BY <2>1, <3>1 DEF Fields
  <2>3. res' \in [Entries -> Fields] /\ \A y \in Entries : res'[y].tile = res[y].tile
    BY <1>0, <2>2, <2>5, FieldUpdate
  <2>4. QED
    BY <1>0, <1>2, <2>3 DEF EntriesOK, AliveKept, Alive, Linked
<1>4. WorkerOK'
  <2>1. w' = [w EXCEPT !.pc = IF first THEN "request" ELSE "outdated", !.e = NoEntry]
    BY DEF SubmitRequest
  <2>2. w' \in WorkerType /\ w'.todo = w.todo /\ w'.e = NoEntry /\ w'.pc \in {"request", "outdated"}
    BY <1>0, <2>1 DEF WorkerOK, WorkerType
  <2>3. QED
    BY <1>0, <1>3, <2>2, NamesAssumption DEF WorkerOK, AliveKept
<1>5. TasksOK'
  <2>1. x \in TaskType /\ x.pc \in {"obtain", "pending"} /\ x.e = e
    BY <1>0 DEF NoWork, TaskType, TaskPc
  <2>2. task' = [task EXCEPT ![k] = x]
    BY DEF SubmitRequest
  <2> HIDE DEF x
  <2>3. task' \in [Tasks -> TaskType]
    BY <1>0, <2>1, <2>2 DEF TasksOK
  <2>4. ASSUME NEW j \in Tasks PROVE TaskOK(j)'
    <3>1. task'[j] = task[j] \/ task'[j] = x
      BY <1>0, <2>2 DEF TasksOK
    <3>2. QED
      BY <1>0, <1>3, <2>1, <3>1 DEF TasksOK, TaskOK, AliveKept
  <2>5. QED
    BY <2>3, <2>4 DEF TasksOK
<1>6. Kept({"Unloading"}) /\ Kept({"IsBeingUsed"})
  BY <1>2 DEF Kept, Owned
<1>7. QED
  BY <1>0, <1>3, <1>4, <1>5, <1>6, GpuFrame, RenderFrame DEF IInv

LEMMA EnqueueTasksKeeps == ASSUME IInv, kind' = kind, EnqueueTasks PROVE IInv'
<1>0. EntriesOK /\ TasksOK /\ UNCHANGED <<state, res, at, g, r>> /\ w' = WorkerIdle
  BY DEF IInv, EnqueueTasks
<1>1. EntriesOK' /\ AliveKept /\ Kept(Owned)
  BY <1>0, EntriesFrame, NothingMoved DEF EntriesOK
<1>2. WorkerOK'
  BY <1>0, NamesAssumption DEF WorkerOK, WorkerIdle, WorkerType
<1>3. ASSUME NEW k \in Tasks PROVE task'[k] \in TaskType /\ TaskOK(k)'
  <2>1. task[k] \in TaskType /\ TaskOK(k)
    BY <1>0 DEF TasksOK
  <2>2. task'[k] = IF task[k].pc = "pending" THEN [task[k] EXCEPT !.pc = "queued"] ELSE task[k]
    BY DEF EnqueueTasks
  <2>3. /\ [task[k] EXCEPT !.pc = "queued"] \in TaskType
        /\ [task[k] EXCEPT !.pc = "queued"].pc = "queued"
        /\ [task[k] EXCEPT !.pc = "queued"].e = task[k].e
    BY <2>1 DEF TaskType, TaskPc
  <2>4. QED
    BY <1>1, <2>1, <2>2, <2>3 DEF TaskOK, AliveKept
<1>4. TasksOK'
  BY <1>3 DEF TasksOK, EnqueueTasks
<1>5. QED
  BY <1>0, <1>1, <1>2, <1>4, KeptSubset, GpuFrame, RenderFrame DEF IInv

LEMMA WorkerKeeps == ASSUME IInv, kind' = kind, Worker PROVE IInv'
BY WakeWorkerKeeps, VisitEntryKeeps, ClimbCleanupKeeps, CancelRequestKeeps, LastLookKeeps,
   CleanupDoneKeeps, AllocateEntryKeeps, KeepEntryKeeps, CollectOutdatedKeeps,
   RequestOutdatedKeeps, SubmitRequestKeeps, EnqueueTasksKeeps DEF Worker

-----------------------------------------------------------------------------
(* The GPU thread.                                                             *)

LEMMA GpuAlone ==
    ASSUME IInv, kind' = kind, UNCHANGED <<task, w, r>>, AliveKept, Kept(Owned \ {"Unloading"}),
           EntriesOK', GpuOK'
    PROVE  IInv'
<1>1. Kept({"Requesting", "Updating"}) /\ Kept({"IsBeingUsed"})
  BY DEF Kept, Owned
<1>2. QED
  BY <1>1, WorkerFrame, RenderFrame, TasksFrame DEF IInv

\* A step that changes nothing but the GPU thread's own record.
LEMMA GpuMoves ==
    ASSUME IInv, kind' = kind, UNCHANGED <<state, res, at, task, w, r>>, g' \in GpuType,
           g'.list \subseteq Alive, g'.e \in Entries => g'.e \in Alive,
           g'.pc \in {"claim", "transfer", "check", "settle"} => g'.e \in Entries,
           g'.pc \notin {"unloading", "unloaded"},
           g'.pc = "claim" => g'.i \in 1..3, g'.pc \in {"transfer", "check"} => g'.i = 1,
           g'.pc = "settle" => g'.i \in 1..3 /\ (g'.out = "failed" => g'.i \in 1..2)
    PROVE  IInv'
<1>1. EntriesOK' /\ AliveKept /\ Kept(Owned)
  BY EntriesFrame, NothingMoved DEF IInv, EntriesOK
<1>2. GpuOK'
  BY <1>1 DEF GpuOK, AliveKept
<1>3. QED
  BY <1>1, <1>2, GpuAlone DEF Kept

LEMMA UploadableOK ==
    ASSUME EntriesOK
    PROVE  Uploadable \subseteq Entries /\ Uploadable \subseteq Alive
BY DEF EntriesOK, Uploadable, Linked

LEMMA NextUploadOK ==
    ASSUME GpuOK
    PROVE  /\ NextUpload \in GpuType /\ NextUpload.list = g.list /\ NextUpload.pc = "upload"
           /\ NextUpload.e = NoEntry
BY DEF GpuOK, GpuType, NextUpload

LEMMA CollectUnloadKeeps == ASSUME IInv, kind' = kind, CollectUnload PROVE IInv'
<1> DEFINE list == {e \in Linked : state[e] = "UnloadPending"}
<1>1. GpuOK /\ list \subseteq Entries /\ list \subseteq Alive
  BY DEF IInv, EntriesOK, Linked
<1>2. g' = [g EXCEPT !.pc = "unload", !.list = list] /\ UNCHANGED <<state, res, at, task, w, r>>
  BY DEF CollectUnload
<1> HIDE DEF list
<1>3. g' \in GpuType /\ g'.list = list /\ g'.e = g.e /\ g'.pc = "unload"
  BY <1>1, <1>2 DEF GpuOK, GpuType
<1>4. QED
  BY <1>1, <1>2, <1>3, GpuMoves DEF GpuOK

LEMMA ClaimUnloadKeeps ==
    ASSUME IInv, kind' = kind, NEW e \in Entries, ClaimUnload(e)
    PROVE  IInv'
<1>0. /\ e \in g.list /\ e \in Alive /\ GpuOK /\ EntriesOK /\ g.pc = "unload"
      /\ UNCHANGED <<res, at, task, w, r>>
  BY DEF IInv, GpuOK, ClaimUnload
<1>1. CASE /\ state[e] = "UnloadPending" /\ state' = [state EXCEPT ![e] = "Unloading"]
           /\ g' = [g EXCEPT !.pc = "unloading", !.list = @ \ {e}, !.e = e]
  <2>1. state' \in [Entries -> ResourceState] /\ Kept(Owned) /\ state'[e] = "Unloading"
    BY <1>0, <1>1 DEF EntriesOK, Kept, Owned, ResourceState, Alive
  <2>2. EntriesOK' /\ AliveKept
    BY <1>0, <2>1, EntriesFrame
  <2>3. g' \in GpuType /\ g'.pc = "unloading" /\ g'.e = e /\ g'.list \subseteq g.list
    BY <1>0, <1>1 DEF GpuOK, GpuType
  <2>4. GpuOK'
    BY <1>0, <2>1, <2>2, <2>3 DEF GpuOK, AliveKept
  <2>5. QED
    BY <1>0, <2>1, <2>2, <2>4, GpuAlone DEF Kept
<1>2. CASE g' = [g EXCEPT !.list = @ \ {e}] /\ UNCHANGED state
  <2>1. g' \in GpuType /\ g'.pc = "unload" /\ g'.e = g.e /\ g'.list \subseteq g.list
    BY <1>0, <1>2 DEF GpuOK, GpuType
  <2>2. QED
    BY <1>0, <1>2, <2>1, GpuMoves DEF GpuOK
<1>3. QED
  BY <1>1, <1>2 DEF ClaimUnload

LEMMA UnloadFromGPUKeeps == ASSUME IInv, kind' = kind, UnloadFromGPU PROVE IInv'
<1> DEFINE f == [res[g.e] EXCEPT !.gpu = FALSE, !.stale = FALSE]
<1>0. /\ g.e \in Entries /\ GpuOK /\ EntriesOK /\ g.pc = "unloading"
      /\ UNCHANGED <<state, at, task, w, r>> /\ res[g.e] \in Fields
  BY DEF IInv, GpuOK, EntriesOK, UnloadFromGPU
<1>1. f \in Fields /\ f.tile = res[g.e].tile
  BY <1>0 DEF Fields
<1>2. res' = [res EXCEPT ![g.e] = f]
  BY <1>0 DEF UnloadFromGPU
<1>3. EntriesOK' /\ AliveKept /\ Kept(Owned)
  BY <1>0, <1>1, <1>2, FieldUpdate, FieldsFrame
<1>4. g' \in GpuType /\ g'.pc = "unloaded" /\ g'.e = g.e /\ g'.list = g.list
  BY <1>0 DEF GpuOK, GpuType, UnloadFromGPU
<1>5. GpuOK'
  BY <1>0, <1>3, <1>4 DEF GpuOK, AliveKept
<1>6. QED
  BY <1>0, <1>3, <1>5, GpuAlone DEF Kept

LEMMA MarkUnloadedKeeps == ASSUME IInv, kind' = kind, MarkUnloaded PROVE IInv'
<1>0. /\ g.e \in Entries /\ GpuOK /\ EntriesOK /\ state[g.e] = "Unloading"
      /\ UNCHANGED <<res, at, task, w, r>>
  BY DEF IInv, GpuOK, MarkUnloaded
<1>1. state' \in [Entries -> ResourceState] /\ Kept(Owned \ {"Unloading"})
  BY <1>0 DEF EntriesOK, Kept, Owned, ResourceState, Alive, MarkUnloaded
<1>2. EntriesOK' /\ AliveKept
  BY <1>0, <1>1, EntriesFrame
<1>3. g' \in GpuType /\ g'.pc = "unload" /\ g'.e = NoEntry /\ g'.list = g.list
  BY <1>0 DEF GpuOK, GpuType, MarkUnloaded
<1>4. GpuOK'
  BY <1>0, <1>2, <1>3, NamesAssumption DEF GpuOK, AliveKept
<1>5. QED
  BY <1>0, <1>1, <1>2, <1>4, GpuAlone

LEMMA CollectUploadKeeps == ASSUME IInv, kind' = kind, CollectUpload PROVE IInv'
<1>1. GpuOK /\ Uploadable \subseteq Entries /\ Uploadable \subseteq Alive
  BY UploadableOK DEF IInv
<1>2. /\ g' = [g EXCEPT !.pc = "upload", !.list = Uploadable]
      /\ UNCHANGED <<state, res, at, task, w, r>>
  BY DEF CollectUpload
<1>3. g' \in GpuType /\ g'.list = Uploadable /\ g'.e = g.e /\ g'.pc = "upload"
  BY <1>1, <1>2 DEF GpuOK, GpuType
<1>4. QED
  BY <1>1, <1>2, <1>3, GpuMoves DEF GpuOK

LEMMA PickUploadKeeps ==
    ASSUME IInv, kind' = kind, NEW e \in Entries, PickUpload(e)
    PROVE  IInv'
<1>0. e \in Alive /\ GpuOK /\ UNCHANGED <<state, res, at, task, w, r>>
  BY DEF IInv, GpuOK, PickUpload
<1>1. g' \in GpuType /\ g'.pc = "claim" /\ g'.e = e /\ g'.i = 1 /\ g'.list \subseteq g.list
  BY <1>0 DEF GpuOK, GpuType, PickUpload
<1>2. QED
  BY <1>0, <1>1, GpuMoves DEF GpuOK

LEMMA ClaimUploadKeeps == ASSUME IInv, kind' = kind, ClaimUpload PROVE IInv'
<1> DEFINE rung == UploadLadder[g.i]
<1>0. /\ GpuOK /\ EntriesOK /\ g.e \in Entries /\ g.e \in Alive /\ g.i \in 1..3 /\ Legal(rung)
      /\ g.pc = "claim" /\ UNCHANGED <<res, at, task, w, r>>
  BY UploadRungs DEF IInv, GpuOK, ClaimUpload
<1>1. CASE Hit(rung, g.e) /\ Swap(rung, g.e) /\ g' = [g EXCEPT !.pc = "transfer", !.i = 1]
  <2>1. EntriesOK' /\ AliveKept /\ Kept(Owned)
    BY <1>0, <1>1, SwapKeeps, EntriesFrame
  <2>2. g' \in GpuType /\ g'.pc = "transfer" /\ g'.i = 1 /\ g'.e = g.e /\ g'.list = g.list
    BY <1>0, <1>1 DEF GpuOK, GpuType
  <2>3. GpuOK'
    BY <1>0, <2>1, <2>2 DEF GpuOK, AliveKept
  <2>4. QED
    BY <1>0, <2>1, <2>3, GpuAlone DEF Kept
<1>2. CASE /\ UNCHANGED state
           /\ g' = IF g.i < Len(UploadLadder) THEN [g EXCEPT !.i = @ + 1] ELSE NextUpload
  <2>1. CASE g.i < 3
    <3>1. g' = [g EXCEPT !.i = @ + 1]
      BY <1>2, <2>1, UploadRungs
    <3>2. g' \in GpuType /\ g'.pc = "claim" /\ g'.i \in 1..3 /\ g'.e = g.e /\ g'.list = g.list
      BY <1>0, <2>1, <3>1 DEF GpuOK, GpuType
    <3>3. QED
      BY <1>0, <1>2, <3>2, GpuMoves DEF GpuOK
  <2>2. CASE ~(g.i < 3)
    BY <1>0, <1>2, <2>2, UploadRungs, NextUploadOK, NamesAssumption, GpuMoves DEF GpuOK
  <2>3. QED
    BY <2>1, <2>2
<1>3. QED
  BY <1>1, <1>2 DEF ClaimUpload

LEMMA UploadToGPUKeeps == ASSUME IInv, kind' = kind, UploadToGPU PROVE IInv'
<1> DEFINE f == [res[g.e] EXCEPT !.gpu = TRUE, !.stale = FALSE]
<1>0. /\ GpuOK /\ EntriesOK /\ g.e \in Entries /\ g.e \in Alive /\ g.i = 1 /\ g.pc = "transfer"
      /\ UNCHANGED <<state, at, task, w, r>> /\ res[g.e] \in Fields
  BY DEF IInv, EntriesOK, GpuOK, UploadToGPU
<1>1. EntriesOK' /\ AliveKept /\ Kept(Owned)
  <2>1. f \in Fields /\ f.tile = res[g.e].tile
    BY <1>0 DEF Fields
  <2>2. res' = [res EXCEPT ![g.e] = f] \/ res' = res
    BY <1>0 DEF UploadToGPU
  <2>3. CASE res' = [res EXCEPT ![g.e] = f]
    BY <1>0, <2>1, <2>3, FieldUpdate, FieldsFrame
  <2>4. CASE res' = res
    BY <1>0, <2>4, EntriesFrame, NothingMoved DEF EntriesOK
  <2>5. QED
    BY <2>2, <2>3, <2>4
<1>2. /\ g' \in GpuType /\ g'.pc \in {"check", "settle"} /\ g'.i = 1 /\ g'.e = g.e
      /\ g'.list = g.list
  <2>1. g' = [g EXCEPT !.pc = "check"] \/ g' = [g EXCEPT !.pc = "settle", !.out = "failed"]
    BY DEF UploadToGPU
  <2>2. QED
    BY <1>0, <2>1 DEF GpuOK, GpuType
<1>3. GpuOK'
  BY <1>0, <1>1, <1>2 DEF GpuOK, AliveKept
<1>4. QED
  BY <1>0, <1>1, <1>3, GpuAlone DEF Kept

LEMMA CheckOldKeeps == ASSUME IInv, kind' = kind, CheckOld PROVE IInv'
<1>0. GpuOK /\ g.pc = "check" /\ UNCHANGED <<state, res, at, task, w, r>>
  BY DEF IInv, CheckOld
<1>1. g' \in GpuType /\ g'.pc = "settle" /\ g'.i = 1 /\ g'.e = g.e /\ g'.list = g.list
  BY <1>0 DEF GpuOK, GpuType, CheckOld
<1>2. QED
  BY <1>0, <1>1, GpuMoves DEF GpuOK

\* The index after a missed rung is that of a rung again.
LEMMA NextRung ==
    ASSUME NEW i \in 1..3, NEW n \in 2..3, i < n
    PROVE  i + 1 \in 1..3 /\ (n = 2 => i + 1 \in 1..2)
OBVIOUS

LEMMA SettleUploadKeeps == ASSUME IInv, kind' = kind, SettleUpload PROVE IInv'
<1> DEFINE ladder == IF g.out = "failed" THEN UploadFailedLadder ELSE UploadedLadder(g.out)
           rung == ladder[g.i]
           again == g.again \/ (g.out = "oldTime" /\ rung[1] # PUWR)
           oldTime == res[g.e].oldTime /\ g.out # "oldTime"
           f == [res[g.e] EXCEPT !.oldTime = oldTime]
<1>0. /\ GpuOK /\ EntriesOK /\ g.e \in Entries /\ g.e \in Alive /\ g.i \in 1..3
      /\ g.pc = "settle"
      /\ g.out \in {"failed", "old", "oldTime", "fresh"} /\ res[g.e] \in Fields
      /\ UNCHANGED <<at, task, w, r>>
  BY DEF IInv, EntriesOK, GpuOK, GpuType, SettleUpload
<1>1. /\ g.out = "failed" => ladder = UploadFailedLadder /\ g.i \in 1..2
      /\ g.out # "failed" => ladder = UploadedLadder(g.out) /\ g.out \in {"old", "oldTime", "fresh"}
  BY <1>0 DEF GpuOK
<1>2. /\ g.out = "failed" => Len(ladder) = 2 /\ Legal(rung)
      /\ g.out # "failed" => Len(ladder) = 3 /\ Legal(rung)
  BY <1>0, <1>1, UploadedRungs
<1>3. again \in BOOLEAN /\ oldTime \in BOOLEAN
  BY <1>0 DEF GpuOK, GpuType
<1>4. \/ /\ Hit(rung, g.e) /\ Swap(rung, g.e) /\ g' = [NextUpload EXCEPT !.again = again]
         /\ res' = [res EXCEPT ![g.e] = f]
      \/ /\ g' = IF g.i < Len(ladder) THEN [g EXCEPT !.i = @ + 1] ELSE NextUpload
         /\ UNCHANGED <<state, res>>
  BY <1>0 DEF SettleUpload, NextUpload
<1> HIDE DEF ladder, again, oldTime
<1>5. CASE /\ Hit(rung, g.e) /\ Swap(rung, g.e) /\ g' = [NextUpload EXCEPT !.again = again]
           /\ res' = [res EXCEPT ![g.e] = f]
  <2>1. state' \in [Entries -> ResourceState] /\ Kept(Owned)
    BY <1>0, <1>2, <1>5, SwapKeeps
  <2>2. f \in Fields /\ f.tile = res[g.e].tile
    BY <1>0, <1>3 DEF Fields
  <2>3. res' \in [Entries -> Fields] /\ \A x \in Entries : res'[x].tile = res[x].tile
    BY <1>0, <1>5, <2>2, FieldUpdate
  <2>4. EntriesOK' /\ AliveKept
    BY <1>0, <2>1, <2>3 DEF EntriesOK, AliveKept, Alive, Linked
  <2>5. g' \in GpuType /\ g'.pc = "upload" /\ g'.e = NoEntry /\ g'.list = g.list
    BY <1>0, <1>3, <1>5, NextUploadOK DEF GpuType
  <2>6. GpuOK'
    BY <1>0, <2>4, <2>5, NamesAssumption DEF GpuOK, AliveKept
  <2>7. QED
    BY <1>0, <2>1, <2>4, <2>6, GpuAlone DEF Kept
<1>6. CASE /\ g' = IF g.i < Len(ladder) THEN [g EXCEPT !.i = @ + 1] ELSE NextUpload
           /\ UNCHANGED <<state, res>>
  <2>1. CASE g.i < Len(ladder)
    <3>1. /\ g' \in GpuType /\ g'.pc = "settle" /\ g'.i = g.i + 1 /\ g'.e = g.e
          /\ g'.list = g.list /\ g'.out = g.out
      BY <1>0, <1>6, <2>1 DEF GpuOK, GpuType
    <3>2. g'.i \in 1..3 /\ (g'.out = "failed" => g'.i \in 1..2)
      <4>1. /\ g.i \in 1..3 /\ Len(ladder) \in 2..3 /\ g.i < Len(ladder)
            /\ g.out = "failed" => Len(ladder) = 2
        BY <1>0, <1>2, <2>1
      <4>2. g.i + 1 \in 1..3 /\ (Len(ladder) = 2 => g.i + 1 \in 1..2)
        BY <4>1, NextRung
      <4>3. QED
        BY <3>1, <4>1, <4>2
    <3>3. QED
      BY <1>0, <1>6, <3>1, <3>2, GpuMoves DEF GpuOK
  <2>2. CASE ~(g.i < Len(ladder))
    BY <1>0, <1>6, <2>2, NextUploadOK, NamesAssumption, GpuMoves DEF GpuOK
  <2>3. QED
    BY <2>1, <2>2
<1>7. QED
  BY <1>4, <1>5, <1>6

LEMMA UploadAgainKeeps == ASSUME IInv, kind' = kind, UploadAgain PROVE IInv'
<1>1. /\ GpuOK /\ Uploadable \subseteq Entries /\ Uploadable \subseteq Alive /\ g.pc = "upload"
      /\ UNCHANGED <<state, res, at, task, w, r>>
  BY UploadableOK DEF IInv, UploadAgain
<1>2. g' = [g EXCEPT !.list = Uploadable, !.pass = 2, !.again = FALSE]
  BY DEF UploadAgain
<1>3. g \in GpuType /\ 2 \in 1..2 /\ Uploadable \in SUBSET Entries
  BY <1>1 DEF GpuOK
<1>4. g' \in GpuType /\ g'.list = Uploadable /\ g'.e = g.e /\ g'.pc = "upload"
  BY <1>1, <1>2, <1>3 DEF GpuType
<1>5. QED
  BY <1>1, <1>4, GpuMoves DEF GpuOK

LEMMA SyncDoneKeeps == ASSUME IInv, kind' = kind, SyncDone PROVE IInv'
<1>1. /\ g' \in GpuType /\ g'.pc = "idle" /\ g'.e = NoEntry /\ g'.list = {}
      /\ UNCHANGED <<state, res, at, task, w, r>>
  BY DEF SyncDone, GpuIdle, GpuType
<1>2. QED
  BY <1>1, NamesAssumption, GpuMoves

LEMMA GpuKeeps == ASSUME IInv, kind' = kind, Gpu PROVE IInv'
BY CollectUnloadKeeps, ClaimUnloadKeeps, UnloadFromGPUKeeps, MarkUnloadedKeeps,
   CollectUploadKeeps, PickUploadKeeps, ClaimUploadKeeps, UploadToGPUKeeps, CheckOldKeeps,
   SettleUploadKeeps, UploadAgainKeeps, SyncDoneKeeps DEF Gpu

-----------------------------------------------------------------------------
(* The render thread.                                                          *)

LEMMA RenderAlone ==
    ASSUME IInv, kind' = kind, UNCHANGED <<task, w, g>>, AliveKept, Kept(Owned \ {"IsBeingUsed"}),
           EntriesOK', RenderOK'
    PROVE  IInv'
<1>1. Kept({"Requesting", "Updating"}) /\ Kept({"Unloading"})
  BY DEF Kept, Owned
<1>2. QED
  BY <1>1, WorkerFrame, GpuFrame, TasksFrame DEF IInv

\* A step that changes states only as Kept allows, and the thread's own record.
LEMMA RenderMoves ==
    ASSUME IInv, kind' = kind, UNCHANGED <<res, at, task, w, g>>,
           state' \in [Entries -> ResourceState], Kept(Owned \ {"IsBeingUsed"}), r' \in RenderType,
           r'.todo \subseteq Alive, r'.e \in Entries => r'.e \in Alive,
           r'.pc \in {"uploaded", "prepared", "junk", "hold"} => r'.e \in Entries,
           r'.pc = "hold" => state'[r'.e] = "IsBeingUsed"
    PROVE  IInv'
<1>1. EntriesOK' /\ AliveKept
  BY EntriesFrame DEF IInv
<1>2. RenderOK'
  BY <1>1, RenderTypeFixed DEF RenderOK, AliveKept
<1>3. QED
  BY <1>1, <1>2, RenderAlone

LEMMA Unmoved ==
    ASSUME IInv, UNCHANGED <<state, res>>
    PROVE  state' \in [Entries -> ResourceState] /\ Kept(Owned) /\ Kept(Owned \ {"IsBeingUsed"})
BY DEF IInv, EntriesOK, Kept

LEMMA RenderEventKeeps ==
    ASSUME IInv, kind' = kind, NEW ev \in RenderEvents, RenderEvent(ev)
    PROVE  IInv'
<1>0. /\ EntriesOK /\ RenderOK /\ r \in RenderType /\ kind \in Kinds /\ r.left > 0
      /\ UNCHANGED <<state, at, task, w, g>>
      /\ r' = [r EXCEPT !.pc = "set", !.ev = ev, !.left = @ - 1]
  BY DEF IInv, EntriesOK, RenderOK, RenderEvent
<1>1. EntriesOK' /\ AliveKept /\ Kept(Owned)
  <2>1. CASE res' = [e \in Entries |-> [res[e] EXCEPT !.stale = res[e].gpu]]
    <3>1. ASSUME NEW e \in Entries
          PROVE  res'[e] \in Fields /\ res'[e].tile = res[e].tile
      BY <1>0, <2>1 DEF EntriesOK, Fields
    <3>2. res' \in [Entries -> Fields]
      BY <2>1, <3>1
    <3>3. QED
      BY <1>0, <3>1, <3>2, FieldsFrame
  <2>2. CASE res' = res
    BY <1>0, <2>2, EntriesFrame, NothingMoved DEF EntriesOK
  <2>3. QED
    BY <2>1, <2>2 DEF RenderEvent
<1>2. r' \in RenderType /\ r'.pc = "set" /\ r'.e = r.e /\ r'.todo = r.todo
  <2>1. r.left - 1 \in 0..MaxEvents[kind]
    BY <1>0, BoundsAssumption DEF RenderType
  <2>2. ev \in RenderEvents \cup {"none"}
    OBVIOUS
  <2>3. QED
    BY <1>0, <2>1, <2>2 DEF RenderType
<1>3. RenderOK'
  BY <1>0, <1>1, <1>2, RenderTypeFixed DEF RenderOK, AliveKept
<1>4. QED
  BY <1>0, <1>1, <1>3, RenderAlone DEF Kept

LEMMA RenderScanKeeps == ASSUME IInv, kind' = kind, RenderScan PROVE IInv'
<1>1. /\ Linked \subseteq Entries /\ Linked \subseteq Alive /\ RenderOK
      /\ UNCHANGED <<state, res, at, task, w, g>>
      /\ r' = [r EXCEPT !.pc = "scan", !.todo = Linked]
  BY DEF IInv, EntriesOK, Linked, RenderScan
<1>2. r' \in RenderType /\ r'.pc = "scan" /\ r'.e = r.e /\ r'.todo = Linked
  BY <1>1 DEF RenderOK, RenderType
<1>3. QED
  BY <1>1, <1>2, Unmoved, RenderMoves DEF RenderOK

LEMMA RenderReadKeeps ==
    ASSUME IInv, kind' = kind, NEW e \in Entries, RenderRead(e)
    PROVE  IInv'
<1> DEFINE junk == res[e].junk \/ r.ev = "validate"
           oldTime == \/ res[e].oldTime
                      \/ r.ev \in {"time", "detail"} /\ state[e] \in {"Uploading", "Renewing"}
           f == [res[e] EXCEPT !.junk = junk, !.oldTime = oldTime]
<1>0. /\ EntriesOK /\ RenderOK /\ e \in r.todo /\ e \in Alive /\ res[e] \in Fields
      /\ state[e] \in ResourceState /\ UNCHANGED <<state, at, task, w, g>>
  BY DEF IInv, EntriesOK, RenderOK, RenderRead
<1>1. junk \in BOOLEAN /\ oldTime \in BOOLEAN
  BY <1>0 DEF Fields
<1>2. res' = [res EXCEPT ![e] = f]
  BY DEF RenderRead
<1> HIDE DEF junk, oldTime
<1>3. f \in Fields /\ f.tile = res[e].tile
  BY <1>0, <1>1 DEF Fields
<1>4. EntriesOK' /\ AliveKept /\ Kept(Owned)
  BY <1>0, <1>2, <1>3, FieldUpdate, FieldsFrame
<1>5. /\ r' \in RenderType /\ r'.pc \in {"scan", "uploaded"} /\ r'.e = e
      /\ r'.todo \subseteq r.todo
  <2>1. PICK pc \in {"scan", "uploaded"} :
          r' = [r EXCEPT !.pc = pc, !.todo = @ \ {e}, !.e = e, !.seen = state[e]]
    BY DEF RenderRead
  <2>2. r \in RenderType
    BY <1>0 DEF RenderOK
  <2>3. r'.pc = pc /\ r'.e = e /\ r'.todo = r.todo \ {e}
    BY <2>1, <2>2 DEF RenderType
  <2>4. r' \in RenderType
    BY <1>0, <2>1, <2>2 DEF RenderType
  <2>5. QED
    BY <2>3, <2>4
<1>6. RenderOK'
  BY <1>0, <1>4, <1>5, RenderTypeFixed DEF RenderOK, AliveKept
<1>7. QED
  BY <1>0, <1>4, <1>6, RenderAlone DEF Kept

\* The steps that only move the thread on with the entry it has.
LEMMA RenderPcKeeps ==
    ASSUME IInv, kind' = kind, UNCHANGED <<res, at, task, w, g>>,
           state' \in [Entries -> ResourceState], Kept(Owned \ {"IsBeingUsed"}), r.e \in Entries,
           NEW pc \in {"scan", "prepared", "junk"}, r' = [r EXCEPT !.pc = pc]
    PROVE  IInv'
<1>1. r' \in RenderType /\ r'.pc = pc /\ r'.e = r.e /\ r'.todo = r.todo
  BY DEF IInv, RenderOK, RenderType
<1>2. QED
  BY <1>1, RenderMoves DEF IInv, RenderOK

LEMMA RenderUploadedKeeps == ASSUME IInv, kind' = kind, RenderUploaded PROVE IInv'
<1>0. /\ r.e \in Entries /\ UNCHANGED <<res, at, task, w, g>>
      /\ state \in [Entries -> ResourceState]
  BY DEF IInv, EntriesOK, RenderOK, RenderUploaded
<1>1. Shown \in ResourceState
  BY Zenon DEF Shown, ResourceState
<1>2. PICK pc \in {"scan", "prepared", "junk"} : r' = [r EXCEPT !.pc = pc]
  <2>1. \/ r' = [r EXCEPT !.pc = IF r.ev = "renew" THEN "prepared" ELSE "scan"]
        \/ r' = [r EXCEPT !.pc = "prepared"]
        \/ r' = [r EXCEPT !.pc = "scan"]
    BY DEF RenderUploaded
  <2>2. QED
    BY <2>1
<1>3. state' \in [Entries -> ResourceState] /\ Kept(Owned \ {"IsBeingUsed"})
  <2>1. \/ state[r.e] = "Uploaded" /\ state' = [state EXCEPT ![r.e] = Shown]
        \/ state' = state
    BY DEF RenderUploaded, Hit, Swap
  <2>2. CASE state[r.e] = "Uploaded" /\ state' = [state EXCEPT ![r.e] = Shown]
    BY <1>0, <1>1, <2>2 DEF Kept, Owned, Alive
  <2>3. CASE state' = state
    BY <1>0, <2>3 DEF Kept
  <2>4. QED
    BY <2>1, <2>2, <2>3
<1>4. QED
  BY <1>0, <1>2, <1>3, RenderPcKeeps

LEMMA RenderPreparedKeeps == ASSUME IInv, kind' = kind, RenderPrepared PROVE IInv'
<1>0. /\ r.e \in Entries /\ UNCHANGED <<res, at, task, w, g>>
      /\ state \in [Entries -> ResourceState]
  BY DEF IInv, EntriesOK, RenderOK, RenderPrepared
<1>1. PICK pc \in {"scan", "prepared", "junk"} : r' = [r EXCEPT !.pc = pc]
  <2>1. \/ r' = [r EXCEPT !.pc = "scan"]
        \/ r' = [r EXCEPT !.pc = IF r.ev = "renew" THEN "scan" ELSE "junk"]
    BY DEF RenderPrepared
  <2>2. QED
    BY <2>1
<1>2. state' \in [Entries -> ResourceState] /\ Kept(Owned \ {"IsBeingUsed"})
  <2>1. \/ state[r.e] = "PreparingRenew" /\ state' = [state EXCEPT ![r.e] = "PreparedRenew"]
        \/ state[r.e] = "PreparedRenew" /\ state' = [state EXCEPT ![r.e] = "Outdated"]
        \/ state' = state
    BY DEF RenderPrepared, Hit, Swap
  <2>2. CASE state[r.e] = "PreparingRenew" /\ state' = [state EXCEPT ![r.e] = "PreparedRenew"]
    BY <1>0, <2>2 DEF Kept, Owned, ResourceState, Alive
  <2>3. CASE state[r.e] = "PreparedRenew" /\ state' = [state EXCEPT ![r.e] = "Outdated"]
    BY <1>0, <2>3 DEF Kept, Owned, ResourceState, Alive
  <2>4. CASE state' = state
    BY <1>0, <2>4 DEF Kept
  <2>5. QED
    BY <2>1, <2>2, <2>3, <2>4
<1>3. QED
  BY <1>0, <1>1, <1>2, RenderPcKeeps

LEMMA RenderJunkKeeps == ASSUME IInv, kind' = kind, RenderJunk PROVE IInv'
<1> DEFINE junk == res[r.e].junk \/ r.seen \in
             {"ProcessingRequest", "ProcessingUpdate", PUWR, "Unavailable", "Ready",
              "Uploading", "Uploaded", "PreparedRenew", "Renewing"}
           f == [res[r.e] EXCEPT !.junk = junk]
<1>0. /\ EntriesOK /\ RenderOK /\ r.e \in Entries /\ res[r.e] \in Fields /\ r.pc = "junk"
      /\ UNCHANGED <<state, at, task, w, g>>
  BY DEF IInv, EntriesOK, RenderOK, RenderJunk
<1>1. junk \in BOOLEAN
  BY <1>0 DEF Fields
<1>2. res' = [res EXCEPT ![r.e] = f]
  BY DEF RenderJunk
<1> HIDE DEF junk
<1>3. f \in Fields /\ f.tile = res[r.e].tile
  BY <1>0, <1>1 DEF Fields
<1>4. EntriesOK' /\ AliveKept /\ Kept(Owned)
  BY <1>0, <1>2, <1>3, FieldUpdate, FieldsFrame
<1>5. r' \in RenderType /\ r'.pc = "scan" /\ r'.e = r.e /\ r'.todo = r.todo
  BY <1>0 DEF RenderOK, RenderType, RenderJunk
<1>6. RenderOK'
  BY <1>0, <1>4, <1>5, RenderTypeFixed DEF RenderOK, AliveKept
<1>7. QED
  BY <1>0, <1>4, <1>6, RenderAlone DEF Kept

LEMMA RenderDoneKeeps == ASSUME IInv, kind' = kind, RenderDone PROVE IInv'
<1>1. /\ RenderOK /\ UNCHANGED <<state, res, at, task, w, g>>
      /\ r' = [r EXCEPT !.pc = "idle", !.e = NoEntry, !.seen = "Unknown", !.ev = "none"]
  BY DEF IInv, RenderDone
<1>2. r' \in RenderType /\ r'.pc = "idle" /\ r'.e = NoEntry /\ r'.todo = r.todo
  <2>1. r \in RenderType /\ "Unknown" \in ResourceState
    BY <1>1 DEF RenderOK, ResourceState
  <2>2. QED
    BY <1>1, <2>1 DEF RenderType
<1>3. QED
  BY <1>1, <1>2, Unmoved, NamesAssumption, RenderMoves DEF RenderOK

LEMMA HoldSymbolKeeps ==
    ASSUME IInv, kind' = kind, NEW e \in Entries, HoldSymbol(e)
    PROVE  IInv'
<1>0. /\ e \in Alive /\ RenderOK /\ EntriesOK /\ state[e] = "Uploaded"
      /\ state' = [state EXCEPT ![e] = "IsBeingUsed"] /\ UNCHANGED <<res, at, task, w, g>>
  BY DEF IInv, EntriesOK, HoldSymbol, Hit, Swap
<1>1. /\ state' \in [Entries -> ResourceState] /\ Kept(Owned \ {"IsBeingUsed"})
      /\ state'[e] = "IsBeingUsed"
  BY <1>0 DEF EntriesOK, Kept, Owned, ResourceState
<1>2. r' \in RenderType /\ r'.pc = "hold" /\ r'.e = e /\ r'.todo = r.todo
  BY <1>0 DEF RenderOK, RenderType, HoldSymbol
<1>3. QED
  BY <1>0, <1>1, <1>2, RenderMoves DEF RenderOK

LEMMA ReleaseSymbolKeeps == ASSUME IInv, kind' = kind, ReleaseSymbol PROVE IInv'
<1>0. /\ r.e \in Entries /\ RenderOK /\ EntriesOK /\ state[r.e] = "IsBeingUsed"
      /\ state' = [state EXCEPT ![r.e] = "Uploaded"] /\ UNCHANGED <<res, at, task, w, g>>
  BY DEF IInv, RenderOK, ReleaseSymbol
<1>1. state' \in [Entries -> ResourceState] /\ Kept(Owned \ {"IsBeingUsed"})
  BY <1>0 DEF EntriesOK, Kept, Owned, ResourceState
<1>2. r' \in RenderType /\ r'.pc = "idle" /\ r'.e = NoEntry /\ r'.todo = r.todo
  BY <1>0 DEF RenderOK, RenderType, ReleaseSymbol
<1>3. QED
  BY <1>0, <1>1, <1>2, NamesAssumption, RenderMoves DEF RenderOK

LEMMA RenderKeeps == ASSUME IInv, kind' = kind, Render PROVE IInv'
BY RenderEventKeeps, RenderScanKeeps, RenderReadKeeps, RenderUploadedKeeps,
   RenderPreparedKeeps, RenderJunkKeeps, RenderDoneKeeps, HoldSymbolKeeps, ReleaseSymbolKeeps
   DEF Render

-----------------------------------------------------------------------------
(* The request tasks.                                                          *)

\* A task's step that leaves its thread fields typed and indexed.
LEMMA TaskAlone ==
    ASSUME IInv, kind' = kind, UNCHANGED <<w, g, r>>, AliveKept, Kept(Owned), EntriesOK', TasksOK'
    PROVE  IInv'
BY KeptSubset, WorkerFrame, GpuFrame, RenderFrame DEF IInv

\* One task's record is replaced; the entry it serves stays.
LEMMA TaskReplaced ==
    ASSUME TasksOK, AliveKept, NEW k \in Tasks, task[k].pc # "none", NEW x \in TaskType,
           task' = [task EXCEPT ![k] = x], x.e = task[k].e,
           x.pc = "begin" => x.i \in 1..2, x.pc = "end" => x.i \in 1..3,
           x.pc = "cancel" => x.i \in 1..6
    PROVE  TasksOK'
<1>1. task' \in [Tasks -> TaskType]
  BY DEF TasksOK
<1>2. ASSUME NEW j \in Tasks PROVE TaskOK(j)'
  <2>1. (j # k /\ task'[j] = task[j]) \/ (j = k /\ task'[j] = x)
    BY DEF TasksOK
  <2>2. QED
    BY <2>1 DEF TasksOK, TaskOK, AliveKept
<1>3. QED
  BY <1>1, <1>2 DEF TasksOK

LEMMA FirstRung == 1 \in 1..2 /\ 1 \in 1..3 /\ 1 \in 1..6
OBVIOUS

\* A task goes on from the first rung of whatever it climbs next.
LEMMA TaskRestarted ==
    ASSUME TasksOK, AliveKept, NEW k \in Tasks, task[k].pc # "none", NEW x \in TaskType,
           task' = [task EXCEPT ![k] = x], x.e = task[k].e, x.i = 1
    PROVE  TasksOK'
<1>1. x.i \in 1..2 /\ x.i \in 1..3 /\ x.i \in 1..6
  BY FirstRung
<1>2. QED
  BY <1>1, TaskReplaced

LEMMA GotoKeeps ==
    ASSUME TasksOK, AliveKept, NEW k \in Tasks, task[k].pc # "none", NEW pc \in TaskPc, Goto(k, pc)
    PROVE  TasksOK'
<1> DEFINE x == [task[k] EXCEPT !.pc = pc, !.i = 1]
<1>1. task[k] \in TaskType
  BY DEF TasksOK
<1>2. x \in TaskType /\ x.e = task[k].e /\ x.i = 1
  BY <1>1 DEF TaskType
<1>3. task' = [task EXCEPT ![k] = x]
  BY DEF Goto
<1> HIDE DEF x
<1>4. QED
  BY <1>2, <1>3, TaskRestarted

LEMMA ClimbKeeps ==
    ASSUME TasksOK, AliveKept, NEW k \in Tasks, task[k].pc \in {"begin", "end", "cancel"}, Climb(k),
           task[k].pc = "begin" => task[k].i < 2, task[k].pc = "end" => task[k].i < 3,
           task[k].pc = "cancel" => task[k].i < 6
    PROVE  TasksOK'
<1> DEFINE x == [task[k] EXCEPT !.i = @ + 1]
<1>1. task[k] \in TaskType /\ TaskOK(k)
  BY DEF TasksOK
<1>2. x \in TaskType /\ x.e = task[k].e /\ x.pc = task[k].pc /\ x.i = task[k].i + 1
  BY <1>1 DEF TaskType
<1>3. task' = [task EXCEPT ![k] = x]
  BY DEF Climb
<1>4. /\ x.pc = "begin" => x.i \in 1..2
      /\ x.pc = "end" => x.i \in 1..3
      /\ x.pc = "cancel" => x.i \in 1..6
  BY <1>1, <1>2 DEF TaskOK
<1>5. QED
  BY <1>2, <1>3, <1>4, TaskReplaced

\* A step of a task that touches nothing but its own record.
LEMMA TaskMoves ==
    ASSUME IInv, kind' = kind, UNCHANGED <<state, res, at, w, g, r>>, AliveKept => TasksOK'
    PROVE  IInv'
<1>1. EntriesOK' /\ AliveKept /\ Kept(Owned)
  BY EntriesFrame, NothingMoved DEF IInv, EntriesOK
<1>2. QED
  BY <1>1, TaskAlone

LEMMA TakeTaskKeeps == ASSUME IInv, kind' = kind, NEW k \in Tasks, TakeTask(k) PROVE IInv'
BY GotoKeeps, TaskMoves DEF IInv, TakeTask, TaskPc

LEMMA RunTaskKeeps == ASSUME IInv, kind' = kind, NEW k \in Tasks, RunTask(k) PROVE IInv'
BY GotoKeeps, TaskMoves DEF IInv, RunTask, TaskPc

LEMMA AssertCancelledKeeps ==
    ASSUME IInv, kind' = kind, NEW k \in Tasks, AssertCancelled(k)
    PROVE  IInv'
BY GotoKeeps, TaskMoves DEF IInv, AssertCancelled, TaskPc

LEMMA PostExecuteKeeps ==
    ASSUME IInv, kind' = kind, NEW k \in Tasks, PostExecute(k)
    PROVE  IInv'
<1> DEFINE pc == IF task[k].cancel THEN "cancel" ELSE "fin"
           x == [task[k] EXCEPT !.pc = pc, !.i = 1, !.ret = "fin"]
<1>1. task[k] \in TaskType /\ TasksOK /\ task[k].pc # "none"
  BY DEF IInv, TasksOK, PostExecute
<1>2. x \in TaskType /\ x.e = task[k].e /\ x.i = 1
  BY <1>1 DEF TaskType, TaskPc
<1>3. task' = [task EXCEPT ![k] = x] /\ UNCHANGED <<state, res, at, w, g, r>>
  BY DEF PostExecute
<1> HIDE DEF x
<1>4. AliveKept => TasksOK'
  BY <1>1, <1>2, <1>3, TaskRestarted
<1>5. QED
  BY <1>3, <1>4, TaskMoves

LEMMA BeginRequestKeeps ==
    ASSUME IInv, kind' = kind, NEW k \in Tasks, BeginRequest(k)
    PROVE  IInv'
<1> DEFINE e == task[k].e
           rung == BeginLadder[task[k].i]
<1>0. /\ EntriesOK /\ TasksOK /\ task[k].pc = "begin" /\ task[k].i \in 1..2 /\ e \in Entries
      /\ Legal(rung) /\ UNCHANGED <<res, at, w, g, r>>
  BY BeginRungs DEF IInv, TasksOK, TaskOK, BeginRequest
<1>1. CASE Hit(rung, e) /\ Swap(rung, e) /\ Goto(k, "obtain")
  <2>1. EntriesOK' /\ AliveKept /\ Kept(Owned)
    BY <1>0, <1>1, SwapKeeps, EntriesFrame
  <2>2. QED
    BY <1>0, <1>1, <2>1, GotoKeeps, TaskAlone DEF TaskPc
<1>2. CASE /\ UNCHANGED state
           /\ IF task[k].i < Len(BeginLadder) THEN Climb(k) ELSE Goto(k, "post")
  <2>1. CASE task[k].i < 2 /\ Climb(k)
    BY <1>0, <1>2, <2>1, ClimbKeeps, TaskMoves
  <2>2. CASE Goto(k, "post")
    BY <1>0, <1>2, <2>2, GotoKeeps, TaskMoves DEF TaskPc
  <2>3. QED
    BY <1>2, <2>1, <2>2, BeginRungs
<1>3. QED
  BY <1>1, <1>2 DEF BeginRequest

LEMMA ObtainDataKeeps ==
    ASSUME IInv, kind' = kind, NEW k \in Tasks, ObtainData(k)
    PROVE  IInv'
<1> DEFINE e == task[k].e
<1>1. PICK succeeded, available \in BOOLEAN :
        /\ task' = [task EXCEPT ![k].pc = "end", ![k].i = 1, ![k].got = available,
                                ![k].ok = succeeded /\ (Async \/ ~task[k].cancel),
                                ![k].ret = "post"]
        /\ res' = [res EXCEPT ![e].data = @ \/ available]
  BY DEF ObtainData
<1> DEFINE ok == succeeded /\ (Async \/ ~task[k].cancel)
           data == res[e].data \/ available
           x == [task[k] EXCEPT !.pc = "end", !.i = 1, !.got = available, !.ok = ok, !.ret = "post"]
           f == [res[e] EXCEPT !.data = data]
<1>2. task' = [task EXCEPT ![k] = x] /\ res' = [res EXCEPT ![e] = f]
  BY <1>1
<1>3. ok \in BOOLEAN /\ data \in BOOLEAN
  BY DEF IInv, EntriesOK, TasksOK, TaskOK, ObtainData, Fields
<1> HIDE DEF ok, data
<1>4. /\ EntriesOK /\ TasksOK /\ e \in Entries /\ task[k] \in TaskType /\ res[e] \in Fields
      /\ task[k].pc # "none" /\ UNCHANGED <<state, at, w, g, r>>
  BY DEF IInv, EntriesOK, TasksOK, TaskOK, ObtainData
<1>5. f \in Fields /\ f.tile = res[e].tile
  BY <1>3, <1>4 DEF Fields
<1>6. EntriesOK' /\ AliveKept /\ Kept(Owned)
  BY <1>2, <1>4, <1>5, FieldUpdate, FieldsFrame
<1>7. x \in TaskType /\ x.e = task[k].e /\ x.i = 1
  BY <1>3, <1>4 DEF TaskType, TaskPc
<1> HIDE DEF x
<1>8. TasksOK'
  BY <1>2, <1>4, <1>6, <1>7, TaskRestarted
<1>9. QED
  BY <1>4, <1>6, <1>8, TaskAlone

\* What the callback of a cache-only request does to its task and its entry: data
\* that it reports is stored, and only an entry that is being served loses any.
LEMMA ObtainCachedOutcome ==
    ASSUME NEW k \in Tasks, ObtainCached(k)
    PROVE  \E pc \in {"scaled", "obtain", "end"}, ok, got, data, old \in BOOLEAN :
             /\ task' = [task EXCEPT ![k].pc = pc, ![k].i = 1, ![k].local = FALSE, ![k].ok = ok,
                                     ![k].got = got, ![k].ret = "post"]
             /\ res' = [res EXCEPT ![task[k].e].data = data, ![task[k].e].old = old]
             /\ got => data
             /\ res[task[k].e].data /\ ~data => state[task[k].e] \in Processing \ {RCWBP, UCWBP}
<1> DEFINE e == task[k].e
<1>1. PICK found \in {"failed", "none", "exact", "scaled", "undated"} :
        LET again == /\ found \notin {"failed", "exact"} /\ ~task[k].cancel
                     /\ state[e] \in Processing \ {RCWBP, UCWBP}
            undated == again /\ found = "undated" /\ e \in Linked
            retry == again /\ ~undated
        IN  /\ task' = [task EXCEPT
                 ![k].pc = IF retry THEN IF found = "scaled" THEN "scaled" ELSE "obtain"
                                    ELSE "end",
                 ![k].i = 1, ![k].local = FALSE, ![k].ok = ~retry /\ found # "failed",
                 ![k].got = ~retry /\ found \notin {"failed", "none"}, ![k].ret = "post"]
            /\ res' = [res EXCEPT ![e].data = (@ \/ found \notin {"failed", "none"}) /\ ~retry,
                                  ![e].old = @ \/ undated]
  BY DEF ObtainCached
<1> DEFINE again == /\ found \notin {"failed", "exact"} /\ ~task[k].cancel
                    /\ state[e] \in Processing \ {RCWBP, UCWBP}
           undated == again /\ found = "undated" /\ e \in Linked
           retry == again /\ ~undated
           pc == IF retry THEN IF found = "scaled" THEN "scaled" ELSE "obtain" ELSE "end"
           ok == ~retry /\ found # "failed"
           got == ~retry /\ found \notin {"failed", "none"}
           data == (res[e].data \/ found \notin {"failed", "none"}) /\ ~retry
           old == res[e].old \/ undated
<1>2. /\ task' = [task EXCEPT ![k].pc = pc, ![k].i = 1, ![k].local = FALSE, ![k].ok = ok,
                              ![k].got = got, ![k].ret = "post"]
      /\ res' = [res EXCEPT ![e].data = data, ![e].old = old]
  BY <1>1
<1>3. /\ pc \in {"scaled", "obtain", "end"} /\ ok \in BOOLEAN /\ got \in BOOLEAN
      /\ data \in BOOLEAN /\ old \in BOOLEAN
  BY Zenon
<1>4. /\ got => data
      /\ res[e].data /\ ~data => state[e] \in Processing \ {RCWBP, UCWBP}
  BY Zenon
<1> HIDE DEF again, undated, retry, pc, ok, got, data, old
<1>5. QED
  BY <1>2, <1>3, <1>4

LEMMA ObtainCachedKeeps ==
    ASSUME IInv, kind' = kind, NEW k \in Tasks, ObtainCached(k)
    PROVE  IInv'
<1> DEFINE e == task[k].e
<1>1. PICK pc \in {"scaled", "obtain", "end"}, ok, got, data, old \in BOOLEAN :
        /\ task' = [task EXCEPT ![k].pc = pc, ![k].i = 1, ![k].local = FALSE, ![k].ok = ok,
                                ![k].got = got, ![k].ret = "post"]
        /\ res' = [res EXCEPT ![task[k].e].data = data, ![task[k].e].old = old]
        /\ got => data
        /\ res[task[k].e].data /\ ~data => state[task[k].e] \in Processing \ {RCWBP, UCWBP}
  BY ObtainCachedOutcome, Zenon
<1> DEFINE x == [task[k] EXCEPT !.pc = pc, !.i = 1, !.local = FALSE, !.ok = ok, !.got = got,
                                !.ret = "post"]
           f == [res[e] EXCEPT !.data = data, !.old = old]
<1>2. task' = [task EXCEPT ![k] = x] /\ res' = [res EXCEPT ![e] = f]
  BY <1>1
<1>3. /\ EntriesOK /\ TasksOK /\ e \in Entries /\ task[k] \in TaskType /\ res[e] \in Fields
      /\ task[k].pc # "none" /\ UNCHANGED <<state, at, w, g, r>>
  BY DEF IInv, EntriesOK, TasksOK, TaskOK, ObtainCached
<1>4. f \in Fields /\ f.tile = res[e].tile
  BY <1>3 DEF Fields
<1>5. EntriesOK' /\ AliveKept /\ Kept(Owned)
  BY <1>2, <1>3, <1>4, FieldUpdate, FieldsFrame
<1>6. x \in TaskType /\ x.e = task[k].e /\ x.i = 1
  <2>1. pc \in TaskPc
    BY DEF TaskPc
  <2>2. QED
    BY <1>3, <2>1 DEF TaskType
<1> HIDE DEF x
<1>7. TasksOK'
  BY <1>2, <1>3, <1>5, <1>6, TaskRestarted
<1>8. QED
  BY <1>3, <1>5, <1>7, TaskAlone

LEMMA AllocateScaledKeeps ==
    ASSUME IInv, kind' = kind, NEW k \in Tasks, NEW t \in Tiles, NEW e \in Entries,
           AllocateScaled(k, t, e)
    PROVE  IInv'
<1> DEFINE f == [Entry(t) EXCEPT !.data = TRUE]
<1>0. /\ EntriesOK /\ TasksOK /\ task[k].pc = "scaled" /\ Goto(k, "obtain")
      /\ UNCHANGED <<w, g, r>>
  BY DEF IInv, AllocateScaled
<1>1. CASE /\ e \notin Alive /\ at' = [at EXCEPT ![t] = e] /\ res' = [res EXCEPT ![e] = f]
           /\ state' = [state EXCEPT ![e] = "Ready"]
  <2>1. f \in Fields /\ f.tile = t
    BY DEF Entry, Blank, Fields
  <2>2. EntriesOK' /\ AliveKept /\ Kept(Owned)
    BY <1>0, <1>1, <2>1, NewEntry DEF ResourceState
  <2>3. QED
    BY <1>0, <2>2, GotoKeeps, TaskAlone DEF TaskPc
<1>2. CASE UNCHANGED <<at, res, state>>
  BY <1>0, <1>2, GotoKeeps, TaskMoves DEF TaskPc
<1>3. QED
  BY <1>1, <1>2 DEF AllocateScaled

LEMMA EndRequestKeeps ==
    ASSUME IInv, kind' = kind, NEW k \in Tasks, EndRequest(k)
    PROVE  IInv'
<1> DEFINE e == task[k].e
           ladder == IF task[k].ok THEN EndLadder(task[k].got) ELSE EndFailedLadder
           rung == ladder[task[k].i]
<1>0. /\ EntriesOK /\ TasksOK /\ task[k].pc = "end" /\ task[k].i \in 1..3 /\ e \in Entries
      /\ task[k].got \in BOOLEAN /\ UNCHANGED <<res, at, w, g, r>>
  BY DEF IInv, TasksOK, TaskOK, TaskType, EndRequest
<1>1. Len(ladder) = 3 /\ Legal(rung)
  BY <1>0, EndRungs
<1>2. \/ /\ Hit(rung, e) /\ Swap(rung, e) /\ Goto(k, IF task[k].ok THEN "detach" ELSE "post")
      \/ UNCHANGED state /\ task[k].i < Len(ladder) /\ Climb(k)
      \/ UNCHANGED state /\ Goto(k, IF task[k].ok THEN "assert" ELSE "remove")
  BY DEF EndRequest
<1> HIDE DEF ladder
<1>3. CASE Hit(rung, e) /\ Swap(rung, e) /\ Goto(k, IF task[k].ok THEN "detach" ELSE "post")
  <2>1. EntriesOK' /\ AliveKept /\ Kept(Owned)
    BY <1>0, <1>1, <1>3, SwapKeeps, EntriesFrame
  <2>2. QED
    BY <1>0, <1>3, <2>1, GotoKeeps, TaskAlone DEF TaskPc
<1>4. CASE UNCHANGED state /\ task[k].i < Len(ladder) /\ Climb(k)
  BY <1>0, <1>1, <1>4, ClimbKeeps, TaskMoves
<1>5. CASE UNCHANGED state /\ Goto(k, IF task[k].ok THEN "assert" ELSE "remove")
  BY <1>0, <1>5, GotoKeeps, TaskMoves DEF TaskPc
<1>6. QED
  BY <1>2, <1>3, <1>4, <1>5

LEMMA ProcessCancellationKeeps ==
    ASSUME IInv, kind' = kind, NEW k \in Tasks, ProcessCancellation(k)
    PROVE  IInv'
<1> DEFINE e == task[k].e
           rung == CancelLadder[task[k].i]
<1>0. /\ EntriesOK /\ TasksOK /\ task[k].pc = "cancel" /\ task[k].i \in 1..6 /\ e \in Entries
      /\ task[k].ret \in TaskPc /\ Legal(rung) /\ UNCHANGED <<res, at, w, g, r>>
  BY CancelRungs DEF IInv, TasksOK, TaskOK, TaskType, TaskPc, ProcessCancellation
<1>1. CASE Hit(rung, e) /\ Swap(rung, e) /\ Goto(k, IF rung[2] = JBD THEN "remove" ELSE task[k].ret)
  <2>1. EntriesOK' /\ AliveKept /\ Kept(Owned)
    BY <1>0, <1>1, SwapKeeps, EntriesFrame
  <2>2. (IF rung[2] = JBD THEN "remove" ELSE task[k].ret) \in TaskPc
    BY <1>0 DEF TaskPc
  <2>3. QED
    BY <1>0, <1>1, <2>1, <2>2, GotoKeeps, TaskAlone
<1>2. CASE /\ UNCHANGED state
           /\ IF task[k].i < Len(CancelLadder) THEN Climb(k) ELSE Goto(k, task[k].ret)
  <2>1. CASE task[k].i < 6 /\ Climb(k)
    BY <1>0, <1>2, <2>1, ClimbKeeps, TaskMoves
  <2>2. CASE Goto(k, task[k].ret)
    BY <1>0, <1>2, <2>2, GotoKeeps, TaskMoves
  <2>3. QED
    BY <1>2, <2>1, <2>2, CancelRungs
<1>3. QED
  BY <1>1, <1>2 DEF ProcessCancellation

LEMMA DetachCallbackKeeps ==
    ASSUME IInv, kind' = kind, NEW k \in Tasks, DetachCallback(k)
    PROVE  IInv'
<1> DEFINE e == task[k].e
           f == [res[e] EXCEPT !.cb = NoTask]
<1>0. /\ EntriesOK /\ TasksOK /\ e \in Entries /\ res[e] \in Fields /\ task[k].pc = "detach"
      /\ Goto(k, "post") /\ UNCHANGED <<state, at, w, g, r>>
  BY DEF IInv, EntriesOK, TasksOK, TaskOK, DetachCallback
<1>1. f \in Fields /\ f.tile = res[e].tile
  BY <1>0 DEF Fields
<1>2. res' = [res EXCEPT ![e] = f]
  BY DEF DetachCallback
<1>3. EntriesOK' /\ AliveKept /\ Kept(Owned)
  BY <1>0, <1>1, <1>2, FieldUpdate, FieldsFrame
<1>4. QED
  BY <1>0, <1>3, GotoKeeps, TaskAlone DEF TaskPc

\* A task removes an entry from the collection and goes on.
LEMMA RemovalKeeps ==
    ASSUME IInv, kind' = kind, NEW k \in Tasks, task[k].pc \in {"remove", "erase"},
           NEW pc \in TaskPc, Goto(k, pc), UNCHANGED <<state, w, g, r>>,
           UNCHANGED <<res, at>> \/ \E e \in Entries : Unlink(e)
    PROVE  IInv'
<1>0. EntriesOK /\ TasksOK /\ task[k].pc # "none"
  BY DEF IInv
<1>1. CASE UNCHANGED <<res, at>>
  BY <1>0, <1>1, GotoKeeps, TaskMoves
<1>2. ASSUME NEW e \in Entries, Unlink(e) PROVE IInv'
  <2>1. EntriesOK' /\ AliveKept /\ Kept(Owned)
    BY <1>0, <1>2, UnlinkKeeps DEF EntriesOK, Kept
  <2>2. QED
    BY <1>0, <2>1, GotoKeeps, TaskAlone
<1>3. QED
  BY <1>1, <1>2

LEMMA LockLinkKeeps == ASSUME IInv, kind' = kind, NEW k \in Tasks, LockLink(k) PROVE IInv'
<1>1. task[k].e \in Entries /\ task[k].ret \in TaskPc /\ "erase" \in TaskPc
  BY DEF IInv, TasksOK, TaskOK, TaskType, TaskPc, LockLink
<1>2. \/ Unlink(task[k].e) /\ Goto(k, task[k].ret)
      \/ Goto(k, "erase") /\ UNCHANGED <<res, at>>
      \/ Goto(k, task[k].ret) /\ UNCHANGED <<res, at>>
  BY DEF LockLink
<1>3. QED
  BY <1>1, <1>2, RemovalKeeps DEF LockLink

LEMMA EraseEntryKeeps == ASSUME IInv, kind' = kind, NEW k \in Tasks, EraseEntry(k) PROVE IInv'
<1> DEFINE e == task[k].e
           found == at[res[e].tile]
<1>1. task[k].ret \in TaskPc /\ e \in Entries /\ e \in Alive
  BY DEF IInv, TasksOK, TaskOK, TaskType, TaskPc, EraseEntry
<1>2. found \in Entries \cup {NoEntry}
  BY <1>1 DEF IInv, EntriesOK, Alive, Fields
<1>3. UNCHANGED <<res, at>> \/ (found # NoEntry /\ Unlink(found))
  BY DEF EraseEntry
<1>4. QED
  BY <1>1, <1>2, <1>3, RemovalKeeps DEF EraseEntry

LEMMA FinishTaskKeeps == ASSUME IInv, kind' = kind, NEW k \in Tasks, FinishTask(k) PROVE IInv'
<1>0. EntriesOK /\ TasksOK /\ UNCHANGED <<state, at, w, g, r>> /\ task' = [task EXCEPT ![k] = NoWork]
  BY DEF IInv, FinishTask
<1>1. ASSUME NEW e \in Entries
      PROVE  res'[e] \in Fields /\ res'[e].tile = res[e].tile
  <2>1. res'[e] = res[e] \/ res'[e] = [res[e] EXCEPT !.cb = Expired]
    BY DEF FinishTask
  <2>2. res[e] \in Fields
    BY <1>0 DEF EntriesOK
  <2>3. QED
    BY <2>1, <2>2 DEF Fields
<1>2. res' \in [Entries -> Fields]
  BY <1>1 DEF FinishTask
<1>3. EntriesOK' /\ AliveKept /\ Kept(Owned)
  BY <1>0, <1>1, <1>2, FieldsFrame
<1>4. NoWork \in TaskType /\ NoWork.pc = "none" /\ NoWork.e = NoEntry
  BY DEF NoWork, TaskType, TaskPc
<1>5. ASSUME NEW j \in Tasks PROVE task'[j] \in TaskType /\ TaskOK(j)'
  <2>1. task'[j] = task[j] \/ task'[j] = NoWork
    BY <1>0 DEF TasksOK
  <2>2. QED
    BY <1>0, <1>3, <1>4, <2>1, NamesAssumption DEF TasksOK, TaskOK, AliveKept
<1>6. TasksOK'
  BY <1>0, <1>4, <1>5 DEF TasksOK
<1>7. QED
  BY <1>0, <1>3, <1>6, TaskAlone

LEMMA TaskStepKeeps == ASSUME IInv, kind' = kind, NEW k \in Tasks, TaskStep(k) PROVE IInv'
BY TakeTaskKeeps, RunTaskKeeps, BeginRequestKeeps, ObtainDataKeeps, ObtainCachedKeeps,
   AllocateScaledKeeps, EndRequestKeeps, DetachCallbackKeeps, AssertCancelledKeeps,
   PostExecuteKeeps, ProcessCancellationKeeps, LockLinkKeeps, EraseEntryKeeps, FinishTaskKeeps
   DEF TaskStep

-----------------------------------------------------------------------------
(* Destruction, and every step.                                              *)

\* Only an entry that nothing refers to is destroyed.
LEMMA DestroyKeeps ==
    ASSUME IInv, kind' = kind, NEW e \in Entries, Destroy(e)
    PROVE  IInv'
<1>0. /\ EntriesOK /\ UNCHANGED <<at, task, w, g, r>> /\ ~Referenced(e)
      /\ res' = [res EXCEPT ![e] = Blank] /\ state' = [state EXCEPT ![e] = "Unknown"]
  BY DEF IInv, Destroy
<1>1. Blank \in Fields /\ "Unknown" \in ResourceState
  BY DEF Blank, Fields, ResourceState
<1>2. /\ state' \in [Entries -> ResourceState] /\ res' \in [Entries -> Fields]
      /\ \A x \in Entries : x # e => state'[x] = state[x] /\ res'[x] = res[x]
  BY <1>0, <1>1 DEF EntriesOK
<1>3. Alive \ {e} \subseteq Alive'
  BY <1>2 DEF Alive
<1>4. EntriesOK'
  <2>1. e \notin Linked /\ Linked' = Linked
    BY <1>0 DEF Referenced, Linked
  <2>2. QED
    BY <1>0, <1>2, <1>3, <2>1 DEF EntriesOK
<1>5. WorkerOK'
  <2>1. e \notin w.todo /\ e # w.e
    BY <1>0 DEF Referenced
  <2>2. QED
    BY <1>0, <1>2, <1>3, <2>1 DEF IInv, WorkerOK
<1>6. GpuOK'
  <2>1. e \notin g.list /\ e # g.e
    BY <1>0 DEF Referenced
  <2>2. QED
    BY <1>0, <1>2, <1>3, <2>1 DEF IInv, GpuOK
<1>7. RenderOK'
  <2>1. e \notin r.todo /\ e # r.e
    BY <1>0 DEF Referenced
  <2>2. QED
    BY <1>0, <1>2, <1>3, <2>1, RenderTypeFixed DEF IInv, RenderOK
<1>8. TasksOK'
  <2>1. \A k \in Tasks : e # task[k].e
    BY <1>0 DEF Referenced
  <2>2. QED
    BY <1>0, <1>3, <2>1 DEF IInv, TasksOK, TaskOK
<1>9. QED
  BY <1>4, <1>5, <1>6, <1>7, <1>8 DEF IInv

-----------------------------------------------------------------------------
(* The theorems.                                                               *)

LEMMA InitEstablishes == Init => IInv
<1> SUFFICES ASSUME Init PROVE IInv
  OBVIOUS
<1>1. Blank \in Fields /\ "Unknown" \in ResourceState
  BY DEF Blank, Fields, ResourceState
<1>2. EntriesOK
  BY <1>1, NamesAssumption DEF Init, EntriesOK, Linked
<1>3. WorkerOK
  BY NamesAssumption DEF Init, WorkerOK, WorkerIdle, WorkerType
<1>4. GpuOK
  BY NamesAssumption DEF Init, GpuOK, GpuIdle, GpuType
<1>5. RenderOK
  <2>1. "Unknown" \in ResourceState /\ MaxEvents[kind] \in 0..MaxEvents[kind]
    BY BoundsAssumption DEF Init, ResourceState
  <2>2. QED
    BY <2>1, NamesAssumption DEF Init, RenderOK, RenderType
<1>6. TasksOK
  BY NamesAssumption DEF Init, TasksOK, TaskOK, NoWork, TaskType, TaskPc
<1>7. QED
  BY <1>2, <1>3, <1>4, <1>5, <1>6 DEF IInv

LEMMA NextKeeps == IInv /\ [Next]_vars => IInv'
<1> SUFFICES ASSUME IInv, [Next]_vars PROVE IInv'
  OBVIOUS
<1>1. CASE UNCHANGED vars
  <2>1. UNCHANGED <<state, res, at, task, w, g, r>> /\ kind' = kind
    BY <1>1 DEF vars
  <2>2. QED
    BY <2>1, TaskMoves, TasksFrame DEF IInv
<1>2. CASE Next
  BY <1>2, WorkerKeeps, GpuKeeps, RenderKeeps, TaskStepKeeps, DestroyKeeps DEF Next
<1>3. QED
  BY <1>1, <1>2

\* The inductive invariant holds throughout.
THEOREM Invariance == Spec => []IInv
<1>1. Init => IInv
  BY InitEstablishes
<1>2. IInv /\ [Next]_vars => IInv'
  BY NextKeeps
<1>3. QED
  BY <1>1, <1>2, PTL DEF Spec

\* Every variable of a collection keeps its type: every compare-and-swap stores a
\* state of enum MapRendererResourceState, and no index leaves its ladder.
THEOREM TypeCorrect == Spec => []TypeOK
<1>1. IInv => TypeOK
  BY DEF IInv, TypeOK, EntriesOK, WorkerOK, GpuOK, RenderOK, TasksOK
<1>2. QED
  BY <1>1, Invariance, PTL

\* The handlers that store a state without a test (the end of an unload, the
\* submission of a request, the symbols stage) find the state they set themselves.
THEOREM OwnersUndisturbed == Spec => []SetStateOwned
<1>1. IInv => SetStateOwned
  BY DEF IInv, SetStateOwned, WorkerOK, GpuOK, RenderOK
<1>2. QED
  BY <1>1, Invariance, PTL

-----------------------------------------------------------------------------
(* The arrows: what each thread may do to the state of an entry, all its       *)
(* handlers taken together.                                                    *)

Follows(arrows) ==
    \A e \in Alive : state'[e] = state[e] \/ <<state[e], state'[e]>> \in arrows

SubmitArrows ==
    {<<"Requesting", "Requested">>, <<"Requesting", "ProcessingRequest">>,
     <<"Updating", "RequestedUpdate">>, <<"Updating", "ProcessingUpdate">>}

WorkerArrows ==
    {<<"Uploaded", "Outdated">>, <<"Outdated", "Updating">>,
     <<"Requested", JBD>>, <<"Ready", JBD>>, <<"Unavailable", JBD>>, <<"Unloaded", JBD>>,
     <<"ProcessingRequest", RCWBP>>, <<"ProcessingUpdate", UCWBP>>, <<PUWR, UCWBP>>,
     <<"Uploaded", "UnloadPending">>, <<"PreparedRenew", "UnloadPending">>,
     <<"Outdated", "UnloadPending">>, <<"RequestedUpdate", "UnloadPending">>}

GpuArrows ==
    {<<"UnloadPending", "Unloading">>, <<"Unloading", "Unloaded">>,
     <<"Ready", "Uploading">>, <<"PreparedRenew", "Renewing">>,
     <<"ProcessingUpdate", PUWR>>, <<PUWR, "ProcessingUpdate">>, <<"Uploading", "Unloaded">>}
        \cup {"Uploading", "Renewing"} \X {"Uploaded", "PreparedRenew", "Outdated"}

RenderArrows ==
    {<<"IsBeingUsed", "Uploaded">>, <<"PreparingRenew", "PreparedRenew">>,
     <<"PreparedRenew", "Outdated">>}
        \cup {"Uploaded"} \X {"IsBeingUsed", "PreparingRenew", "PreparedRenew", "Outdated"}

LEMMA CleanupArrows == \A i \in 1..11 : CleanupLadder[i] \in WorkerArrows
BY DEF CleanupLadder, WorkerArrows

LEMMA UploadArrows == \A i \in 1..3 : UploadLadder[i] \in GpuArrows
BY DEF UploadLadder, GpuArrows

LEMMA UploadedArrows ==
    /\ \A i \in 1..2 : UploadFailedLadder[i] \in GpuArrows
    /\ \A outcome \in {"old", "oldTime", "fresh"}, i \in 1..3 : UploadedLadder(outcome)[i] \in GpuArrows
BY DEF UploadFailedLadder, UploadedLadder, GpuArrows

\* A compare-and-swap follows its arrow; a step without one follows any.
LEMMA SwapFollows ==
    ASSUME NEW arrows, EntriesOK, NEW rung \in arrows, NEW e \in Entries, Hit(rung, e),
           Swap(rung, e), rung = <<rung[1], rung[2]>>
    PROVE  Follows(arrows)
BY DEF EntriesOK, Hit, Swap, Follows, Alive

LEMMA StayFollows == ASSUME NEW arrows, state' = state PROVE Follows(arrows)
BY DEF Follows

\* A step that touches no field that the requests and the GPU's data depend on, but
\* may take entries out of the collection, whose data is then released.
FieldsKept ==
    \A e \in Entries : /\ res'[e].tile = res[e].tile /\ res'[e].cb = res[e].cb
                       /\ res'[e].old = res[e].old /\ (res'[e].data => res[e].data)
Plain ==
    /\ FieldsKept /\ \A e \in Entries : res'[e].gpu = res[e].gpu
    /\ Linked' \subseteq Linked
    /\ \A e \in Linked' : res'[e].data = res[e].data
    /\ \A e \in Linked \ Linked' : ~res'[e].data

\* The state of an entry that leaves the collection says that the GPU has nothing.
GoneClean == \A e \in Linked \ Linked' : state'[e] \in NotInGPU

LEMMA FixedPlain == ASSUME UNCHANGED <<res, at>> PROVE Plain /\ GoneClean
BY DEF Plain, FieldsKept, GoneClean, Linked

LEMMA FieldsPlain ==
    ASSUME at' = at, \A e \in Entries : /\ res'[e].tile = res[e].tile /\ res'[e].gpu = res[e].gpu
                                      /\ res'[e].cb = res[e].cb /\ res'[e].old = res[e].old
                                      /\ res'[e].data = res[e].data
    PROVE  Plain /\ GoneClean
BY DEF Plain, FieldsKept, GoneClean, Linked

LEMMA UnlinkPlain ==
    ASSUME EntriesOK, NEW e \in Entries, Unlink(e)
    PROVE  /\ Plain /\ e \notin Linked' /\ Linked \ Linked' \subseteq {e}
           /\ state'[e] \in NotInGPU => GoneClean
<1>1. /\ res' = [res EXCEPT ![e].data = FALSE] /\ res \in [Entries -> Fields]
      /\ at' = [t \in Tiles |-> IF at[t] = e THEN NoEntry ELSE at[t]]
  BY DEF EntriesOK, Unlink
<1>2. Linked' = Linked \ {e}
  BY <1>1, NamesAssumption DEF Linked
<1>3. \A x \in Entries : x # e => res'[x] = res[x]
  BY <1>1
<1>4. res'[e] = [res[e] EXCEPT !.data = FALSE] /\ res[e] \in Fields
  BY <1>1
<1>5. /\ res'[e].tile = res[e].tile /\ res'[e].gpu = res[e].gpu /\ res'[e].cb = res[e].cb
      /\ res'[e].old = res[e].old /\ ~res'[e].data
  BY <1>4 DEF Fields
<1>6. Linked \subseteq Entries
  BY DEF Linked
<1>7. QED
  BY <1>2, <1>3, <1>5, <1>6 DEF Plain, FieldsKept, GoneClean

-----------------------------------------------------------------------------
(* The steps that leave the requests to themselves.                            *)

WorkerStep == Follows(WorkerArrows) /\ Plain /\ GoneClean /\ UNCHANGED <<task, g, r>>

LEMMA VisitEntryEffect ==
    ASSUME IInv, NEW e \in Entries, VisitEntry(e)
    PROVE  WorkerStep /\ w'.pc \in {"visit", "climb"}
<1>0. /\ EntriesOK /\ w \in WorkerType /\ w.pc = "visit" /\ UNCHANGED <<task, g, r>>
      /\ e \in Alive /\ state \in [Entries -> ResourceState] /\ res \in [Entries -> Fields]
  BY DEF IInv, EntriesOK, WorkerOK, VisitEntry
<1>1. CASE state[e] = "Unloaded" /\ state' = [state EXCEPT ![e] = JBD] /\ Unlink(e)
              /\ w' = [w EXCEPT !.todo = @ \ {e}]
  <2>1. Follows(WorkerArrows) /\ state'[e] \in NotInGPU
    BY <1>0, <1>1 DEF Follows, WorkerArrows, NotInGPU, Alive
  <2>2. Plain /\ GoneClean
    BY <1>0, <1>1, <2>1, UnlinkPlain
  <2>3. w'.pc = "visit"
    BY <1>0, <1>1 DEF WorkerType
  <2>4. QED
    BY <1>0, <2>1, <2>2, <2>3 DEF WorkerStep
<1>2. CASE /\ res' = [res EXCEPT ![e].junk = TRUE]
           /\ w' = [w EXCEPT !.pc = "climb", !.todo = @ \ {e}, !.e = e, !.i = 1]
           /\ UNCHANGED <<state, at>>
  <2>1. \A x \in Entries : /\ res'[x].tile = res[x].tile /\ res'[x].gpu = res[x].gpu
                           /\ res'[x].cb = res[x].cb /\ res'[x].old = res[x].old
                           /\ res'[x].data = res[x].data
    BY <1>0, <1>2 DEF Fields
  <2>2. Plain /\ GoneClean
    BY <1>2, <2>1, FieldsPlain
  <2>3. w'.pc = "climb"
    BY <1>0, <1>2 DEF WorkerType
  <2>4. QED
    BY <1>0, <1>2, <2>2, <2>3, StayFollows DEF WorkerStep
<1>3. CASE w' = [w EXCEPT !.todo = @ \ {e}] /\ UNCHANGED <<state, res, at>>
  <2>1. w'.pc = "visit"
    BY <1>0, <1>3 DEF WorkerType
  <2>2. QED
    BY <1>0, <1>3, <2>1, StayFollows, FixedPlain DEF WorkerStep
<1>4. QED
  BY <1>1, <1>2, <1>3 DEF VisitEntry

LEMMA ClimbCleanupEffect ==
    ASSUME IInv, ClimbCleanup
    PROVE  /\ WorkerStep
           /\ w'.pc = "cancel" => /\ w'.e = w.e /\ state'[w.e] \in {JBD, "UnloadPending", RCWBP, UCWBP}
                                  /\ w'.i = w.i /\ UNCHANGED <<res, at>>
                                  /\ Hit(CleanupLadder[w.i], w.e)
                                  /\ Swap(CleanupLadder[w.i], w.e)
                                  /\ Cancels(CleanupLadder[w.i])
<1> DEFINE rung == CleanupLadder[w.i]
<1>0. /\ EntriesOK /\ w \in WorkerType /\ w.i \in 1..11 /\ w.e \in Entries
      /\ UNCHANGED <<task, g, r>> /\ state \in [Entries -> ResourceState]
  BY DEF IInv, EntriesOK, WorkerOK, ClimbCleanup
<1>1. rung \in WorkerArrows /\ rung = <<rung[1], rung[2]>>
  BY <1>0, CleanupArrows DEF WorkerArrows
<1>2. NextVisit.pc = "visit"
  BY <1>0 DEF NextVisit, WorkerType
<1>3. CASE /\ Hit(rung, w.e) /\ Swap(rung, w.e) /\ Cancels(rung) /\ w' = [w EXCEPT !.pc = "cancel"]
           /\ UNCHANGED <<res, at>>
  <2>1. Follows(WorkerArrows)
    BY <1>0, <1>1, <1>3, SwapFollows
  <2>2. w'.e = w.e /\ w'.i = w.i
    BY <1>0, <1>3 DEF WorkerType
  <2>3. rung[2] \in {JBD, "UnloadPending", RCWBP, UCWBP}
    BY <1>0 DEF CleanupLadder
  <2>4. state'[w.e] = rung[2]
    BY <1>0, <1>3 DEF Swap
  <2>5. QED
    BY <1>0, <1>3, <2>1, <2>2, <2>3, <2>4, FixedPlain DEF WorkerStep
<1>4. CASE Hit(rung, w.e) /\ Swap(rung, w.e) /\ rung[2] = JBD /\ Unlink(w.e) /\ w' = NextVisit
  <2>1. Follows(WorkerArrows)
    BY <1>0, <1>1, <1>4, SwapFollows
  <2>2. state'[w.e] \in NotInGPU
    BY <1>0, <1>4 DEF Swap, NotInGPU
  <2>3. QED
    BY <1>0, <1>2, <1>4, <2>1, <2>2, UnlinkPlain DEF WorkerStep
<1>5. CASE Hit(rung, w.e) /\ Swap(rung, w.e) /\ w' = NextVisit /\ UNCHANGED <<res, at>>
  <2>1. Follows(WorkerArrows)
    BY <1>0, <1>1, <1>5, SwapFollows
  <2>2. QED
    BY <1>0, <1>2, <1>5, <2>1, FixedPlain DEF WorkerStep
<1>6. CASE /\ w' = IF w.i < Len(CleanupLadder) THEN [w EXCEPT !.i = @ + 1]
                                               ELSE [w EXCEPT !.pc = "last"]
           /\ UNCHANGED <<state, res, at>>
  <2>1. w'.pc \in {"climb", "last"}
    BY <1>0, <1>6 DEF WorkerType, ClimbCleanup
  <2>2. QED
    BY <1>0, <1>6, <2>1, StayFollows, FixedPlain DEF WorkerStep
<1>7. QED
  BY <1>3, <1>4, <1>5, <1>6 DEF ClimbCleanup

LEMMA LastLookEffect == ASSUME IInv, LastLook PROVE WorkerStep /\ w'.pc = "visit"
<1>0. /\ EntriesOK /\ w \in WorkerType /\ w.e \in Entries /\ UNCHANGED <<task, g, r, state>>
  BY DEF IInv, EntriesOK, WorkerOK, LastLook
<1>1. w'.pc = "visit"
  BY <1>0 DEF NextVisit, WorkerType, LastLook
<1>2. CASE state[w.e] = JBD /\ Unlink(w.e)
  BY <1>0, <1>1, <1>2, UnlinkPlain, StayFollows DEF WorkerStep, NotInGPU
<1>3. CASE UNCHANGED <<res, at>>
  BY <1>0, <1>1, <1>3, FixedPlain, StayFollows DEF WorkerStep
<1>4. QED
  BY <1>2, <1>3 DEF LastLook

LEMMA WakeWorkerEffect == ASSUME IInv, WakeWorker PROVE WorkerStep /\ w'.pc = "visit"
<1>1. UNCHANGED <<state, res, at, task, g, r>>
  BY DEF WakeWorker
<1>2. w \in WorkerType
  BY DEF IInv, WorkerOK
<1>3. w'.pc = "visit"
  BY <1>2 DEF WakeWorker, WorkerType
<1>4. QED
  BY <1>1, <1>3, FixedPlain, StayFollows DEF WorkerStep

LEMMA CleanupDoneEffect == ASSUME IInv, CleanupDone PROVE WorkerStep /\ w'.pc = "request"
<1>1. UNCHANGED <<state, res, at, task, g, r>>
  BY DEF CleanupDone
<1>2. w \in WorkerType
  BY DEF IInv, WorkerOK
<1>3. w'.pc = "request"
  BY <1>2 DEF CleanupDone, WorkerType
<1>4. QED
  BY <1>1, <1>3, FixedPlain, StayFollows DEF WorkerStep

LEMMA KeepEntryEffect ==
    ASSUME IInv, NEW t \in Tiles, KeepEntry(t)
    PROVE  /\ Follows(WorkerArrows) /\ Plain /\ GoneClean /\ UNCHANGED <<task, g>>
           /\ w'.pc = "request" /\ (kind = "MapLayer" \/ state' = state)
           /\ r' = r \/ r' = [r EXCEPT !.left = @ - 1]
<1>0. /\ EntriesOK /\ w \in WorkerType /\ w.pc = "request" /\ UNCHANGED <<res, at, task, g>>
      /\ at[t] \in Entries /\ w' = [w EXCEPT !.need = @ \ {t}]
  BY DEF IInv, EntriesOK, WorkerOK, KeepEntry
<1>1. w'.pc = "request"
  BY <1>0 DEF WorkerType
<1>2. CASE UNCHANGED <<state, r>>
  BY <1>0, <1>1, <1>2, FixedPlain, StayFollows
<1>3. CASE /\ kind = "MapLayer" /\ Hit(<<"Uploaded", "Outdated">>, at[t])
           /\ Swap(<<"Uploaded", "Outdated">>, at[t]) /\ r' = [r EXCEPT !.left = @ - 1]
  <2>1. <<"Uploaded", "Outdated">> \in WorkerArrows
    BY DEF WorkerArrows
  <2>2. Follows(WorkerArrows)
    BY <1>0, <1>3, <2>1, SwapFollows
  <2>3. QED
    BY <1>0, <1>1, <1>3, <2>2, FixedPlain
<1>4. QED
  BY <1>2, <1>3 DEF KeepEntry

LEMMA CollectOutdatedEffect ==
    ASSUME IInv, CollectOutdated
    PROVE  WorkerStep /\ w'.pc = "outdated"
<1>1. UNCHANGED <<state, res, at, task, g, r>>
  BY DEF CollectOutdated
<1>2. w \in WorkerType
  BY DEF IInv, WorkerOK
<1>3. w'.pc = "outdated"
  BY <1>2 DEF CollectOutdated, WorkerType
<1>4. QED
  BY <1>1, <1>3, FixedPlain, StayFollows DEF WorkerStep

LEMMA RequestOutdatedEffect ==
    ASSUME IInv, NEW e \in Entries, RequestOutdated(e)
    PROVE  /\ WorkerStep /\ w'.pc \in {"outdated", "submit"}
           /\ state' # state => state[e] = "Outdated"
<1>0. /\ EntriesOK /\ w \in WorkerType /\ w.pc = "outdated" /\ UNCHANGED <<res, at, task, g, r>>
      /\ state \in [Entries -> ResourceState]
  BY DEF IInv, EntriesOK, WorkerOK, RequestOutdated
<1>1. CASE /\ state[e] = "Outdated" /\ state' = [state EXCEPT ![e] = "Updating"]
           /\ w' = [w EXCEPT !.pc = "submit", !.todo = @ \ {e}, !.e = e]
  <2>1. Follows(WorkerArrows)
    BY <1>0, <1>1 DEF Follows, WorkerArrows, Alive
  <2>2. w'.pc = "submit"
    BY <1>0, <1>1 DEF WorkerType
  <2>3. QED
    BY <1>0, <1>1, <2>1, <2>2, FixedPlain DEF WorkerStep
<1>2. CASE w' = [w EXCEPT !.todo = @ \ {e}] /\ UNCHANGED state
  <2>1. w'.pc = "outdated"
    BY <1>0, <1>2 DEF WorkerType
  <2>2. QED
    BY <1>0, <1>2, <2>1, StayFollows, FixedPlain DEF WorkerStep
<1>3. QED
  BY <1>1, <1>2 DEF RequestOutdated

-----------------------------------------------------------------------------
(* The GPU thread: its arrows and what it leaves alone.                      *)

\* A step of the GPU thread moves at most the entry it is at, and changes none of
\* its fields but those that tell what the GPU has and the age of it.
GpuStep ==
    /\ Follows(GpuArrows) /\ FieldsKept /\ UNCHANGED <<at, task, w, r>>
    /\ \A e \in Entries : res'[e].data = res[e].data

LEMMA GpuFixed ==
    ASSUME UNCHANGED <<res, at>>
    PROVE  FieldsKept /\ \A e \in Entries : res'[e].data = res[e].data
BY DEF FieldsKept

LEMMA ClaimUnloadEffect == ASSUME IInv, NEW e \in Entries, ClaimUnload(e) PROVE GpuStep
<1>0. EntriesOK /\ UNCHANGED <<res, at, task, w, r>> /\ state \in [Entries -> ResourceState]
  BY DEF IInv, EntriesOK, ClaimUnload
<1>1. CASE state[e] = "UnloadPending" /\ state' = [state EXCEPT ![e] = "Unloading"]
  <2>1. Follows(GpuArrows)
    BY <1>0, <1>1 DEF Follows, GpuArrows, Alive
  <2>2. QED
    BY <1>0, <2>1, GpuFixed DEF GpuStep
<1>2. CASE UNCHANGED state
  BY <1>0, <1>2, GpuFixed, StayFollows DEF GpuStep
<1>3. QED
  BY <1>1, <1>2 DEF ClaimUnload

LEMMA UnloadFromGPUEffect == ASSUME IInv, UnloadFromGPU PROVE GpuStep
<1>0. /\ UNCHANGED <<state, at, task, w, r>> /\ res \in [Entries -> Fields] /\ g.e \in Entries
      /\ res' = [res EXCEPT ![g.e].gpu = FALSE, ![g.e].stale = FALSE]
  BY DEF IInv, EntriesOK, GpuOK, UnloadFromGPU
<1>1. FieldsKept /\ \A e \in Entries : res'[e].data = res[e].data
  BY <1>0 DEF FieldsKept, Fields
<1>2. QED
  BY <1>0, <1>1, StayFollows DEF GpuStep

LEMMA MarkUnloadedEffect == ASSUME IInv, MarkUnloaded PROVE GpuStep
<1>0. /\ UNCHANGED <<res, at, task, w, r>> /\ state \in [Entries -> ResourceState]
      /\ g.e \in Entries
      /\ state[g.e] = "Unloading" /\ state' = [state EXCEPT ![g.e] = "Unloaded"]
  BY DEF IInv, EntriesOK, GpuOK, MarkUnloaded
<1>1. Follows(GpuArrows)
  BY <1>0 DEF Follows, GpuArrows, Alive
<1>2. QED
  BY <1>0, <1>1, GpuFixed DEF GpuStep

LEMMA ClaimUploadEffect == ASSUME IInv, ClaimUpload PROVE GpuStep
<1>0. EntriesOK /\ UNCHANGED <<res, at, task, w, r>> /\ g.e \in Entries /\ g.i \in 1..3
  BY DEF IInv, GpuOK, ClaimUpload
<1> DEFINE rung == UploadLadder[g.i]
<1>1. rung \in GpuArrows /\ rung = <<rung[1], rung[2]>>
  BY <1>0, UploadArrows DEF UploadLadder
<1>2. CASE Hit(rung, g.e) /\ Swap(rung, g.e)
  <2>1. Follows(GpuArrows)
    BY <1>0, <1>1, <1>2, SwapFollows
  <2>2. QED
    BY <1>0, <2>1, GpuFixed DEF GpuStep
<1>3. CASE UNCHANGED state
  BY <1>0, <1>3, GpuFixed, StayFollows DEF GpuStep
<1>4. QED
  BY <1>2, <1>3 DEF ClaimUpload

LEMMA UploadToGPUEffect == ASSUME IInv, UploadToGPU PROVE GpuStep
<1>0. /\ UNCHANGED <<state, at, task, w, r>> /\ res \in [Entries -> Fields] /\ g.e \in Entries
      /\ \/ UNCHANGED res
         \/ res' = [res EXCEPT ![g.e].gpu = TRUE, ![g.e].stale = FALSE]
  BY DEF IInv, EntriesOK, GpuOK, UploadToGPU
<1>1. FieldsKept /\ \A e \in Entries : res'[e].data = res[e].data
  BY <1>0 DEF FieldsKept, Fields
<1>2. QED
  BY <1>0, <1>1, StayFollows DEF GpuStep

LEMMA SettleUploadEffect == ASSUME IInv, SettleUpload PROVE GpuStep
<1> DEFINE ladder == IF g.out = "failed" THEN UploadFailedLadder ELSE UploadedLadder(g.out)
           rung == ladder[g.i]
<1>0. /\ EntriesOK /\ UNCHANGED <<at, task, w, r>> /\ g.e \in Entries /\ g.i \in 1..3
      /\ (g.out = "failed" => g.i \in 1..2) /\ g.out \in {"failed", "old", "oldTime", "fresh"}
      /\ res \in [Entries -> Fields]
  BY DEF IInv, EntriesOK, GpuOK, GpuType, SettleUpload
<1>1. rung \in GpuArrows /\ rung = <<rung[1], rung[2]>>
  BY <1>0, UploadedArrows DEF UploadFailedLadder, UploadedLadder
<1>2. CASE /\ Hit(rung, g.e) /\ Swap(rung, g.e)
           /\ res' = [res EXCEPT ![g.e].oldTime = @ /\ g.out # "oldTime"]
  <2>1. Follows(GpuArrows)
    BY <1>0, <1>1, <1>2, SwapFollows
  <2>2. FieldsKept /\ \A e \in Entries : res'[e].data = res[e].data
    BY <1>0, <1>2 DEF FieldsKept, Fields
  <2>3. QED
    BY <1>0, <2>1, <2>2 DEF GpuStep
<1>3. CASE UNCHANGED <<state, res>>
  BY <1>0, <1>3, GpuFixed, StayFollows DEF GpuStep
<1>4. QED
  BY <1>2, <1>3 DEF SettleUpload

LEMMA GpuEffect == ASSUME IInv, Gpu PROVE GpuStep
<1>1. CASE CollectUnload \/ CollectUpload \/ CheckOld \/ UploadAgain \/ SyncDone
  BY <1>1, GpuFixed, StayFollows DEF GpuStep, CollectUnload, CollectUpload, CheckOld,
     UploadAgain, SyncDone
<1>2. CASE \E e \in Entries : PickUpload(e)
  BY <1>2, GpuFixed, StayFollows DEF GpuStep, PickUpload
<1>3. QED
  BY <1>1, <1>2, ClaimUnloadEffect, UnloadFromGPUEffect, MarkUnloadedEffect, ClaimUploadEffect,
     UploadToGPUEffect, SettleUploadEffect DEF Gpu

-----------------------------------------------------------------------------
(* The render thread: its arrows and what it leaves alone.                   *)

\* A step of the render thread touches no field that the requests depend on.
RenderStep == Follows(RenderArrows) /\ Plain /\ GoneClean /\ UNCHANGED <<at, task, w, g>>

LEMMA RenderEventEffect ==
    ASSUME IInv, NEW ev \in RenderEvents, RenderEvent(ev)
    PROVE  RenderStep
<1>0. UNCHANGED <<state, at, task, w, g>> /\ res \in [Entries -> Fields]
  BY DEF IInv, EntriesOK, RenderEvent
<1>1. CASE res' = [e \in Entries |-> [res[e] EXCEPT !.stale = res[e].gpu]]
  <2>1. \A x \in Entries : /\ res'[x].tile = res[x].tile /\ res'[x].gpu = res[x].gpu
                           /\ res'[x].cb = res[x].cb /\ res'[x].old = res[x].old
                           /\ res'[x].data = res[x].data
    BY <1>0, <1>1 DEF Fields
  <2>2. QED
    BY <1>0, <2>1, FieldsPlain, StayFollows DEF RenderStep
<1>2. CASE UNCHANGED res
  BY <1>0, <1>2, FixedPlain, StayFollows DEF RenderStep
<1>3. QED
  BY <1>1, <1>2 DEF RenderEvent

LEMMA RenderReadEffect == ASSUME IInv, NEW e \in Entries, RenderRead(e) PROVE RenderStep
<1>0. UNCHANGED <<state, at, task, w, g>> /\ res \in [Entries -> Fields]
  BY DEF IInv, EntriesOK, RenderRead
<1>1. PICK a, b : res' = [res EXCEPT ![e].junk = a, ![e].oldTime = b]
  BY DEF RenderRead
<1>2. \A x \in Entries : /\ res'[x].tile = res[x].tile /\ res'[x].gpu = res[x].gpu
                         /\ res'[x].cb = res[x].cb /\ res'[x].old = res[x].old
                         /\ res'[x].data = res[x].data
  BY <1>0, <1>1 DEF Fields
<1>3. QED
  BY <1>0, <1>2, FieldsPlain, StayFollows DEF RenderStep

LEMMA RenderJunkEffect == ASSUME IInv, RenderJunk PROVE RenderStep
<1>0. UNCHANGED <<state, at, task, w, g>> /\ res \in [Entries -> Fields] /\ r.e \in Entries
  BY DEF IInv, EntriesOK, RenderOK, RenderJunk
<1>1. PICK a : res' = [res EXCEPT ![r.e].junk = a]
  BY DEF RenderJunk
<1>2. \A x \in Entries : /\ res'[x].tile = res[x].tile /\ res'[x].gpu = res[x].gpu
                         /\ res'[x].cb = res[x].cb /\ res'[x].old = res[x].old
                         /\ res'[x].data = res[x].data
  BY <1>0, <1>1 DEF Fields
<1>3. QED
  BY <1>0, <1>2, FieldsPlain, StayFollows DEF RenderStep

LEMMA RenderUploadedEffect == ASSUME IInv, RenderUploaded PROVE RenderStep
<1> DEFINE rung == <<"Uploaded", Shown>>
<1>0. UNCHANGED <<res, at, task, w, g>> /\ EntriesOK /\ r.e \in Entries
  BY DEF IInv, RenderOK, RenderUploaded
<1>1. rung \in RenderArrows /\ rung = <<rung[1], rung[2]>>
  BY DEF RenderArrows, Shown
<1>2. (Hit(rung, r.e) /\ Swap(rung, r.e)) \/ UNCHANGED state
  BY DEF RenderUploaded
<1>3. Follows(RenderArrows)
  BY <1>0, <1>1, <1>2, SwapFollows, StayFollows
<1>4. QED
  BY <1>0, <1>3, FixedPlain DEF RenderStep

LEMMA RenderPreparedEffect == ASSUME IInv, RenderPrepared PROVE RenderStep
<1> DEFINE rung == IF r.ev = "renew" THEN <<"PreparingRenew", "PreparedRenew">>
                                     ELSE <<"PreparedRenew", "Outdated">>
<1>0. UNCHANGED <<res, at, task, w, g>> /\ EntriesOK /\ r.e \in Entries
  BY DEF IInv, RenderOK, RenderPrepared
<1>1. rung \in RenderArrows /\ rung = <<rung[1], rung[2]>>
  BY DEF RenderArrows
<1>2. (Hit(rung, r.e) /\ Swap(rung, r.e)) \/ UNCHANGED state
  BY DEF RenderPrepared
<1>3. Follows(RenderArrows)
  BY <1>0, <1>1, <1>2, SwapFollows, StayFollows
<1>4. QED
  BY <1>0, <1>3, FixedPlain DEF RenderStep

LEMMA HoldSymbolEffect == ASSUME IInv, NEW e \in Entries, HoldSymbol(e) PROVE RenderStep
<1>0. UNCHANGED <<res, at, task, w, g>> /\ EntriesOK
  BY DEF IInv, HoldSymbol
<1>1. <<"Uploaded", "IsBeingUsed">> \in RenderArrows
  BY DEF RenderArrows
<1>2. Follows(RenderArrows)
  BY <1>0, <1>1, SwapFollows DEF HoldSymbol
<1>3. QED
  BY <1>0, <1>2, FixedPlain DEF RenderStep

LEMMA ReleaseSymbolEffect == ASSUME IInv, ReleaseSymbol PROVE RenderStep
<1>0. /\ UNCHANGED <<res, at, task, w, g>> /\ r.e \in Entries /\ state[r.e] = "IsBeingUsed"
      /\ state \in [Entries -> ResourceState] /\ state' = [state EXCEPT ![r.e] = "Uploaded"]
  BY DEF IInv, EntriesOK, RenderOK, ReleaseSymbol
<1>1. Follows(RenderArrows)
  BY <1>0 DEF Follows, RenderArrows, Alive
<1>2. QED
  BY <1>0, <1>1, FixedPlain DEF RenderStep

LEMMA RenderEffect == ASSUME IInv, Render PROVE RenderStep
<1>1. CASE RenderScan \/ RenderDone
  BY <1>1, FixedPlain, StayFollows DEF RenderStep, RenderScan, RenderDone
<1>2. QED
  BY <1>1, RenderEventEffect, RenderReadEffect, RenderJunkEffect, RenderUploadedEffect,
     RenderPreparedEffect, HoldSymbolEffect, ReleaseSymbolEffect DEF Render

-----------------------------------------------------------------------------
(* One request for an entry.                                                   *)

\* States of an entry that is on its way out; no step leads back from them.
Doomed == {RCWBP, UCWBP, "UnloadPending", "Unloading", "Unloaded", JBD}
Answerable == Doomed \cup Processing

\* A task that may store data or end its entry's processing.
Serves(work) == work.pc \in {"obtain", "scaled", "end", "assert"}
Cancelling(work) == work.pc = "cancel"

\* A task without work names no entry; the cancel callback of an entry names a task
\* of that entry; what is cancelled is doomed; a request in service has an entry in
\* a state of service, and no other task of that entry serves it or, unless it is
\* doomed, cancels it.
RequestsApart ==
    /\ \A k \in Tasks : task[k].pc = "none" => task[k].e = NoEntry
    /\ \A e \in Entries : res[e].cb \in Tasks => task[res[e].cb].e = e
    /\ \A k \in Tasks : task[k].cancel => task[k].e \in Entries /\ state[task[k].e] \in Doomed
    /\ w.pc = "cancel" => state[w.e] \in Doomed
    /\ \A k \in Tasks : Serves(task[k]) \/ Cancelling(task[k]) => state[task[k].e] \in Answerable
    /\ \A j, k \in Tasks : j # k /\ task[j].e = task[k].e /\ Serves(task[j])
         => ~Serves(task[k]) /\ (Cancelling(task[k]) => state[task[j].e] \in Doomed)

Steady(S) == \A e \in Alive : state[e] \in S => state'[e] \in S

LEMMA ArrowsOnward ==
    \A arrow \in WorkerArrows \cup GpuArrows \cup RenderArrows :
       /\ arrow[1] \in Doomed => arrow[2] \in Doomed
       /\ arrow[1] \in Answerable => arrow[2] \in Answerable
<1>1. \A arrow \in WorkerArrows : /\ arrow[1] \in Doomed => arrow[2] \in Doomed
                                  /\ arrow[1] \in Answerable => arrow[2] \in Answerable
  BY DEF WorkerArrows, Doomed, Answerable, Processing
<1>2. \A arrow \in GpuArrows : /\ arrow[1] \in Doomed => arrow[2] \in Doomed
                               /\ arrow[1] \in Answerable => arrow[2] \in Answerable
  BY DEF GpuArrows, Doomed, Answerable, Processing
<1>3. \A arrow \in RenderArrows : /\ arrow[1] \in Doomed => arrow[2] \in Doomed
                                  /\ arrow[1] \in Answerable => arrow[2] \in Answerable
  BY DEF RenderArrows, Doomed, Answerable, Processing
<1>4. QED
  BY <1>1, <1>2, <1>3

LEMMA ArrowsSteady ==
    ASSUME Follows(WorkerArrows) \/ Follows(GpuArrows) \/ Follows(RenderArrows)
    PROVE  Steady(Doomed) /\ Steady(Answerable)
<1>1. Follows(WorkerArrows \cup GpuArrows \cup RenderArrows)
  BY DEF Follows
<1>2. QED
  BY <1>1, ArrowsOnward DEF Follows, Steady

CallbacksKept == \A e \in Entries : res'[e].cb = res[e].cb \/ res'[e].cb \notin Tasks

LEMMA ServesEntry ==
    ASSUME TasksOK
    PROVE  \A k \in Tasks : Serves(task[k]) \/ Cancelling(task[k]) => task[k].e \in Entries
BY DEF TasksOK, TaskOK, Serves, Cancelling

LEMMA ApartFrame ==
    ASSUME IInv, RequestsApart, task' = task, Steady(Doomed), Steady(Answerable), CallbacksKept,
           w'.pc = "cancel" => state'[w'.e] \in Doomed
    PROVE  RequestsApart'
<1>1. \A k \in Tasks : /\ task[k].e \in Entries => task[k].e \in Alive
                       /\ Serves(task[k]) \/ Cancelling(task[k]) => task[k].e \in Alive
  BY DEF IInv, TasksOK, TaskOK, Serves, Cancelling
<1>2. \A k \in Tasks : task'[k].pc = "none" => task'[k].e = NoEntry
  BY DEF RequestsApart
<1>3. \A e \in Entries : res'[e].cb \in Tasks => task'[res'[e].cb].e = e
  BY DEF RequestsApart, CallbacksKept
<1>4. \A k \in Tasks : task'[k].cancel => task'[k].e \in Entries /\ state'[task'[k].e] \in Doomed
  BY <1>1 DEF RequestsApart, Steady
<1>5. \A k \in Tasks : Serves(task'[k]) \/ Cancelling(task'[k]) => state'[task'[k].e] \in Answerable
  BY <1>1 DEF RequestsApart, Steady
<1>6. \A j, k \in Tasks : j # k /\ task'[j].e = task'[k].e /\ Serves(task'[j])
         => ~Serves(task'[k]) /\ (Cancelling(task'[k]) => state'[task'[j].e] \in Doomed)
  BY <1>1 DEF RequestsApart, Steady
<1>7. QED
  BY <1>2, <1>3, <1>4, <1>5, <1>6 DEF RequestsApart

LEMMA CancelStays ==
    ASSUME IInv, RequestsApart, w' = w, Steady(Doomed)
    PROVE  w'.pc = "cancel" => state'[w'.e] \in Doomed
BY DEF IInv, WorkerOK, RequestsApart, Steady

LEMMA GpuApart == ASSUME IInv, RequestsApart, Gpu PROVE RequestsApart'
<1>1. GpuStep
  BY GpuEffect
<1>2. Steady(Doomed) /\ Steady(Answerable)
  BY <1>1, ArrowsSteady DEF GpuStep
<1>3. QED
  BY <1>1, <1>2, ApartFrame, CancelStays DEF GpuStep, FieldsKept, CallbacksKept

LEMMA RenderApart == ASSUME IInv, RequestsApart, Render PROVE RequestsApart'
<1>1. RenderStep
  BY RenderEffect
<1>2. Steady(Doomed) /\ Steady(Answerable)
  BY <1>1, ArrowsSteady DEF RenderStep
<1>3. QED
  BY <1>1, <1>2, ApartFrame, CancelStays DEF RenderStep, Plain, FieldsKept, CallbacksKept

LEMMA WorkerStepApart ==
    ASSUME IInv, RequestsApart, Follows(WorkerArrows), Plain, task' = task,
           w'.pc = "cancel" => state'[w'.e] \in Doomed
    PROVE  RequestsApart'
<1>1. Steady(Doomed) /\ Steady(Answerable)
  BY ArrowsSteady
<1>2. CallbacksKept
  BY DEF Plain, FieldsKept, CallbacksKept
<1>3. QED
  BY <1>1, <1>2, ApartFrame

LEMMA AllocateApart ==
    ASSUME IInv, RequestsApart, NEW t \in Tiles, NEW e \in Entries, AllocateEntry(t, e)
    PROVE  RequestsApart'
<1>0. /\ task' = task /\ e \notin Alive /\ state \in [Entries -> ResourceState]
      /\ res \in [Entries -> Fields] /\ w \in WorkerType
      /\ res' = [res EXCEPT ![e] = Entry(t)] /\ state' = [state EXCEPT ![e] = "Requesting"]
  BY DEF IInv, EntriesOK, WorkerOK, AllocateEntry
<1>1. Entry(t).cb = NoTask
  BY DEF Entry, Blank
<1>2. CallbacksKept
  BY <1>0, <1>1, NamesAssumption DEF CallbacksKept
<1>3. Steady(Doomed) /\ Steady(Answerable)
  BY <1>0 DEF Steady, Alive
<1>4. w'.pc = "submit"
  BY <1>0 DEF AllocateEntry, WorkerType
<1>5. QED
  BY <1>0, <1>2, <1>3, <1>4, ApartFrame

LEMMA SubmitApart ==
    ASSUME IInv, RequestsApart, NEW k \in Tasks, SubmitRequest(k)
    PROVE  RequestsApart'
<1> DEFINE f == [NoWork EXCEPT !.pc = IF Async THEN "obtain" ELSE "pending", !.e = w.e,
                               !.local = Async /\ ~res[w.e].old]
           e == w.e
<1>0. /\ e \in Alive /\ e \in Entries /\ state[e] \in {"Requesting", "Updating"}
      /\ task[k].pc = "none"
      /\ state \in [Entries -> ResourceState] /\ res \in [Entries -> Fields]
      /\ task \in [Tasks -> TaskType] /\ w \in WorkerType
      /\ task' = [task EXCEPT ![k] = f]
      /\ \A j \in Tasks : /\ task[j].pc # "none" => task[j].e \in Entries
                          /\ task[j].e \in Entries => task[j].e \in Alive
  BY DEF IInv, EntriesOK, WorkerOK, TasksOK, TaskOK, SubmitRequest, FreeTasks
<1>1. f.pc \in {"obtain", "pending"} /\ f.e = e /\ f.cancel = FALSE
  BY DEF NoWork
<1>2. task'[k] = f /\ \A j \in Tasks : j # k => task'[j] = task[j]
  BY <1>0
<1>3. /\ state'[e] \in {"ProcessingRequest", "ProcessingUpdate", "Requested", "RequestedUpdate"}
      /\ \A x \in Entries : x # e => state'[x] = state[x]
      /\ f.pc = "obtain" => state'[e] \in {"ProcessingRequest", "ProcessingUpdate"}
  BY <1>0 DEF SubmitRequest, NoWork
<1>4. /\ res'[e].cb = k /\ \A x \in Entries : x # e => res'[x] = res[x]
  BY <1>0 DEF SubmitRequest, Fields
<1>5. w'.pc # "cancel"
  BY <1>0 DEF SubmitRequest, WorkerType
\* The state the worker has claimed is one nobody serves.
<1> HIDE DEF f, e
<1>6. \A j \in Tasks : task[j].e = e => ~Serves(task[j]) /\ ~Cancelling(task[j]) /\ ~task[j].cancel
  <2>1. state[e] \notin Doomed /\ state[e] \notin Answerable
    BY <1>0 DEF Doomed, Answerable, Processing, e
  <2>2. QED
    BY <2>1 DEF RequestsApart
<1>7. \A j \in Tasks : task'[j].pc = "none" => task'[j].e = NoEntry
  BY <1>1, <1>2 DEF RequestsApart
<1>8. \A x \in Entries : res'[x].cb \in Tasks => task'[res'[x].cb].e = x
  <2>1. \A x \in Entries : x # e /\ res[x].cb \in Tasks => res[x].cb # k
    BY <1>0, NamesAssumption DEF RequestsApart
  <2>2. QED
    BY <1>1, <1>2, <1>4, <2>1 DEF RequestsApart
<1>9. \A j \in Tasks : task'[j].cancel => task'[j].e \in Entries /\ state'[task'[j].e] \in Doomed
  BY <1>1, <1>2, <1>3, <1>6 DEF RequestsApart
<1>10. \A j \in Tasks : Serves(task'[j]) \/ Cancelling(task'[j]) => state'[task'[j].e] \in Answerable
  <2>1. Serves(f) \/ Cancelling(f) => state'[e] \in Answerable
    BY <1>1, <1>3 DEF Serves, Cancelling, Answerable, Processing
  <2>2. \A j \in Tasks : j # k /\ (Serves(task[j]) \/ Cancelling(task[j])) => task[j].e \in Entries /\ task[j].e # e
    BY <1>6, ServesEntry DEF IInv
  <2>3. QED
    BY <1>1, <1>2, <1>3, <2>1, <2>2 DEF RequestsApart
<1>11. \A i, j \in Tasks : i # j /\ task'[i].e = task'[j].e /\ Serves(task'[i])
         => ~Serves(task'[j]) /\ (Cancelling(task'[j]) => state'[task'[i].e] \in Doomed)
  <2>1. \A i \in Tasks : Serves(task[i]) => task[i].e \in Entries /\ task[i].e # e
    BY <1>6, ServesEntry DEF IInv
  <2>2. QED
    BY <1>0, <1>1, <1>2, <1>3, <1>6, <2>1 DEF RequestsApart
<1>12. QED
  BY <1>5, <1>7, <1>8, <1>9, <1>10, <1>11 DEF RequestsApart

LEMMA CancelApart == ASSUME IInv, RequestsApart, CancelRequest PROVE RequestsApart'
<1> DEFINE k == res[w.e].cb
           dequeued == k \in Tasks /\ task[k].pc = "queued"
<1>0. /\ w.e \in Entries /\ state[w.e] \in Doomed /\ state' = state
      /\ task \in [Tasks -> TaskType]
      /\ res \in [Entries -> Fields] /\ w'.pc = "visit"
      /\ task' = [j \in Tasks |-> IF j # k THEN task[j] ELSE IF dequeued THEN NoWork
                                 ELSE [task[j] EXCEPT !.cancel = TRUE]]
  BY DEF IInv, EntriesOK, WorkerOK, TasksOK, RequestsApart, CancelRequest, NextVisit, WorkerType
<1>1. k \in Tasks => task[k].e = w.e
  BY <1>0 DEF RequestsApart
<1>2. \A j \in Tasks : /\ j # k => task'[j] = task[j]
                       /\ j = k => \/ dequeued /\ task'[j] = NoWork
                                  \/ /\ ~dequeued /\ task'[j].pc = task[j].pc /\ task'[j].e = task[j].e
                                     /\ task'[j].cancel
  BY <1>0 DEF TaskType
<1>3. \A e \in Entries : \/ e # w.e /\ res'[e].cb = res[e].cb
                         \/ e = w.e /\ res'[e].cb = IF dequeued THEN Expired ELSE res[e].cb
  BY <1>0 DEF CancelRequest, Fields
<1>4. NoWork.pc = "none" /\ NoWork.e = NoEntry /\ NoWork.cancel = FALSE
  BY DEF NoWork
<1>5. \A j \in Tasks : task'[j].pc = "none" => task'[j].e = NoEntry
  BY <1>2, <1>4 DEF RequestsApart
<1>6. \A e \in Entries : res'[e].cb \in Tasks => task'[res'[e].cb].e = e
  BY <1>1, <1>2, <1>3, NamesAssumption DEF RequestsApart
<1>7. \A j \in Tasks : task'[j].cancel => task'[j].e \in Entries /\ state'[task'[j].e] \in Doomed
  BY <1>0, <1>1, <1>2, <1>4 DEF RequestsApart
<1>8. \A j \in Tasks : Serves(task'[j]) \/ Cancelling(task'[j]) =>
                          (Serves(task'[j]) <=> Serves(task[j])) /\ (Cancelling(task'[j]) <=> Cancelling(task[j]))
                          /\ task'[j].e = task[j].e
  BY <1>2, <1>4 DEF Serves, Cancelling
<1>9. QED
  BY <1>0, <1>5, <1>6, <1>7, <1>8 DEF RequestsApart

LEMMA EnqueueApart == ASSUME IInv, RequestsApart, EnqueueTasks PROVE RequestsApart'
<1>0. /\ UNCHANGED <<state, res>> /\ task \in [Tasks -> TaskType] /\ w'.pc = "idle"
      /\ task' = [k \in Tasks |-> IF task[k].pc = "pending" THEN [task[k] EXCEPT !.pc = "queued"] ELSE task[k]]
  BY DEF IInv, TasksOK, EnqueueTasks, WorkerIdle
<1>1. \A k \in Tasks : /\ task'[k].e = task[k].e /\ task'[k].cancel = task[k].cancel
                       /\ task'[k].pc = "none" => task[k].pc = "none"
                       /\ Serves(task'[k]) => Serves(task[k]) 
                       /\ Cancelling(task'[k]) => Cancelling(task[k])
  BY <1>0 DEF TaskType, Serves, Cancelling
<1>2. \A j, k \in Tasks : j # k /\ task'[j].e = task'[k].e /\ Serves(task'[j])
         => ~Serves(task'[k]) /\ (Cancelling(task'[k]) => state'[task'[j].e] \in Doomed)
  BY <1>0, <1>1 DEF RequestsApart
<1>3. QED
  BY <1>0, <1>1, <1>2 DEF RequestsApart

LEMMA WorkerApart == ASSUME IInv, RequestsApart, Worker PROVE RequestsApart'
<1>1. CASE \E e \in Entries : VisitEntry(e)
  BY <1>1, VisitEntryEffect, WorkerStepApart DEF WorkerStep
<1>2. CASE ClimbCleanup
  BY <1>2, ClimbCleanupEffect, WorkerStepApart DEF WorkerStep, Doomed
<1>3. CASE LastLook \/ WakeWorker \/ CleanupDone \/ CollectOutdated
  BY <1>3, LastLookEffect, WakeWorkerEffect, CleanupDoneEffect, CollectOutdatedEffect,
     WorkerStepApart
     DEF WorkerStep
<1>4. CASE \E t \in Tiles : KeepEntry(t)
  BY <1>4, KeepEntryEffect, WorkerStepApart
<1>5. CASE \E e \in Entries : RequestOutdated(e)
  BY <1>5, RequestOutdatedEffect, WorkerStepApart DEF WorkerStep
<1>6. QED
  BY <1>1, <1>2, <1>3, <1>4, <1>5, AllocateApart, SubmitApart, CancelApart, EnqueueApart
     DEF Worker

-----------------------------------------------------------------------------
(* The request tasks and their entries.                                      *)

\* What a step of task k leaves as it is: the others, its entry and whether it
\* has been asked to cancel.
OwnStep(k) ==
    /\ \A j \in Tasks \ {k} : task'[j] = task[j]
    /\ task[k].pc # "none" /\ task'[k].pc # "none"
    /\ task'[k].e = task[k].e /\ task'[k].cancel = task[k].cancel

LEMMA GotoOwn ==
    ASSUME TasksOK, NEW k \in Tasks, NEW pc, Goto(k, pc), task[k].pc # "none", pc # "none"
    PROVE  /\ OwnStep(k) /\ task'[k].pc = pc /\ task'[k].i = 1
           /\ task'[k].ok = task[k].ok /\ task'[k].got = task[k].got
           /\ task'[k].local = task[k].local /\ task'[k].ret = task[k].ret
BY DEF TasksOK, TaskType, Goto, OwnStep

LEMMA ClimbOwn ==
    ASSUME TasksOK, NEW k \in Tasks, Climb(k), task[k].pc # "none"
    PROVE  /\ OwnStep(k) /\ task'[k].pc = task[k].pc /\ task'[k].i = task[k].i + 1
           /\ task'[k].ok = task[k].ok /\ task'[k].got = task[k].got
           /\ task'[k].local = task[k].local /\ task'[k].ret = task[k].ret
BY DEF TasksOK, TaskType, Climb, OwnStep

\* A task goes on with a request it has, or ends it.
LEMMA ApartGoesOn ==
    ASSUME IInv, RequestsApart, NEW k \in Tasks, OwnStep(k), w' = w, CallbacksKept,
           Steady(Doomed), Steady(Answerable),
           Serves(task'[k]) => Serves(task[k]),
           Cancelling(task'[k]) => Serves(task[k]) \/ Cancelling(task[k]) \/ task[k].cancel
    PROVE  RequestsApart'
<1>0. \A j \in Tasks : task'[j].e = task[j].e /\ task'[j].cancel = task[j].cancel
  BY DEF OwnStep
<1>1. \A j \in Tasks : /\ task[j].e \in Entries => task[j].e \in Alive
                       /\ Serves(task[j]) \/ Cancelling(task[j]) => task[j].e \in Alive
  BY DEF IInv, TasksOK, TaskOK, Serves, Cancelling
<1>2. \A j \in Tasks : task'[j].pc = "none" => task'[j].e = NoEntry
  BY DEF RequestsApart, OwnStep
<1>3. \A e \in Entries : res'[e].cb \in Tasks => task'[res'[e].cb].e = e
  BY <1>0 DEF RequestsApart, CallbacksKept
<1>4. \A j \in Tasks : task'[j].cancel => task'[j].e \in Entries /\ state'[task'[j].e] \in Doomed
  BY <1>0, <1>1 DEF RequestsApart, Steady
<1>5. w'.pc = "cancel" => state'[w'.e] \in Doomed
  BY CancelStays
<1>6. ASSUME task[k].cancel PROVE state[task[k].e] \in Answerable /\ task[k].e \in Alive
  BY <1>1, <1>6 DEF RequestsApart, Answerable
<1>7. \A j \in Tasks : Serves(task'[j]) \/ Cancelling(task'[j]) => state'[task'[j].e] \in Answerable
  <2>1. Serves(task'[k]) \/ Cancelling(task'[k]) => state[task[k].e] \in Answerable /\ task[k].e \in Alive
    BY <1>1, <1>6 DEF RequestsApart
  <2>2. \A j \in Tasks \ {k} : Serves(task[j]) \/ Cancelling(task[j])
          => state[task[j].e] \in Answerable /\ task[j].e \in Alive
    BY <1>1 DEF RequestsApart
  <2>3. QED
    BY <1>0, <2>1, <2>2 DEF OwnStep, Steady
<1>8. ASSUME NEW j \in Tasks, NEW i \in Tasks, i # j, task[i].e = task[j].e, Serves(task'[i])
      PROVE  ~Serves(task'[j]) /\ (Cancelling(task'[j]) => state'[task[i].e] \in Doomed)
  <2>1. Serves(task[i]) /\ task[i].e \in Alive
    BY <1>1, <1>8 DEF OwnStep
  <2>2. ~Serves(task[j]) /\ (Cancelling(task[j]) => state[task[i].e] \in Doomed)
    BY <1>8, <2>1 DEF RequestsApart
  <2>3. ~Serves(task'[j])
    BY <1>8, <2>2 DEF OwnStep
  <2>4. Cancelling(task'[j]) => state[task[i].e] \in Doomed
    BY <1>8, <2>2 DEF OwnStep, RequestsApart
  <2>5. QED
    BY <2>1, <2>3, <2>4 DEF Steady
<1>9. QED
  BY <1>0, <1>2, <1>3, <1>4, <1>5, <1>7, <1>8 DEF RequestsApart

LEMMA Standing ==
    ASSUME UNCHANGED <<state, res>>
    PROVE  Steady(Doomed) /\ Steady(Answerable) /\ CallbacksKept
BY DEF Steady, CallbacksKept

LEMMA TakeTaskApart ==
    ASSUME IInv, RequestsApart, NEW k \in Tasks, TakeTask(k)
    PROVE  RequestsApart'
<1>1. OwnStep(k) /\ task'[k].pc = "taken"
  BY GotoOwn DEF IInv, TakeTask
<1>2. QED
  BY <1>1, Standing, ApartGoesOn DEF TakeTask, Serves, Cancelling

LEMMA RunTaskApart ==
    ASSUME IInv, RequestsApart, NEW k \in Tasks, RunTask(k)
    PROVE  RequestsApart'
<1>1. OwnStep(k) /\ task'[k].pc \in {"post", "begin"}
  BY GotoOwn DEF IInv, RunTask
<1>2. QED
  BY <1>1, Standing, ApartGoesOn DEF RunTask, Serves, Cancelling

LEMMA AssertApart ==
    ASSUME IInv, RequestsApart, NEW k \in Tasks, AssertCancelled(k)
    PROVE  RequestsApart'
<1>1. OwnStep(k) /\ task'[k].pc = "cancel"
  BY GotoOwn DEF IInv, AssertCancelled
<1>2. QED
  BY <1>1, Standing, ApartGoesOn DEF AssertCancelled, Serves, Cancelling

LEMMA PostApart ==
    ASSUME IInv, RequestsApart, NEW k \in Tasks, PostExecute(k)
    PROVE  RequestsApart'
<1>1. OwnStep(k) /\ ((task'[k].pc = "cancel" /\ task[k].cancel) \/ task'[k].pc = "fin")
  BY DEF IInv, TasksOK, TaskType, PostExecute, OwnStep
<1>2. QED
  BY <1>1, Standing, ApartGoesOn DEF PostExecute, Serves, Cancelling

LEMMA DetachApart ==
    ASSUME IInv, RequestsApart, NEW k \in Tasks, DetachCallback(k)
    PROVE  RequestsApart'
<1>0. /\ UNCHANGED <<state, w>> /\ res \in [Entries -> Fields] /\ task[k].e \in Entries
      /\ res' = [res EXCEPT ![task[k].e].cb = NoTask]
  BY DEF IInv, EntriesOK, TasksOK, TaskOK, DetachCallback
<1>1. OwnStep(k) /\ task'[k].pc = "post"
  BY GotoOwn DEF IInv, DetachCallback
<1>2. CallbacksKept
  BY <1>0, NamesAssumption DEF CallbacksKept, Fields
<1>3. QED
  BY <1>0, <1>1, <1>2, ApartGoesOn DEF Steady, Serves, Cancelling

LEMMA ObtainDataApart ==
    ASSUME IInv, RequestsApart, NEW k \in Tasks, ObtainData(k)
    PROVE  RequestsApart'
<1>0. /\ UNCHANGED <<state, w>> /\ res \in [Entries -> Fields] /\ task[k].pc = "obtain"
      /\ task \in [Tasks -> TaskType]
  BY DEF IInv, EntriesOK, TasksOK, ObtainData
<1>1. PICK succeeded, available :
         /\ task' = [task EXCEPT ![k].pc = "end", ![k].i = 1, ![k].got = available,
                                 ![k].ok = succeeded /\ (Async \/ ~task[k].cancel),
                                 ![k].ret = "post"]
         /\ res' = [res EXCEPT ![task[k].e].data = @ \/ available]
  BY DEF ObtainData
<1>2. OwnStep(k) /\ task'[k].pc = "end"
  BY <1>0, <1>1 DEF TaskType, OwnStep
<1>3. CallbacksKept
  BY <1>0, <1>1 DEF CallbacksKept, Fields
<1>4. QED
  BY <1>0, <1>2, <1>3, ApartGoesOn DEF Steady, Serves, Cancelling

LEMMA ObtainCachedApart ==
    ASSUME IInv, RequestsApart, NEW k \in Tasks, ObtainCached(k)
    PROVE  RequestsApart'
<1>0. /\ UNCHANGED <<state, w>> /\ res \in [Entries -> Fields] /\ task[k].pc = "obtain"
      /\ task \in [Tasks -> TaskType]
  BY DEF IInv, EntriesOK, TasksOK, ObtainCached
<1>1. PICK pc \in {"scaled", "obtain", "end"}, ok, got, data, old \in BOOLEAN :
         /\ task' = [task EXCEPT ![k].pc = pc, ![k].i = 1, ![k].local = FALSE,
                                 ![k].ok = ok, ![k].got = got, ![k].ret = "post"]
         /\ res' = [res EXCEPT ![task[k].e].data = data, ![task[k].e].old = old]
         /\ got => data
         /\ res[task[k].e].data /\ ~data => state[task[k].e] \in Processing \ {RCWBP, UCWBP}
  BY ObtainCachedOutcome, Zenon
<1>2. OwnStep(k)
  BY <1>0, <1>1 DEF TaskType, OwnStep
<1>3. CallbacksKept
  BY <1>0, <1>1 DEF CallbacksKept, Fields
<1>4. Serves(task[k]) /\ ~Cancelling(task'[k])
  BY <1>0, <1>1 DEF Serves, Cancelling, TaskType
<1>5. QED
  BY <1>0, <1>2, <1>3, <1>4, ApartGoesOn DEF Steady

LEMMA AllocateScaledApart ==
    ASSUME IInv, RequestsApart, NEW k \in Tasks, NEW t \in Tiles, NEW e \in Entries, AllocateScaled(k, t, e)
    PROVE  RequestsApart'
<1>0. /\ res \in [Entries -> Fields] /\ state \in [Entries -> ResourceState] /\ w' = w
      /\ task[k].pc = "scaled"
      /\ \/ UNCHANGED <<state, res>>
         \/ /\ e \notin Alive /\ res' = [res EXCEPT ![e] = [Entry(t) EXCEPT !.data = TRUE]]
            /\ state' = [state EXCEPT ![e] = "Ready"]
  BY DEF IInv, EntriesOK, AllocateScaled
<1>1. OwnStep(k) /\ task'[k].pc = "obtain"
  BY <1>0, GotoOwn DEF IInv, AllocateScaled
<1>2. [Entry(t) EXCEPT !.data = TRUE].cb = NoTask
  BY DEF Entry, Blank
<1>3. CallbacksKept
  BY <1>0, <1>2, NamesAssumption DEF CallbacksKept
<1>4. Steady(Doomed) /\ Steady(Answerable)
  BY <1>0 DEF Steady, Alive
<1>5. QED
  BY <1>0, <1>1, <1>3, <1>4, ApartGoesOn DEF Serves, Cancelling

LEMMA CancellationApart ==
    ASSUME IInv, RequestsApart, NEW k \in Tasks, ProcessCancellation(k)
    PROVE  RequestsApart'
<1> DEFINE rung == CancelLadder[task[k].i]
<1>0. /\ task[k].e \in Entries /\ task[k].pc = "cancel" /\ UNCHANGED <<res, w>>
      /\ task[k].i \in 1..6
      /\ state \in [Entries -> ResourceState] /\ task[k].ret \in {"post", "fin"}
  BY DEF IInv, EntriesOK, TasksOK, TaskOK, TaskType, ProcessCancellation
<1>1. rung[2] \in Doomed
  BY <1>0 DEF CancelLadder, Doomed
<1>2. Steady(Doomed) /\ Steady(Answerable)
  BY <1>0, <1>1 DEF Steady, Swap, Answerable, ProcessCancellation, Alive
<1>3. OwnStep(k) /\ task'[k].pc \in {"post", "fin", "remove", "cancel"}
  BY <1>0, GotoOwn, ClimbOwn DEF IInv, ProcessCancellation
<1>4. QED
  BY <1>0, <1>2, <1>3, ApartGoesOn DEF CallbacksKept, Serves, Cancelling

LEMMA RemovalApart ==
    ASSUME IInv, RequestsApart, NEW k \in Tasks, NEW pc \in {"post", "fin", "erase"}, Goto(k, pc),
           task[k].pc # "none", UNCHANGED <<state, w>>,
           UNCHANGED res \/ \E e \in Entries : Unlink(e)
    PROVE  RequestsApart'
<1>1. OwnStep(k) /\ task'[k].pc = pc
  BY GotoOwn DEF IInv
<1>2. CallbacksKept
  <2>1. CASE UNCHANGED res
    BY <2>1 DEF CallbacksKept
  <2>2. CASE \E e \in Entries : Unlink(e)
    BY <2>2, UnlinkPlain DEF IInv, Plain, FieldsKept, CallbacksKept
  <2>3. QED
    BY <2>1, <2>2
<1>3. QED
  BY <1>1, <1>2, ApartGoesOn DEF Steady, Serves, Cancelling

LEMMA LockLinkApart ==
    ASSUME IInv, RequestsApart, NEW k \in Tasks, LockLink(k)
    PROVE  RequestsApart'
<1>1. task[k].e \in Entries /\ task[k].ret \in {"post", "fin"} /\ task[k].pc = "remove"
  BY DEF IInv, TasksOK, TaskOK, TaskType, LockLink
<1>2. PICK pc \in {"post", "fin", "erase"} : Goto(k, pc)
  BY <1>1 DEF LockLink
<1>3. UNCHANGED res \/ \E e \in Entries : Unlink(e)
  BY <1>1 DEF LockLink
<1>4. QED
  BY <1>1, <1>2, <1>3, RemovalApart DEF LockLink

LEMMA EraseEntryApart ==
    ASSUME IInv, RequestsApart, NEW k \in Tasks, EraseEntry(k)
    PROVE  RequestsApart'
<1> DEFINE found == at[res[task[k].e].tile]
<1>1. task[k].e \in Alive /\ task[k].ret \in {"post", "fin"} /\ task[k].pc = "erase"
  BY DEF IInv, TasksOK, TaskOK, TaskType, EraseEntry
<1>2. found \in Entries \cup {NoEntry}
  BY <1>1 DEF IInv, EntriesOK, Alive, Fields
<1>3. UNCHANGED res \/ \E e \in Entries : Unlink(e)
  BY <1>2 DEF EraseEntry
<1>4. QED
  BY <1>1, <1>3, RemovalApart DEF EraseEntry

LEMMA FinishApart ==
    ASSUME IInv, RequestsApart, NEW k \in Tasks, FinishTask(k)
    PROVE  RequestsApart'
<1>0. /\ UNCHANGED <<state, w>> /\ task \in [Tasks -> TaskType] /\ res \in [Entries -> Fields]
      /\ task' = [task EXCEPT ![k] = NoWork]
      /\ res' = [e \in Entries |-> IF res[e].cb = k THEN [res[e] EXCEPT !.cb = Expired] ELSE res[e]]
  BY DEF IInv, EntriesOK, TasksOK, FinishTask
<1>1. NoWork.pc = "none" /\ NoWork.e = NoEntry /\ NoWork.cancel = FALSE /\ ~Serves(NoWork) /\ ~Cancelling(NoWork)
  BY DEF NoWork, Serves, Cancelling
<1>2. task'[k] = NoWork /\ \A j \in Tasks : j # k => task'[j] = task[j]
  BY <1>0
<1>3. \A e \in Entries : (res'[e].cb = res[e].cb /\ res[e].cb # k) \/ res'[e].cb = Expired
  BY <1>0 DEF Fields
<1>4. \A e \in Entries : res'[e].cb \in Tasks => task'[res'[e].cb].e = e
  BY <1>2, <1>3, NamesAssumption DEF RequestsApart
<1>5. \A j \in Tasks : task'[j].pc = "none" => task'[j].e = NoEntry
  BY <1>1, <1>2 DEF RequestsApart
<1>6. \A j \in Tasks : task'[j] = task[j] \/ (task'[j].cancel = FALSE /\ ~Serves(task'[j]) /\ ~Cancelling(task'[j]))
  BY <1>1, <1>2
<1>7. QED
  BY <1>0, <1>4, <1>5, <1>6 DEF RequestsApart

\* The task that begins a request is the only one: the entry waited for it.
LEMMA BeginApart ==
    ASSUME IInv, RequestsApart, NEW k \in Tasks, BeginRequest(k)
    PROVE  RequestsApart'
<1> DEFINE rung == BeginLadder[task[k].i]
           e == task[k].e
<1>0. /\ task[k].pc = "begin" /\ e \in Entries /\ e \in Alive /\ task[k].i \in 1..2
      /\ UNCHANGED <<res, w>>
      /\ state \in [Entries -> ResourceState] /\ IInv /\ TasksOK
      /\ \A j \in Tasks : task[j].e \in Entries => task[j].e \in Alive
  BY DEF IInv, EntriesOK, TasksOK, TaskOK, BeginRequest
<1>1. CASE ~(Hit(rung, e) /\ Swap(rung, e) /\ Goto(k, "obtain"))
  <2>1. UNCHANGED state /\ OwnStep(k) /\ task'[k].pc \in {"begin", "post"}
    BY <1>0, <1>1, GotoOwn, ClimbOwn DEF BeginRequest
  <2>2. QED
    BY <1>0, <2>1, ApartGoesOn, Standing DEF Serves, Cancelling
<1>2. CASE Hit(rung, e) /\ Swap(rung, e) /\ Goto(k, "obtain")
  <2>1. OwnStep(k) /\ task'[k].pc = "obtain"
    BY <1>0, <1>2, GotoOwn
  <2>2. /\ state[e] \in {"Requested", "RequestedUpdate"}
        /\ state'[e] \in {"ProcessingRequest", "ProcessingUpdate"}
        /\ \A x \in Entries : x # e => state'[x] = state[x]
    BY <1>0, <1>2 DEF Hit, Swap, BeginLadder
  <2>3. state[e] \notin Doomed /\ state[e] \notin Answerable /\ state'[e] \in Answerable
    BY <2>2 DEF Doomed, Answerable, Processing
  <2>4. \A j \in Tasks : task[j].e = e => ~Serves(task[j]) /\ ~Cancelling(task[j]) /\ ~task[j].cancel
    BY <2>3 DEF RequestsApart
  <2>5. Serves(task'[k]) /\ ~Cancelling(task'[k])
    BY <2>1 DEF Serves, Cancelling
  <2>6. w'.pc = "cancel" => state'[w'.e] \in Doomed
    BY <1>0, <2>2, <2>3 DEF RequestsApart, WorkerOK, IInv
  <2>7. \A j \in Tasks : task'[j].e = task[j].e /\ task'[j].cancel = task[j].cancel
    BY <2>1 DEF OwnStep
  <2>8. \A j \in Tasks : task'[j].cancel => task'[j].e \in Entries /\ state'[task'[j].e] \in Doomed
    BY <2>2, <2>4, <2>7 DEF RequestsApart
  <2>9. \A j \in Tasks \ {k} : (Serves(task[j]) \/ Cancelling(task[j])) => task[j].e \in Entries /\ task[j].e # e
    BY <2>4, <1>0, ServesEntry
  <2>10. \A j \in Tasks : Serves(task'[j]) \/ Cancelling(task'[j]) => state'[task'[j].e] \in Answerable
    BY <2>1, <2>2, <2>3, <2>9 DEF RequestsApart, OwnStep
  <2>11. \A i, j \in Tasks : i # j /\ task'[i].e = task'[j].e /\ Serves(task'[i])
           => ~Serves(task'[j]) /\ (Cancelling(task'[j]) => state'[task'[i].e] \in Doomed)
    BY <2>1, <2>2, <2>4, <2>5, <2>9 DEF RequestsApart, OwnStep
  <2>12. \A j \in Tasks : task'[j].pc = "none" => task'[j].e = NoEntry
    BY <2>1 DEF RequestsApart, OwnStep
  <2>13. \A x \in Entries : res'[x].cb \in Tasks => task'[res'[x].cb].e = x
    BY <1>0, <2>7 DEF RequestsApart
  <2>14. QED
    BY <2>6, <2>8, <2>10, <2>11, <2>12, <2>13 DEF RequestsApart
<1>3. QED
  BY <1>1, <1>2

\* The task that ends a request was the only one, or its entry is doomed.
LEMMA EndApart ==
    ASSUME IInv, RequestsApart, NEW k \in Tasks, EndRequest(k)
    PROVE  RequestsApart'
<1> DEFINE ladder == IF task[k].ok THEN EndLadder(task[k].got) ELSE EndFailedLadder
           rung == ladder[task[k].i]
           e == task[k].e
<1>0. /\ task[k].pc = "end" /\ e \in Entries /\ e \in Alive /\ task[k].i \in 1..3
      /\ UNCHANGED <<res, w>>
      /\ state \in [Entries -> ResourceState] /\ IInv /\ TasksOK /\ task[k].got \in BOOLEAN
      /\ Serves(task[k])
  BY DEF IInv, EntriesOK, TasksOK, TaskOK, TaskType, EndRequest, Serves
<1>1. CASE UNCHANGED state /\ (Climb(k) \/ Goto(k, IF task[k].ok THEN "assert" ELSE "remove"))
  <2>1. OwnStep(k) /\ task'[k].pc \in {"end", "assert", "remove"}
    BY <1>0, <1>1, GotoOwn, ClimbOwn
  <2>2. QED
    BY <1>0, <1>1, <2>1, ApartGoesOn, Standing DEF Serves, Cancelling
<1>2. CASE Hit(rung, e) /\ Swap(rung, e) /\ Goto(k, IF task[k].ok THEN "detach" ELSE "post")
  <2>1. OwnStep(k) /\ task'[k].pc \in {"detach", "post"}
    BY <1>0, <1>2, GotoOwn
  <2>2. ~Serves(task'[k]) /\ ~Cancelling(task'[k])
    BY <2>1 DEF Serves, Cancelling
  <2>3. rung[1] \in Doomed => rung[2] \in Doomed
    BY <1>0 DEF EndLadder, EndFailedLadder, Doomed
  <2>4. state[e] = rung[1] /\ state'[e] = rung[2] /\ \A x \in Entries : x # e => state'[x] = state[x]
    BY <1>0, <1>2 DEF Hit, Swap
  <2>5. Steady(Doomed)
    BY <2>3, <2>4 DEF Steady, Alive
  <2>6. \A j \in Tasks : task'[j].e = task[j].e /\ task'[j].cancel = task[j].cancel
    BY <2>1 DEF OwnStep
  <2>7. \A j \in Tasks \ {k} : task[j].e = e /\ (Serves(task[j]) \/ Cancelling(task[j])) => state[e] \in Doomed
    BY <1>0 DEF RequestsApart
  <2>8. \A j \in Tasks : /\ task[j].e \in Entries => task[j].e \in Alive
                         /\ Serves(task[j]) \/ Cancelling(task[j]) => task[j].e \in Entries
    BY <1>0, ServesEntry DEF TasksOK, TaskOK
  <2>9. \A j \in Tasks : task'[j].cancel => task'[j].e \in Entries /\ state'[task'[j].e] \in Doomed
    BY <2>5, <2>6, <2>8 DEF RequestsApart, Steady
  <2>10. \A j \in Tasks : Serves(task'[j]) \/ Cancelling(task'[j]) => j # k /\ (Serves(task[j]) \/ Cancelling(task[j]))
                                    /\ task'[j] = task[j]
    BY <2>1, <2>2 DEF OwnStep
  <2>11. \A j \in Tasks : Serves(task'[j]) \/ Cancelling(task'[j]) => state'[task'[j].e] \in Answerable
    <3>1. ASSUME NEW j \in Tasks, Serves(task'[j]) \/ Cancelling(task'[j])
          PROVE  state'[task[j].e] \in Answerable
      <4>1. j # k /\ (Serves(task[j]) \/ Cancelling(task[j])) /\ task[j].e \in Entries
        BY <2>8, <2>10, <3>1
      <4>2. CASE task[j].e = e
        BY <1>0, <2>5, <2>7, <4>1, <4>2 DEF Steady, Answerable
      <4>3. CASE task[j].e # e
        BY <2>4, <4>1, <4>3 DEF RequestsApart
      <4>4. QED
        BY <4>2, <4>3
    <3>2. QED
      BY <2>6, <3>1
  <2>12. \A i, j \in Tasks : i # j /\ task'[i].e = task'[j].e /\ Serves(task'[i])
           => ~Serves(task'[j]) /\ (Cancelling(task'[j]) => state'[task'[i].e] \in Doomed)
    <3>1. \A j \in Tasks : /\ Serves(task'[j]) => Serves(task[j]) /\ task[j].e \in Alive
                           /\ Cancelling(task'[j]) => Cancelling(task[j])
      BY <2>8, <2>10, <2>2 DEF OwnStep, Serves, Cancelling
    <3>2. QED
      BY <2>5, <2>6, <3>1 DEF RequestsApart, Steady
  <2>13. \A j \in Tasks : task'[j].pc = "none" => task'[j].e = NoEntry
    BY <2>1 DEF RequestsApart, OwnStep
  <2>14. \A x \in Entries : res'[x].cb \in Tasks => task'[res'[x].cb].e = x
    BY <1>0, <2>6 DEF RequestsApart
  <2>15. w'.pc = "cancel" => state'[w'.e] \in Doomed
    BY <1>0, <2>5, CancelStays
  <2>16. QED
    BY <2>9, <2>11, <2>12, <2>13, <2>14, <2>15 DEF RequestsApart
<1>3. QED
  BY <1>1, <1>2 DEF EndRequest

LEMMA TaskStepApart ==
    ASSUME IInv, RequestsApart, NEW k \in Tasks, TaskStep(k)
    PROVE  RequestsApart'
BY TakeTaskApart, RunTaskApart, BeginApart, ObtainDataApart, ObtainCachedApart, AllocateScaledApart,
   EndApart, DetachApart, AssertApart, PostApart, CancellationApart, LockLinkApart, EraseEntryApart,
   FinishApart DEF TaskStep

LEMMA DestroyApart ==
    ASSUME IInv, RequestsApart, NEW e \in Entries, Destroy(e)
    PROVE  RequestsApart'
<1>0. /\ UNCHANGED <<at, task, w, g, r>> /\ ~Referenced(e)
      /\ state \in [Entries -> ResourceState]
      /\ res \in [Entries -> Fields]
      /\ res' = [res EXCEPT ![e] = Blank] /\ state' = [state EXCEPT ![e] = "Unknown"]
  BY DEF IInv, EntriesOK, Destroy
<1>1. w.e # e /\ \A k \in Tasks : task[k].e # e
  BY <1>0 DEF Referenced
<1>2. /\ \A x \in Entries : x # e => state'[x] = state[x] /\ res'[x] = res[x]
      /\ res'[e].cb = NoTask
  BY <1>0 DEF Blank
<1>3. \A k \in Tasks : Serves(task[k]) \/ Cancelling(task[k]) => task[k].e \in Entries
  BY ServesEntry DEF IInv
<1>4. \A x \in Entries : res'[x].cb \in Tasks => task'[res'[x].cb].e = x
  BY <1>0, <1>2, NamesAssumption DEF RequestsApart
<1>5. w'.pc = "cancel" => state'[w'.e] \in Doomed
  BY <1>0, <1>1, <1>2 DEF RequestsApart, IInv, WorkerOK
<1>6. \A k \in Tasks : task'[k].cancel => task'[k].e \in Entries /\ state'[task'[k].e] \in Doomed
  BY <1>0, <1>1, <1>2 DEF RequestsApart
<1>7. \A k \in Tasks : Serves(task'[k]) \/ Cancelling(task'[k]) => state'[task'[k].e] \in Answerable
  BY <1>0, <1>1, <1>2, <1>3 DEF RequestsApart
<1>8. \A j, k \in Tasks : j # k /\ task'[j].e = task'[k].e /\ Serves(task'[j])
         => ~Serves(task'[k]) /\ (Cancelling(task'[k]) => state'[task'[j].e] \in Doomed)
  BY <1>0, <1>1, <1>2, <1>3 DEF RequestsApart
<1>9. QED
  BY <1>0, <1>4, <1>5, <1>6, <1>7, <1>8 DEF RequestsApart

LEMMA InitApart == Init => RequestsApart
<1> SUFFICES ASSUME Init PROVE RequestsApart
  OBVIOUS
<1>1. Blank.cb \notin Tasks /\ NoWork.pc = "none" /\ NoWork.e = NoEntry /\ NoWork.cancel = FALSE
  BY NamesAssumption DEF Blank, NoWork
<1>2. \A k \in Tasks : task[k] = NoWork
  BY DEF Init
<1>3. \A e \in Entries : res[e].cb \notin Tasks
  BY <1>1 DEF Init
<1>4. ~Serves(NoWork) /\ ~Cancelling(NoWork) /\ w.pc # "cancel"
  BY DEF Serves, Cancelling, NoWork, Init, WorkerIdle
<1>5. QED
  BY <1>1, <1>2, <1>3, <1>4 DEF RequestsApart

LEMMA NextApart == IInv /\ RequestsApart /\ [Next]_vars => RequestsApart'
<1> SUFFICES ASSUME IInv, RequestsApart, [Next]_vars PROVE RequestsApart'
  OBVIOUS
<1>1. CASE UNCHANGED vars
  BY <1>1, ApartFrame, Standing, CancelStays DEF vars
<1>2. CASE Next
  BY <1>2, WorkerApart, GpuApart, RenderApart, TaskStepApart, DestroyApart DEF Next
<1>3. QED
  BY <1>1, <1>2

\* The requests of an entry stay apart, throughout: one at most is being served, and
\* the worker makes another one only when nobody can answer the first any more.
THEOREM RequestsInvariance == Spec => []RequestsApart
<1>1. Init => RequestsApart
  BY InitApart
<1>2. IInv /\ RequestsApart /\ [Next]_vars => RequestsApart'
  BY NextApart
<1>3. QED
  BY <1>1, <1>2, Invariance, PTL DEF Spec

\* No entry is served by two requests at once, whatever its kind: for every provider,
\* also with a natural asynchrony, at most one task or callback is between
\* beginResourceRequestProcessing() and the end of endResourceRequestProcessing().
THEOREM OneRequestAtATime == Spec => []OneRequest
<1>1. RequestsApart => OneRequest
  BY DEF RequestsApart, OneRequest, Serves
<1>2. QED
  BY <1>1, RequestsInvariance, PTL

-----------------------------------------------------------------------------
(* What the state of an entry says of the GPU.                                 *)

\* States between the end of the first upload and the unload.
InGPU == {"Uploaded", "IsBeingUsed", "PreparingRenew", "PreparedRenew", "Renewing", "Outdated",
          "Updating", "RequestedUpdate", "ProcessingUpdate", PUWR, UCWBP, "UnloadPending"}

\* The GPU thread is at an entry whose data it uploads, and for the first time.
InTransfer == g.pc \in {"transfer", "check", "settle"}
FirstUpload == InTransfer /\ state[g.e] = "Uploading"
Transferred == g.pc = "check" \/ (g.pc = "settle" /\ g.out # "failed")

\* The states before the first upload and after the unload have nothing in the GPU,
\* the states in between have, an entry that is ready has data, and the GPU thread is
\* where its entry's state says that it is.
GpuTold ==
    /\ \A e \in Alive : state[e] \in NotInGPU => ~res[e].gpu
    /\ \A e \in Linked : /\ state[e] \in InGPU => res[e].gpu
                         /\ state[e] = "Ready" => res[e].data
    /\ g.pc = "unloaded" => ~res[g.e].gpu
    /\ InTransfer => state[g.e] \in InGPU \cup {"Uploading"}
    /\ FirstUpload /\ ~Transferred => ~res[g.e].gpu
    /\ FirstUpload /\ Transferred /\ g.e \in Linked => res[g.e].gpu
    /\ FirstUpload /\ g.pc = "transfer" /\ g.e \in Linked => res[g.e].data

\* A first request that ends with data has stored it in its entry.
Delivers(work) == work.pc = "end" /\ work.ok /\ work.got
DataStored ==
    \A k \in Tasks : Delivers(task[k]) /\ task[k].e \in Linked /\ state[task[k].e] = "ProcessingRequest"
                       => res[task[k].e].data

TaskArrows ==
    {<<"Requested", "ProcessingRequest">>, <<"RequestedUpdate", "ProcessingUpdate">>,
     <<"ProcessingRequest", "Ready">>, <<"ProcessingRequest", "Unavailable">>,
     <<UCWBP, "UnloadPending">>, <<"Requested", JBD>>, <<"Ready", JBD>>, <<"Unavailable", JBD>>,
     <<RCWBP, JBD>>, <<"RequestedUpdate", "UnloadPending">>}
        \cup {"ProcessingUpdate", PUWR} \X {"PreparedRenew", "Uploaded", "Outdated"}

\* No step of another thread than the GPU's changes what the state says of the GPU.
Sided ==
    \A e \in Alive : /\ state'[e] \in InGPU <=> state[e] \in InGPU
                     /\ state'[e] \in NotInGPU <=> state[e] \in NotInGPU
                     /\ state'[e] = "Uploading" <=> state[e] = "Uploading"

LEMMA ArrowsSided ==
    ASSUME \/ Follows(WorkerArrows) \/ Follows(SubmitArrows)
           \/ Follows(RenderArrows) \/ Follows(TaskArrows)
    PROVE  Sided
<1> DEFINE Side(arrow) == /\ arrow[2] \in InGPU <=> arrow[1] \in InGPU
                          /\ arrow[2] \in NotInGPU <=> arrow[1] \in NotInGPU
                          /\ arrow[1] # "Uploading" /\ arrow[2] # "Uploading"
<1>1. \A arrow \in WorkerArrows : Side(arrow)
  BY DEF WorkerArrows, InGPU, NotInGPU
<1>5. \A arrow \in SubmitArrows : Side(arrow)
  BY DEF SubmitArrows, InGPU, NotInGPU
<1>2. \A arrow \in RenderArrows : Side(arrow)
  BY DEF RenderArrows, InGPU, NotInGPU
<1>3. \A arrow \in TaskArrows : Side(arrow)
  BY DEF TaskArrows, InGPU, NotInGPU
<1>4. Follows(WorkerArrows \cup SubmitArrows \cup RenderArrows \cup TaskArrows)
  BY DEF Follows
<1>6. QED
  BY <1>1, <1>2, <1>3, <1>4, <1>5 DEF Follows, Sided

LEMMA AliveFixed ==
    ASSUME \A e \in Entries : res'[e].tile = res[e].tile
    PROVE  Alive' = Alive
BY DEF Alive

LEMMA ToldFrame ==
    ASSUME IInv, GpuTold, g' = g, Sided, Linked' \subseteq Linked,
           \A e \in Entries : res'[e].tile = res[e].tile /\ res'[e].gpu = res[e].gpu,
           \A e \in Linked' : state'[e] = "Ready" => res'[e].data,
           \A e \in Linked' : state[e] = "Uploading" /\ res[e].data => res'[e].data
    PROVE  GpuTold'
<1>1. Alive' = Alive /\ Linked \subseteq Alive /\ Alive \subseteq Entries
  BY AliveFixed DEF IInv, EntriesOK, Alive
<1>2. (InTransfer \/ g.pc = "unloaded") => g.e \in Alive
  BY DEF IInv, GpuOK, InTransfer
<1>3. InTransfer' = InTransfer /\ Transferred' = Transferred
  BY DEF InTransfer, Transferred
<1>4. FirstUpload' <=> FirstUpload
  BY <1>2, <1>3 DEF FirstUpload, Sided
<1>5. \A e \in Alive' : state'[e] \in NotInGPU => ~res'[e].gpu
  BY <1>1 DEF GpuTold, Sided
<1>6. \A e \in Linked' : state'[e] \in InGPU => res'[e].gpu
  BY <1>1 DEF GpuTold, Sided
<1>7. /\ g.pc = "unloaded" => ~res'[g.e].gpu
      /\ InTransfer => state'[g.e] \in InGPU \cup {"Uploading"}
  BY <1>1, <1>2 DEF GpuTold, Sided
<1>8. /\ FirstUpload /\ ~Transferred => ~res'[g.e].gpu
      /\ FirstUpload /\ Transferred /\ g.e \in Linked' => res'[g.e].gpu
      /\ FirstUpload /\ g.pc = "transfer" /\ g.e \in Linked' => res'[g.e].data
  BY <1>1, <1>2 DEF GpuTold, FirstUpload
<1>9. QED
  BY <1>3, <1>4, <1>5, <1>6, <1>7, <1>8 DEF GpuTold

LEMMA StoredFrame ==
    ASSUME IInv, RequestsApart, DataStored, task' = task, Linked' \subseteq Linked,
           Follows(WorkerArrows) \/ Follows(GpuArrows) \/ Follows(RenderArrows),
           \A e \in Linked' : res'[e].data = res[e].data
    PROVE  DataStored'
<1>1. \A arrow \in WorkerArrows \cup GpuArrows \cup RenderArrows :
         arrow[1] \in Answerable => arrow[2] # "ProcessingRequest"
  BY DEF WorkerArrows, GpuArrows, RenderArrows, Answerable, Doomed, Processing
<1>2. Follows(WorkerArrows \cup GpuArrows \cup RenderArrows)
  BY DEF Follows
<1>3. \A e \in Alive : state[e] \in Answerable /\ state'[e] = "ProcessingRequest" => state[e] = "ProcessingRequest"
  BY <1>1, <1>2 DEF Follows
<1>4. \A k \in Tasks : Delivers(task[k]) => state[task[k].e] \in Answerable /\ task[k].e \in Alive
  BY DEF IInv, TasksOK, TaskOK, RequestsApart, Serves, Delivers
<1>5. QED
  BY <1>3, <1>4 DEF DataStored

\* The two together: a step that moves entries along the arrows of a thread that does
\* not upload, and takes entries out at most.
LEMMA PlainTold ==
    ASSUME IInv, RequestsApart, GpuTold, DataStored, g' = g, task' = task, Plain,
           Follows(WorkerArrows) \/ Follows(RenderArrows)
    PROVE  GpuTold' /\ DataStored'
<1>1. Sided
  BY ArrowsSided
<1>2. \A arrow \in WorkerArrows \cup RenderArrows : arrow[2] # "Ready"
  BY DEF WorkerArrows, RenderArrows
<1>3. \A e \in Alive : state'[e] = "Ready" => state[e] = "Ready"
  <2>1. Follows(WorkerArrows \cup RenderArrows)
    BY DEF Follows
  <2>2. QED
    BY <1>2, <2>1 DEF Follows
<1>4. /\ Linked' \subseteq Linked /\ \A e \in Linked' : res'[e].data = res[e].data
      /\ \A e \in Entries : res'[e].tile = res[e].tile /\ res'[e].gpu = res[e].gpu
  BY DEF Plain, FieldsKept
<1>5. \A e \in Linked' : state'[e] = "Ready" => res'[e].data
  BY <1>3, <1>4 DEF GpuTold, IInv, EntriesOK
<1>6. GpuTold'
  BY <1>1, <1>4, <1>5, ToldFrame
<1>7. QED
  BY <1>4, <1>6, StoredFrame

LEMMA RenderTold ==
    ASSUME IInv, RequestsApart, GpuTold, DataStored, Render
    PROVE  GpuTold' /\ DataStored'
BY RenderEffect, PlainTold DEF RenderStep

\* An entry that is made is no entry the GPU thread or a task is at.
LEMMA NewTold ==
    ASSUME IInv, GpuTold, NEW t \in Tiles, NEW e \in Entries, NEW f, NEW s, e \notin Alive, g' = g,
           at' = [at EXCEPT ![t] = e], res' = [res EXCEPT ![e] = f], state' = [state EXCEPT ![e] = s],
           f.gpu = FALSE, s \in {"Requesting", "Ready"}, s = "Ready" => f.data
    PROVE  GpuTold' /\ Linked' \subseteq Linked \cup {e}
           /\ \A x \in Alive : res'[x] = res[x] /\ state'[x] = state[x]
<1>0. /\ res \in [Entries -> Fields] /\ state \in [Entries -> ResourceState]
      /\ Linked \subseteq Alive
      /\ at \in [Tiles -> Entries \cup {NoEntry}] /\ Alive \subseteq Entries
  BY DEF IInv, EntriesOK, Alive
<1>1. Linked' \subseteq Linked \cup {e}
  BY <1>0 DEF Linked
<1>2. /\ \A x \in Entries : x # e => res'[x] = res[x] /\ state'[x] = state[x]
      /\ res'[e] = f /\ state'[e] = s
  BY <1>0
<1>3. Alive' \subseteq Alive \cup {e}
  BY <1>2 DEF Alive
<1>4. (InTransfer \/ g.pc = "unloaded") => g.e \in Alive
  BY DEF IInv, GpuOK, InTransfer
<1>5. InTransfer' = InTransfer /\ Transferred' = Transferred
  BY DEF InTransfer, Transferred
<1>6. FirstUpload' <=> FirstUpload
  BY <1>0, <1>2, <1>4, <1>5 DEF FirstUpload
<1>7. \A x \in Alive' : state'[x] \in NotInGPU => ~res'[x].gpu
  BY <1>0, <1>2, <1>3 DEF GpuTold
<1>8. \A x \in Linked' : /\ state'[x] \in InGPU => res'[x].gpu
                         /\ state'[x] = "Ready" => res'[x].data
  <2>1. s \notin InGPU
    BY DEF InGPU
  <2>2. QED
    BY <1>0, <1>1, <1>2, <2>1 DEF GpuTold
<1>9. /\ g.pc = "unloaded" => ~res'[g.e].gpu
      /\ InTransfer => state'[g.e] \in InGPU \cup {"Uploading"}
  BY <1>0, <1>2, <1>4 DEF GpuTold
<1>10. InTransfer /\ g.e \in Linked' => g.e \in Linked
  BY <1>1, <1>4
<1>11. /\ FirstUpload /\ ~Transferred => ~res'[g.e].gpu
       /\ FirstUpload /\ Transferred /\ g.e \in Linked' => res'[g.e].gpu
       /\ FirstUpload /\ g.pc = "transfer" /\ g.e \in Linked' => res'[g.e].data
  BY <1>0, <1>2, <1>4, <1>10 DEF GpuTold, FirstUpload
<1>12. GpuTold'
  BY <1>5, <1>6, <1>7, <1>8, <1>9, <1>11 DEF GpuTold
<1>13. QED
  BY <1>0, <1>1, <1>2, <1>12

LEMMA AllocateTold ==
    ASSUME IInv, GpuTold, DataStored, NEW t \in Tiles, NEW e \in Entries, AllocateEntry(t, e)
    PROVE  GpuTold' /\ DataStored'
<1>0. /\ e \notin Alive /\ UNCHANGED <<g, task>> /\ at' = [at EXCEPT ![t] = e]
      /\ res' = [res EXCEPT ![e] = Entry(t)] /\ state' = [state EXCEPT ![e] = "Requesting"]
  BY DEF AllocateEntry
<1>1. Entry(t).gpu = FALSE
  BY DEF Entry, Blank
<1>2. /\ GpuTold' /\ Linked' \subseteq Linked \cup {e}
      /\ \A x \in Alive : res'[x] = res[x] /\ state'[x] = state[x]
  BY <1>0, <1>1, NewTold
<1>3. \A k \in Tasks : Delivers(task[k]) => task[k].e \in Alive
  BY DEF IInv, TasksOK, TaskOK, Delivers
<1>4. QED
  BY <1>0, <1>2, <1>3 DEF DataStored

LEMMA SubmitTold ==
    ASSUME IInv, RequestsApart, GpuTold, DataStored, NEW k \in Tasks, SubmitRequest(k)
    PROVE  GpuTold' /\ DataStored'
<1>0. /\ w.e \in Entries /\ w.e \in Alive /\ state[w.e] \in {"Requesting", "Updating"}
      /\ UNCHANGED <<at, g>>
      /\ res \in [Entries -> Fields] /\ state \in [Entries -> ResourceState]
      /\ Linked \subseteq Alive /\ Alive \subseteq Entries /\ task \in [Tasks -> TaskType]
  BY DEF IInv, EntriesOK, WorkerOK, TasksOK, SubmitRequest, Alive
<1>1. Follows(SubmitArrows)
  BY <1>0 DEF SubmitRequest, Follows, SubmitArrows, Alive
<1>2. Linked' = Linked
  BY <1>0 DEF Linked
<1>3. \A e \in Entries : res'[e].tile = res[e].tile /\ res'[e].gpu = res[e].gpu /\ res'[e].data = res[e].data
  BY <1>0 DEF SubmitRequest, Fields
<1>4. \A arrow \in SubmitArrows : arrow[2] # "Ready"
  BY DEF SubmitArrows
<1>5. \A e \in Linked' : state'[e] = "Ready" => res'[e].data
  BY <1>0, <1>1, <1>2, <1>3, <1>4 DEF GpuTold, Follows
<1>6. GpuTold'
  BY <1>0, <1>1, <1>2, <1>3, <1>5, ArrowsSided, ToldFrame
<1>7. ~Delivers(task'[k]) /\ \A j \in Tasks : j # k => task'[j] = task[j]
  BY <1>0 DEF SubmitRequest, NoWork, Delivers
<1>8. \A j \in Tasks : Delivers(task[j]) => state[task[j].e] \in Answerable /\ task[j].e \in Alive
  BY DEF IInv, TasksOK, TaskOK, RequestsApart, Serves, Delivers
<1>9. \A e \in Alive : state[e] \in Answerable => state'[e] = state[e]
  BY <1>0 DEF SubmitRequest, Answerable, Doomed, Processing
<1>10. DataStored'
  BY <1>2, <1>3, <1>0, <1>7, <1>8, <1>9 DEF DataStored
<1>11. QED
  BY <1>6, <1>10

LEMMA CancelTold ==
    ASSUME IInv, RequestsApart, GpuTold, DataStored, CancelRequest
    PROVE  GpuTold' /\ DataStored'
<1> DEFINE k == res[w.e].cb
           gone == CleanupLadder[w.i][2] = JBD
<1>0. /\ w.e \in Entries /\ UNCHANGED <<state, g>> /\ task \in [Tasks -> TaskType]
      /\ res \in [Entries -> Fields] /\ Alive \subseteq Entries /\ Linked \subseteq Alive
      /\ at \in [Tiles -> Entries \cup {NoEntry}]
      /\ at' = [t \in Tiles |-> IF gone /\ at[t] = w.e THEN NoEntry ELSE at[t]]
  BY DEF IInv, EntriesOK, WorkerOK, TasksOK, CancelRequest, Alive
<1>1. Linked' \subseteq Linked /\ (gone => w.e \notin Linked')
  BY <1>0, NamesAssumption DEF Linked
<1>2. \A e \in Entries : /\ res'[e].tile = res[e].tile /\ res'[e].gpu = res[e].gpu
                         /\ e # w.e \/ ~gone => res'[e].data = res[e].data
  BY <1>0 DEF CancelRequest, Fields
<1>3. \A e \in Linked' : res'[e].data = res[e].data
  BY <1>0, <1>1, <1>2
<1>4. Sided
  BY <1>0 DEF Sided
<1>5. GpuTold'
  <2>1. \A e \in Linked' : state'[e] = "Ready" => res'[e].data
    BY <1>0, <1>1, <1>3 DEF GpuTold
  <2>2. QED
    BY <1>0, <1>1, <1>2, <1>3, <1>4, <2>1, ToldFrame
<1>6. \A j \in Tasks : Delivers(task'[j]) => Delivers(task[j]) /\ task'[j].e = task[j].e
  BY <1>0 DEF CancelRequest, TaskType, Delivers, NoWork
<1>7. QED
  BY <1>0, <1>1, <1>3, <1>5, <1>6 DEF DataStored

LEMMA EnqueueTold ==
    ASSUME IInv, GpuTold, DataStored, EnqueueTasks
    PROVE  GpuTold' /\ DataStored'
<1>0. /\ UNCHANGED <<state, res, at, g>> /\ task \in [Tasks -> TaskType]
      /\ task' = [k \in Tasks |-> IF task[k].pc = "pending" THEN [task[k] EXCEPT !.pc = "queued"] ELSE task[k]]
  BY DEF IInv, TasksOK, EnqueueTasks
<1>1. \A k \in Tasks : Delivers(task'[k]) => task'[k] = task[k]
  BY <1>0 DEF TaskType, Delivers
<1>2. Linked' = Linked /\ Alive' = Alive
  BY <1>0 DEF Linked, Alive
<1>3. GpuTold'
  BY <1>0, <1>2 DEF GpuTold, InTransfer, FirstUpload, Transferred
<1>4. QED
  BY <1>0, <1>1, <1>2, <1>3 DEF DataStored

LEMMA WorkerTold ==
    ASSUME IInv, RequestsApart, GpuTold, DataStored, Worker
    PROVE  GpuTold' /\ DataStored'
<1>1. CASE (\E e \in Entries : VisitEntry(e)) \/ ClimbCleanup \/ LastLook
  BY <1>1, VisitEntryEffect, ClimbCleanupEffect, LastLookEffect, PlainTold DEF WorkerStep
<1>2. CASE WakeWorker \/ CleanupDone \/ CollectOutdated
  BY <1>2, WakeWorkerEffect, CleanupDoneEffect, CollectOutdatedEffect, PlainTold DEF WorkerStep
<1>3. CASE \E t \in Tiles : KeepEntry(t)
  BY <1>3, KeepEntryEffect, PlainTold
<1>4. CASE \E e \in Entries : RequestOutdated(e)
  BY <1>4, RequestOutdatedEffect, PlainTold DEF WorkerStep
<1>5. QED
  BY <1>1, <1>2, <1>3, <1>4, AllocateTold, SubmitTold, CancelTold, EnqueueTold DEF Worker

-----------------------------------------------------------------------------
(* The GPU thread.                                                             *)

LEMMA GpuStored == ASSUME IInv, RequestsApart, DataStored, Gpu PROVE DataStored'
<1>1. GpuStep
  BY GpuEffect
<1>2. Linked' = Linked /\ Linked \subseteq Entries
  BY <1>1 DEF GpuStep, Linked
<1>3. QED
  BY <1>1, <1>2, StoredFrame DEF GpuStep

\* The GPU thread is between two entries, or has not claimed the one it is at.
LEMMA GpuBetween ==
    ASSUME IInv, GpuTold, UNCHANGED <<state, res, at>>,
           g'.pc \notin {"unloaded", "transfer", "check", "settle"}
    PROVE  GpuTold'
<1>1. Linked' = Linked /\ Alive' = Alive
  BY DEF Linked, Alive
<1>2. ~InTransfer' /\ ~FirstUpload'
  BY DEF InTransfer, FirstUpload
<1>3. QED
  BY <1>1, <1>2 DEF GpuTold

LEMMA GpuBetweenSteps ==
    ASSUME IInv, CollectUnload \/ CollectUpload \/ UploadAgain \/ SyncDone \/ \E e \in Entries : PickUpload(e)
    PROVE  UNCHANGED <<state, res, at>> /\ g'.pc \in {"unload", "upload", "claim", "idle"}
<1>1. g \in GpuType
  BY DEF IInv, GpuOK
<1>2. CASE CollectUnload
  BY <1>1, <1>2 DEF GpuType, CollectUnload
<1>3. CASE CollectUpload
  BY <1>1, <1>3 DEF GpuType, CollectUpload
<1>4. CASE UploadAgain
  BY <1>1, <1>4 DEF GpuType, UploadAgain
<1>5. CASE SyncDone
  BY <1>5 DEF SyncDone, GpuIdle
<1>6. CASE \E e \in Entries : PickUpload(e)
  BY <1>1, <1>6 DEF GpuType, PickUpload
<1>7. QED
  BY <1>2, <1>3, <1>4, <1>5, <1>6

LEMMA ClaimUnloadTold == ASSUME IInv, GpuTold, NEW e \in Entries, ClaimUnload(e) PROVE GpuTold'
<1>0. /\ UNCHANGED <<res, at>> /\ state \in [Entries -> ResourceState] /\ g \in GpuType
      /\ g.pc = "unload" /\ Alive \subseteq Entries /\ Linked \subseteq Entries
  BY DEF IInv, EntriesOK, GpuOK, ClaimUnload, Alive, Linked
<1>1. g'.pc \in {"unload", "unloading"}
  BY <1>0 DEF ClaimUnload, GpuType
<1>2. Linked' = Linked /\ Alive' = Alive
  BY <1>0 DEF Linked, Alive
<1>3. ~InTransfer' /\ ~FirstUpload' /\ g'.pc # "unloaded"
  BY <1>1 DEF InTransfer, FirstUpload
<1>4. \A x \in Entries : state'[x] = state[x] \/ state'[x] = "Unloading"
  BY <1>0 DEF ClaimUnload
<1>5. \A x \in Entries : state'[x] \in NotInGPU \cup InGPU \cup {"Ready"} => state'[x] = state[x]
  BY <1>4 DEF NotInGPU, InGPU
<1>6. QED
  BY <1>0, <1>2, <1>3, <1>5 DEF GpuTold

LEMMA UnloadTold == ASSUME IInv, GpuTold, UnloadFromGPU PROVE GpuTold'
<1>0. /\ UNCHANGED <<state, at>> /\ res \in [Entries -> Fields] /\ g \in GpuType
      /\ g.e \in Entries
      /\ state[g.e] = "Unloading" /\ Alive \subseteq Entries /\ Linked \subseteq Entries
      /\ res' = [res EXCEPT ![g.e].gpu = FALSE, ![g.e].stale = FALSE]
  BY DEF IInv, EntriesOK, GpuOK, UnloadFromGPU, Alive, Linked
<1>1. g'.pc = "unloaded" /\ g'.e = g.e
  BY <1>0 DEF UnloadFromGPU, GpuType
<1>2. \A x \in Entries : /\ res'[x].tile = res[x].tile /\ res'[x].data = res[x].data
                         /\ x # g.e => res'[x].gpu = res[x].gpu
                         /\ x = g.e => ~res'[x].gpu
  BY <1>0 DEF Fields
<1>3. Linked' = Linked /\ Alive' = Alive
  BY <1>0, <1>2 DEF Linked, Alive
<1>4. ~InTransfer' /\ ~FirstUpload'
  BY <1>1 DEF InTransfer, FirstUpload
<1>5. state[g.e] \notin InGPU
  BY <1>0 DEF InGPU
<1>6. QED
  BY <1>0, <1>1, <1>2, <1>3, <1>4, <1>5 DEF GpuTold

LEMMA UnloadedTold == ASSUME IInv, GpuTold, MarkUnloaded PROVE GpuTold'
<1>0. /\ UNCHANGED <<res, at>> /\ state \in [Entries -> ResourceState] /\ g \in GpuType
      /\ g.e \in Entries /\ Alive \subseteq Entries /\ Linked \subseteq Entries /\ ~res[g.e].gpu
      /\ state' = [state EXCEPT ![g.e] = "Unloaded"]
  BY DEF IInv, EntriesOK, GpuOK, MarkUnloaded, Alive, Linked, GpuTold
<1>1. g'.pc = "unload"
  BY <1>0 DEF MarkUnloaded, GpuType
<1>2. Linked' = Linked /\ Alive' = Alive
  BY <1>0 DEF Linked, Alive
<1>3. ~InTransfer' /\ ~FirstUpload'
  BY <1>1 DEF InTransfer, FirstUpload
<1>4. \A x \in Entries : state'[x] \in InGPU \cup {"Ready"} => state'[x] = state[x]
  BY <1>0 DEF InGPU
<1>5. QED
  BY <1>0, <1>1, <1>2, <1>3, <1>4 DEF GpuTold

\* The claim of an upload: a ready entry begins its first one, an entry that is
\* shown is renewed.
LEMMA ClaimUploadTold == ASSUME IInv, GpuTold, ClaimUpload PROVE GpuTold'
<1> DEFINE rung == UploadLadder[g.i]
           e == g.e
<1>0. /\ UNCHANGED <<res, at>> /\ state \in [Entries -> ResourceState] /\ g \in GpuType
      /\ e \in Entries /\ e \in Alive /\ g.i \in 1..3 /\ Alive \subseteq Entries
      /\ Linked \subseteq Entries
      /\ Linked \subseteq Alive
  BY DEF IInv, EntriesOK, GpuOK, ClaimUpload, Alive
<1>1. Linked' = Linked /\ Alive' = Alive
  BY <1>0 DEF Linked, Alive
<1>2. CASE Hit(rung, e) /\ Swap(rung, e) /\ g' = [g EXCEPT !.pc = "transfer", !.i = 1]
  <2>1. g'.pc = "transfer" /\ g'.e = e
    BY <1>0, <1>2 DEF GpuType
  <2>2. \/ state[e] = "Ready" /\ state'[e] = "Uploading"
        \/ state[e] \in InGPU /\ state'[e] \in InGPU
    BY <1>0, <1>2 DEF UploadLadder, Hit, Swap, InGPU
  <2>3. \A x \in Entries : x # e => state'[x] = state[x]
    BY <1>0, <1>2 DEF Swap
  <2>4. InTransfer' /\ ~Transferred' /\ (FirstUpload' => state[e] = "Ready")
    <3>1. "Uploading" \notin InGPU
      BY DEF InGPU
    <3>2. QED
      BY <2>1, <2>2, <3>1 DEF InTransfer, FirstUpload, Transferred
  <2>5. "Ready" \in NotInGPU /\ "Uploading" \notin NotInGPU /\ "Uploading" \notin InGPU
        /\ InGPU \cap NotInGPU = {} /\ "Ready" \notin InGPU
    BY DEF InGPU, NotInGPU
  <2>6. \A x \in Alive' : state'[x] \in NotInGPU => ~res'[x].gpu
    BY <1>0, <1>1, <2>2, <2>3, <2>5 DEF GpuTold
  <2>7. \A x \in Linked' : /\ state'[x] \in InGPU => res'[x].gpu
                           /\ state'[x] = "Ready" => res'[x].data
    BY <1>0, <1>1, <2>2, <2>3, <2>5 DEF GpuTold
  <2>8. state[e] = "Ready" => ~res[e].gpu /\ (e \in Linked => res[e].data)
    BY <1>0, <2>5 DEF GpuTold
  <2>9. state'[e] \in InGPU \cup {"Uploading"}
    BY <2>2
  <2>10. QED
    BY <1>0, <1>1, <2>1, <2>4, <2>6, <2>7, <2>8, <2>9 DEF GpuTold
<1>3. CASE /\ UNCHANGED state
           /\ g' = IF g.i < Len(UploadLadder) THEN [g EXCEPT !.i = @ + 1] ELSE NextUpload
  <2>1. g'.pc \in {"claim", "upload"}
    BY <1>0, <1>3 DEF GpuType, NextUpload, ClaimUpload
  <2>2. QED
    BY <1>0, <1>3, <2>1, GpuBetween
<1>4. QED
  BY <1>2, <1>3 DEF ClaimUpload

LEMMA UploadTold == ASSUME IInv, GpuTold, UploadToGPU PROVE GpuTold'
<1> DEFINE e == g.e
<1>0. /\ UNCHANGED <<state, at>> /\ res \in [Entries -> Fields] /\ g \in GpuType
      /\ g.pc = "transfer"
      /\ e \in Entries /\ e \in Alive /\ Alive \subseteq Entries /\ Linked \subseteq Entries
      /\ state[e] \in InGPU \cup {"Uploading"}
  BY DEF IInv, EntriesOK, GpuOK, UploadToGPU, Alive, Linked, GpuTold, InTransfer
<1>1. /\ InGPU \cap NotInGPU = {} /\ "Uploading" \notin InGPU /\ "Uploading" \notin NotInGPU
      /\ "Ready" \notin InGPU
  BY DEF InGPU, NotInGPU
<1>2. InTransfer /\ ~Transferred
  BY <1>0 DEF InTransfer, Transferred
<1>3. CASE /\ g' = [g EXCEPT !.pc = "check"]
           /\ res' = IF res[e].data THEN [res EXCEPT ![e].gpu = TRUE, ![e].stale = FALSE] ELSE res
  <2>1. g'.pc = "check" /\ g'.e = e
    BY <1>0, <1>3 DEF GpuType
  <2>2. \A x \in Entries : /\ res'[x].tile = res[x].tile /\ res'[x].data = res[x].data
                           /\ x # e => res'[x].gpu = res[x].gpu
                           /\ x = e => res'[x].gpu = (res[x].gpu \/ res[x].data)
    BY <1>0, <1>3 DEF Fields
  <2>3. Linked' = Linked /\ Alive' = Alive
    BY <1>0, <2>2 DEF Linked, Alive
  <2>4. InTransfer' /\ Transferred' /\ (FirstUpload' <=> FirstUpload)
    BY <1>0, <1>2, <2>1 DEF InTransfer, FirstUpload, Transferred
  <2>5. FirstUpload /\ e \in Linked => res'[e].gpu
    BY <1>0, <2>2 DEF GpuTold
  <2>6. \A x \in Alive' : state'[x] \in NotInGPU => ~res'[x].gpu
    BY <1>0, <1>1, <2>2, <2>3 DEF GpuTold
  <2>7. \A x \in Linked' : /\ state'[x] \in InGPU => res'[x].gpu
                           /\ state'[x] = "Ready" => res'[x].data
    BY <1>0, <2>2, <2>3 DEF GpuTold
  <2>8. QED
    BY <1>0, <2>1, <2>3, <2>4, <2>5, <2>6, <2>7 DEF GpuTold
<1>4. CASE g' = [g EXCEPT !.pc = "settle", !.out = "failed"] /\ UNCHANGED res
  <2>1. g'.pc = "settle" /\ g'.e = e /\ g'.out = "failed"
    BY <1>0, <1>4 DEF GpuType
  <2>2. InTransfer' /\ ~Transferred' /\ (FirstUpload' <=> FirstUpload)
    BY <1>0, <1>2, <2>1 DEF InTransfer, FirstUpload, Transferred
  <2>3. Linked' = Linked /\ Alive' = Alive
    BY <1>0, <1>4 DEF Linked, Alive
  <2>4. QED
    BY <1>0, <1>2, <1>4, <2>1, <2>2, <2>3 DEF GpuTold
<1>5. QED
  BY <1>3, <1>4 DEF UploadToGPU

LEMMA CheckTold == ASSUME IInv, GpuTold, CheckOld PROVE GpuTold'
<1>0. UNCHANGED <<state, res, at>> /\ g \in GpuType /\ g.pc = "check"
  BY DEF IInv, GpuOK, CheckOld
<1>1. g'.pc = "settle" /\ g'.e = g.e /\ g'.out # "failed"
  BY <1>0 DEF CheckOld, GpuType
<1>2. /\ InTransfer' /\ InTransfer /\ Transferred' /\ Transferred
      /\ (FirstUpload' <=> FirstUpload)
  BY <1>0, <1>1 DEF InTransfer, FirstUpload, Transferred
<1>3. Linked' = Linked /\ Alive' = Alive
  BY <1>0 DEF Linked, Alive
<1>4. QED
  BY <1>0, <1>1, <1>2, <1>3 DEF GpuTold

LEMMA SettleTold == ASSUME IInv, GpuTold, SettleUpload PROVE GpuTold'
<1> DEFINE ladder == IF g.out = "failed" THEN UploadFailedLadder ELSE UploadedLadder(g.out)
           rung == ladder[g.i]
           e == g.e
<1>0. /\ at' = at /\ res \in [Entries -> Fields] /\ state \in [Entries -> ResourceState]
      /\ g \in GpuType
      /\ g.pc = "settle" /\ e \in Entries /\ e \in Alive /\ g.i \in 1..3 /\ (g.out = "failed" => g.i \in 1..2)
      /\ Alive \subseteq Entries /\ Linked \subseteq Alive
      /\ g.out \in {"failed", "old", "oldTime", "fresh"}
      /\ Linked' = Linked
  BY DEF IInv, EntriesOK, GpuOK, GpuType, SettleUpload, Alive, Linked
<1>1. CASE /\ Hit(rung, e) /\ Swap(rung, e)
           /\ g' = [NextUpload EXCEPT !.again = @ \/ (g.out = "oldTime" /\ rung[1] # PUWR)]
           /\ res' = [res EXCEPT ![e].oldTime = @ /\ g.out # "oldTime"]
  <2>1. g'.pc = "upload"
    BY <1>0, <1>1 DEF NextUpload, GpuType
  <2>2. \A x \in Entries : res'[x].tile = res[x].tile /\ res'[x].gpu = res[x].gpu /\ res'[x].data = res[x].data
    BY <1>0, <1>1 DEF Fields
  <2>3. Alive' = Alive
    BY <2>2 DEF Alive
  <2>4. \A x \in Entries : x # e => state'[x] = state[x]
    BY <1>0, <1>1 DEF Swap
  <2>5. \/ g.out = "failed" /\ state[e] = "Uploading" /\ state'[e] = "Unloaded"
        \/ g.out # "failed" /\ state[e] = "Uploading" /\ state'[e] \in {"Uploaded", "Outdated", "PreparedRenew"}
        \/ state[e] \in InGPU /\ state'[e] \in {"Uploaded", "Outdated", "PreparedRenew", "ProcessingUpdate"}
    BY <1>0, <1>1 DEF Hit, Swap, UploadFailedLadder, UploadedLadder, InGPU
  <2>6. /\ "Unloaded" \notin InGPU
        /\ {"Uploaded", "Outdated", "PreparedRenew", "ProcessingUpdate"} \cap NotInGPU = {}
    BY DEF InGPU, NotInGPU
  <2>7. /\ g.out = "failed" /\ state[e] = "Uploading" => ~res[e].gpu
        /\ g.out # "failed" /\ state[e] = "Uploading" /\ e \in Linked => res[e].gpu
    BY <1>0 DEF GpuTold, InTransfer, FirstUpload, Transferred
  <2>8. /\ state'[e] \in NotInGPU => ~res[e].gpu
        /\ e \in Linked /\ state'[e] \in InGPU => res[e].gpu
        /\ state'[e] # "Ready"
    BY <2>5, <2>6, <2>7 DEF GpuTold
  <2>9. ~InTransfer' /\ ~FirstUpload'
    BY <2>1 DEF InTransfer, FirstUpload
  <2>10. \A x \in Alive' : state'[x] \in NotInGPU => ~res'[x].gpu
    BY <1>0, <2>2, <2>3, <2>4, <2>8 DEF GpuTold
  <2>11. \A x \in Linked' : /\ state'[x] \in InGPU => res'[x].gpu
                            /\ state'[x] = "Ready" => res'[x].data
    BY <1>0, <2>2, <2>4, <2>8 DEF GpuTold
  <2>12. QED
    BY <2>1, <2>9, <2>10, <2>11 DEF GpuTold
<1>2. CASE /\ g' = IF g.i < Len(ladder) THEN [g EXCEPT !.i = @ + 1] ELSE NextUpload
           /\ UNCHANGED <<state, res>>
  <2>1. CASE g' = [g EXCEPT !.i = @ + 1]
    <3>1. g'.pc = g.pc /\ g'.e = g.e /\ g'.out = g.out
      BY <1>0, <2>1 DEF GpuType
    <3>2. /\ (InTransfer' <=> InTransfer) /\ (FirstUpload' <=> FirstUpload)
          /\ (Transferred' <=> Transferred)
      BY <1>2, <3>1 DEF InTransfer, FirstUpload, Transferred
    <3>3. Alive' = Alive
      BY <1>2 DEF Alive
    <3>4. QED
      BY <1>0, <1>2, <3>1, <3>2, <3>3 DEF GpuTold
  <2>2. CASE g' = NextUpload
    <3>1. g'.pc = "upload"
      BY <1>0, <2>2 DEF NextUpload, GpuType
    <3>2. QED
      BY <1>0, <1>2, <3>1, GpuBetween
  <2>3. QED
    BY <1>2, <2>1, <2>2
<1>3. QED
  BY <1>1, <1>2 DEF SettleUpload

LEMMA GpuToldKept == ASSUME IInv, GpuTold, Gpu PROVE GpuTold'
<1>1. CASE CollectUnload \/ CollectUpload \/ UploadAgain \/ SyncDone \/ \E e \in Entries : PickUpload(e)
  BY <1>1, GpuBetween, GpuBetweenSteps
<1>2. QED
  BY <1>1, ClaimUnloadTold, UnloadTold, UnloadedTold, ClaimUploadTold, UploadTold, CheckTold,
     SettleTold
     DEF Gpu

-----------------------------------------------------------------------------
(* Request tasks.                                                              *)

LEMMA TaskTold ==
    ASSUME IInv, GpuTold, g' = g, Follows(TaskArrows), Linked' \subseteq Linked,
           \A e \in Entries : res'[e].tile = res[e].tile /\ res'[e].gpu = res[e].gpu,
           \A e \in Linked' : state'[e] = "Ready" => res'[e].data,
           \A e \in Linked' : state[e] = "Uploading" /\ res[e].data => res'[e].data
    PROVE  GpuTold'
BY ArrowsSided, ToldFrame

LEMMA StoredOwn ==
    ASSUME IInv, RequestsApart, DataStored, NEW k \in Tasks, OwnStep(k), Follows(TaskArrows),
           Linked' \subseteq Linked,
           \A e \in Linked' : res[e].data /\ ~res'[e].data
                              => e = task[k].e /\ Serves(task[k]) /\ ~Delivers(task[k]),
           Delivers(task'[k]) => Delivers(task[k]) \/ res'[task[k].e].data
    PROVE  DataStored'
<1>1. \A e \in Alive : state[e] \in Answerable /\ state'[e] = "ProcessingRequest" => state[e] = "ProcessingRequest"
  <2>1. \A arrow \in TaskArrows : arrow[1] \in Answerable => arrow[2] # "ProcessingRequest"
    BY DEF TaskArrows, Answerable, Doomed, Processing
  <2>2. QED
    BY <2>1 DEF Follows
<1>2. \A j \in Tasks : Delivers(task[j]) => /\ state[task[j].e] \in Answerable /\ task[j].e \in Alive
                                           /\ Serves(task[j])
  BY DEF IInv, TasksOK, TaskOK, RequestsApart, Serves, Delivers
<1>3. ASSUME NEW j \in Tasks, Delivers(task'[j]), task'[j].e \in Linked', state'[task'[j].e] = "ProcessingRequest"
      PROVE  res'[task'[j].e].data
  <2>0. task'[j].e = task[j].e
    BY DEF OwnStep
  <2>1. CASE Delivers(task[j])
    <3>1. res[task[j].e].data
      BY <1>1, <1>2, <1>3, <2>0, <2>1 DEF DataStored
    <3>2. ASSUME ~res'[task[j].e].data PROVE FALSE
      <4>1. task[j].e = task[k].e /\ Serves(task[k]) /\ ~Delivers(task[k])
        BY <1>3, <2>0, <3>1, <3>2
      <4>2. QED
        BY <1>2, <2>1, <4>1 DEF RequestsApart
    <3>3. QED
      BY <2>0, <3>2
  <2>2. CASE ~Delivers(task[j])
    BY <1>3, <2>0, <2>2 DEF OwnStep
  <2>3. QED
    BY <2>1, <2>2
<1>4. QED
  BY <1>3 DEF DataStored

LEMMA TaskPlain ==
    ASSUME IInv, RequestsApart, GpuTold, DataStored, NEW k \in Tasks, OwnStep(k), g' = g,
           Follows(TaskArrows), Plain, Delivers(task'[k]) => Delivers(task[k]),
           \A e \in Linked' : state'[e] = "Ready" => res'[e].data
    PROVE  GpuTold' /\ DataStored'
<1>1. /\ Linked' \subseteq Linked /\ \A e \in Linked' : res'[e].data = res[e].data
      /\ \A e \in Entries : res'[e].tile = res[e].tile /\ res'[e].gpu = res[e].gpu
  BY DEF Plain, FieldsKept
<1>2. GpuTold'
  BY <1>1, TaskTold
<1>3. DataStored'
  BY <1>1, StoredOwn
<1>4. QED
  BY <1>2, <1>3

LEMMA ReadyStands ==
    ASSUME GpuTold, Plain, state' = state
    PROVE  \A e \in Linked' : state'[e] = "Ready" => res'[e].data
BY DEF GpuTold, Plain

\* A step that changes nothing but its task's record, or only the callback.
LEMMA TaskQuietTold ==
    ASSUME IInv, RequestsApart, GpuTold, DataStored, NEW k \in Tasks, OwnStep(k), UNCHANGED <<state, g>>,
           Plain, Delivers(task'[k]) => Delivers(task[k])
    PROVE  GpuTold' /\ DataStored'
BY StayFollows, ReadyStands, TaskPlain

LEMMA TakeTaskTold ==
    ASSUME IInv, RequestsApart, GpuTold, DataStored, NEW k \in Tasks, TakeTask(k)
    PROVE  GpuTold' /\ DataStored'
<1>1. OwnStep(k) /\ task'[k].pc = "taken"
  BY GotoOwn DEF IInv, TakeTask
<1>2. QED
  BY <1>1, FixedPlain, TaskQuietTold DEF TakeTask, Delivers

LEMMA RunTaskTold ==
    ASSUME IInv, RequestsApart, GpuTold, DataStored, NEW k \in Tasks, RunTask(k)
    PROVE  GpuTold' /\ DataStored'
<1>1. OwnStep(k) /\ task'[k].pc \in {"post", "begin"}
  BY GotoOwn DEF IInv, RunTask
<1>2. QED
  BY <1>1, FixedPlain, TaskQuietTold DEF RunTask, Delivers

LEMMA AssertTold ==
    ASSUME IInv, RequestsApart, GpuTold, DataStored, NEW k \in Tasks, AssertCancelled(k)
    PROVE  GpuTold' /\ DataStored'
<1>1. OwnStep(k) /\ task'[k].pc = "cancel"
  BY GotoOwn DEF IInv, AssertCancelled
<1>2. QED
  BY <1>1, FixedPlain, TaskQuietTold DEF AssertCancelled, Delivers

LEMMA PostTold ==
    ASSUME IInv, RequestsApart, GpuTold, DataStored, NEW k \in Tasks, PostExecute(k)
    PROVE  GpuTold' /\ DataStored'
<1>1. OwnStep(k) /\ task'[k].pc \in {"cancel", "fin"}
  BY DEF IInv, TasksOK, TaskType, PostExecute, OwnStep
<1>2. QED
  BY <1>1, FixedPlain, TaskQuietTold DEF PostExecute, Delivers

LEMMA DetachTold ==
    ASSUME IInv, RequestsApart, GpuTold, DataStored, NEW k \in Tasks, DetachCallback(k)
    PROVE  GpuTold' /\ DataStored'
<1>0. /\ UNCHANGED <<state, at, g>> /\ res \in [Entries -> Fields] /\ task[k].pc = "detach"
      /\ res' = [res EXCEPT ![task[k].e].cb = NoTask]
  BY DEF IInv, EntriesOK, DetachCallback
<1>1. OwnStep(k) /\ task'[k].pc = "post"
  BY <1>0, GotoOwn DEF IInv, DetachCallback
<1>2. \A e \in Entries : /\ res'[e].tile = res[e].tile /\ res'[e].gpu = res[e].gpu
                         /\ res'[e].data = res[e].data
  BY <1>0 DEF Fields
<1>3. Linked' = Linked /\ Linked \subseteq Entries
  BY <1>0 DEF Linked
<1>4. GpuTold'
  BY <1>0, <1>2, <1>3, StayFollows, TaskTold DEF GpuTold
<1>5. DataStored'
  BY <1>0, <1>1, <1>2, <1>3, StayFollows, StoredOwn DEF Delivers
<1>6. QED
  BY <1>4, <1>5

LEMMA BeginTold ==
    ASSUME IInv, RequestsApart, GpuTold, DataStored, NEW k \in Tasks, BeginRequest(k)
    PROVE  GpuTold' /\ DataStored'
<1> DEFINE rung == BeginLadder[task[k].i]
           e == task[k].e
<1>0. /\ task[k].pc = "begin" /\ e \in Entries /\ task[k].i \in 1..2 /\ UNCHANGED <<res, at, g>>
      /\ EntriesOK /\ TasksOK
  BY DEF IInv, TasksOK, TaskOK, BeginRequest
<1>1. OwnStep(k) /\ task'[k].pc \in {"begin", "post", "obtain"}
  BY <1>0, GotoOwn, ClimbOwn DEF BeginRequest
<1>2. rung \in TaskArrows /\ rung = <<rung[1], rung[2]>> /\ rung[2] # "Ready"
  BY <1>0 DEF BeginLadder, TaskArrows
<1>3. (Hit(rung, e) /\ Swap(rung, e)) \/ UNCHANGED state
  BY DEF BeginRequest
<1>4. Follows(TaskArrows)
  BY <1>0, <1>2, <1>3, SwapFollows, StayFollows
<1>5. \A x \in Entries : state'[x] = "Ready" => state[x] = "Ready"
  BY <1>0, <1>2, <1>3 DEF EntriesOK, Swap
<1>6. Plain /\ \A x \in Linked' : state'[x] = "Ready" => res'[x].data
  BY <1>0, <1>5, FixedPlain DEF GpuTold, Linked
<1>7. QED
  BY <1>0, <1>1, <1>4, <1>6, TaskPlain DEF Delivers

LEMMA EndTold ==
    ASSUME IInv, RequestsApart, GpuTold, DataStored, NEW k \in Tasks, EndRequest(k)
    PROVE  GpuTold' /\ DataStored'
<1> DEFINE ladder == IF task[k].ok THEN EndLadder(task[k].got) ELSE EndFailedLadder
           rung == ladder[task[k].i]
           e == task[k].e
<1>0. /\ task[k].pc = "end" /\ e \in Entries /\ task[k].i \in 1..3 /\ UNCHANGED <<res, at, g>>
      /\ EntriesOK /\ TasksOK /\ task[k].got \in BOOLEAN /\ task[k].ok \in BOOLEAN
  BY DEF IInv, TasksOK, TaskOK, TaskType, EndRequest
<1>1. OwnStep(k) /\ (Delivers(task'[k]) => Delivers(task[k]))
  <2>1. CASE Climb(k)
    BY <1>0, <2>1, ClimbOwn DEF Delivers
  <2>2. CASE \E pc \in {"detach", "post", "assert", "remove"} : Goto(k, pc)
    BY <1>0, <2>2, GotoOwn DEF Delivers
  <2>3. QED
    BY <2>1, <2>2 DEF EndRequest
<1>2. rung \in TaskArrows /\ rung = <<rung[1], rung[2]>>
  BY <1>0 DEF EndLadder, EndFailedLadder, TaskArrows
<1>3. rung[2] = "Ready" => rung[1] = "ProcessingRequest" /\ task[k].ok /\ task[k].got
  BY <1>0 DEF EndLadder, EndFailedLadder
<1>4. (Hit(rung, e) /\ Swap(rung, e)) \/ UNCHANGED state
  BY DEF EndRequest
<1>5. Follows(TaskArrows)
  BY <1>0, <1>2, <1>4, SwapFollows, StayFollows
<1>6. Linked' = Linked /\ Linked \subseteq Entries
  BY <1>0 DEF Linked
<1>7. \A x \in Linked' : state'[x] = "Ready" => res'[x].data
  <2>1. CASE UNCHANGED state
    BY <1>0, <1>6, <2>1 DEF GpuTold
  <2>2. CASE Hit(rung, e) /\ Swap(rung, e)
    <3>1. state[e] = rung[1] /\ state'[e] = rung[2] /\ \A x \in Entries : x # e => state'[x] = state[x]
      BY <1>0, <2>2 DEF EntriesOK, Hit, Swap
    <3>2. e \in Linked /\ state'[e] = "Ready" => res[e].data
      BY <1>0, <1>3, <3>1 DEF DataStored, Delivers
    <3>3. QED
      BY <1>0, <1>6, <3>1, <3>2 DEF GpuTold
  <2>3. QED
    BY <1>4, <2>1, <2>2
<1>8. QED
  BY <1>0, <1>1, <1>5, <1>7, FixedPlain, TaskPlain

LEMMA CancellationTold ==
    ASSUME IInv, RequestsApart, GpuTold, DataStored, NEW k \in Tasks, ProcessCancellation(k)
    PROVE  GpuTold' /\ DataStored'
<1> DEFINE rung == CancelLadder[task[k].i]
           e == task[k].e
<1>0. /\ task[k].pc = "cancel" /\ e \in Entries /\ task[k].i \in 1..6
      /\ UNCHANGED <<res, at, g>>
      /\ EntriesOK /\ TasksOK /\ task[k].ret \in {"post", "fin"}
  BY DEF IInv, TasksOK, TaskOK, TaskType, ProcessCancellation
<1>1. OwnStep(k) /\ task'[k].pc \in {"cancel", "post", "fin", "remove"}
  BY <1>0, GotoOwn, ClimbOwn DEF ProcessCancellation
<1>2. rung \in TaskArrows /\ rung = <<rung[1], rung[2]>> /\ rung[2] # "Ready"
  BY <1>0 DEF CancelLadder, TaskArrows
<1>3. (Hit(rung, e) /\ Swap(rung, e)) \/ UNCHANGED state
  BY DEF ProcessCancellation
<1>4. Follows(TaskArrows)
  BY <1>0, <1>2, <1>3, SwapFollows, StayFollows
<1>5. \A x \in Entries : state'[x] = "Ready" => state[x] = "Ready"
  BY <1>0, <1>2, <1>3 DEF EntriesOK, Swap
<1>6. Plain /\ \A x \in Linked' : state'[x] = "Ready" => res'[x].data
  BY <1>0, <1>5, FixedPlain DEF GpuTold, Linked
<1>7. QED
  BY <1>0, <1>1, <1>4, <1>6, TaskPlain DEF Delivers

LEMMA ObtainDataTold ==
    ASSUME IInv, RequestsApart, GpuTold, DataStored, NEW k \in Tasks, ObtainData(k)
    PROVE  GpuTold' /\ DataStored'
<1> DEFINE e == task[k].e
<1>0. /\ UNCHANGED <<state, at, g>> /\ res \in [Entries -> Fields] /\ task[k].pc = "obtain"
      /\ task \in [Tasks -> TaskType] /\ e \in Entries
  BY DEF IInv, EntriesOK, TasksOK, TaskOK, ObtainData
<1>1. PICK succeeded \in BOOLEAN, available \in BOOLEAN :
         /\ task' = [task EXCEPT ![k].pc = "end", ![k].i = 1, ![k].got = available,
                                 ![k].ok = succeeded /\ (Async \/ ~task[k].cancel),
                                 ![k].ret = "post"]
         /\ res' = [res EXCEPT ![task[k].e].data = @ \/ available]
  BY DEF ObtainData
<1>2. OwnStep(k) /\ (Delivers(task'[k]) => available)
  BY <1>0, <1>1 DEF TaskType, OwnStep, Delivers
<1>3. \A x \in Entries : /\ res'[x].tile = res[x].tile /\ res'[x].gpu = res[x].gpu
                         /\ res[x].data => res'[x].data
                         /\ available /\ x = e => res'[x].data
  BY <1>0, <1>1 DEF Fields
<1>4. Linked' = Linked /\ Linked \subseteq Entries
  BY <1>0 DEF Linked
<1>5. GpuTold'
  BY <1>0, <1>3, <1>4, StayFollows, TaskTold DEF GpuTold
<1>6. DataStored'
  BY <1>0, <1>2, <1>3, <1>4, StayFollows, StoredOwn
<1>7. QED
  BY <1>5, <1>6

LEMMA ObtainCachedTold ==
    ASSUME IInv, RequestsApart, GpuTold, DataStored, NEW k \in Tasks, ObtainCached(k)
    PROVE  GpuTold' /\ DataStored'
<1>0. /\ UNCHANGED <<state, at, g>> /\ res \in [Entries -> Fields] /\ task[k].pc = "obtain"
      /\ task \in [Tasks -> TaskType] /\ task[k].e \in Entries
  BY DEF IInv, EntriesOK, TasksOK, TaskOK, ObtainCached
<1>1. PICK pc \in {"scaled", "obtain", "end"}, ok, got, data, old \in BOOLEAN :
         /\ task' = [task EXCEPT ![k].pc = pc, ![k].i = 1, ![k].local = FALSE,
                                 ![k].ok = ok, ![k].got = got, ![k].ret = "post"]
         /\ res' = [res EXCEPT ![task[k].e].data = data, ![task[k].e].old = old]
         /\ got => data
         /\ res[task[k].e].data /\ ~data => state[task[k].e] \in Processing \ {RCWBP, UCWBP}
  BY ObtainCachedOutcome, Zenon
<1>2. OwnStep(k) /\ (Delivers(task'[k]) => got)
  BY <1>0, <1>1 DEF TaskType, OwnStep, Delivers
<1>3. \A x \in Entries : /\ res'[x].tile = res[x].tile /\ res'[x].gpu = res[x].gpu
                         /\ x # task[k].e => res'[x].data = res[x].data
                         /\ x = task[k].e => res'[x].data = data
  BY <1>0, <1>1 DEF Fields
<1>4. Linked' = Linked /\ Linked \subseteq Entries
  BY <1>0 DEF Linked
<1>5. \A x \in Entries : state[x] \in {"Ready", "Uploading"} /\ res[x].data => res'[x].data
  BY <1>1, <1>3 DEF Processing
<1>6. GpuTold'
  BY <1>0, <1>3, <1>4, <1>5, StayFollows, TaskTold DEF GpuTold
<1>7. Serves(task[k]) /\ ~Delivers(task[k])
  BY <1>0 DEF Serves, Delivers
<1>8. DataStored'
  BY <1>0, <1>1, <1>2, <1>3, <1>4, <1>7, StayFollows, StoredOwn
<1>9. QED
  BY <1>6, <1>8

LEMMA AllocateScaledTold ==
    ASSUME IInv, RequestsApart, GpuTold, DataStored, NEW k \in Tasks, NEW t \in Tiles, NEW e \in Entries,
           AllocateScaled(k, t, e)
    PROVE  GpuTold' /\ DataStored'
<1> DEFINE f == [Entry(t) EXCEPT !.data = TRUE]
<1>0. task[k].pc = "scaled" /\ g' = g /\ TasksOK
  BY DEF IInv, AllocateScaled
<1>1. OwnStep(k) /\ task'[k].pc = "obtain"
  BY <1>0, GotoOwn DEF AllocateScaled
<1>2. CASE UNCHANGED <<at, res, state>>
  BY <1>0, <1>1, <1>2, FixedPlain, TaskQuietTold DEF Delivers
<1>3. CASE /\ e \notin Alive /\ at' = [at EXCEPT ![t] = e] /\ res' = [res EXCEPT ![e] = f]
           /\ state' = [state EXCEPT ![e] = "Ready"]
  <2>1. f.gpu = FALSE /\ f.data
    BY DEF Entry, Blank
  <2>2. /\ GpuTold' /\ Linked' \subseteq Linked \cup {e}
        /\ \A x \in Alive : res'[x] = res[x] /\ state'[x] = state[x]
    BY <1>0, <1>3, <2>1, NewTold
  <2>3. \A j \in Tasks : Delivers(task'[j]) => Delivers(task[j]) /\ task'[j] = task[j] /\ task[j].e \in Alive
    BY <1>0, <1>1 DEF TasksOK, TaskOK, Delivers, OwnStep
  <2>4. QED
    BY <1>3, <2>2, <2>3 DEF DataStored
<1>4. QED
  BY <1>2, <1>3 DEF AllocateScaled

LEMMA LockLinkTold ==
    ASSUME IInv, RequestsApart, GpuTold, DataStored, NEW k \in Tasks, LockLink(k)
    PROVE  GpuTold' /\ DataStored'
<1>1. /\ task[k].e \in Entries /\ task[k].ret \in {"post", "fin"} /\ task[k].pc = "remove"
      /\ EntriesOK /\ TasksOK /\ UNCHANGED <<state, g>>
  BY DEF IInv, TasksOK, TaskOK, TaskType, LockLink
<1>2. OwnStep(k) /\ task'[k].pc \in {"post", "fin", "erase"}
  BY <1>1, GotoOwn DEF LockLink
<1>3. Plain
  BY <1>1, UnlinkPlain, FixedPlain DEF LockLink
<1>4. QED
  BY <1>1, <1>2, <1>3, TaskQuietTold DEF Delivers

LEMMA EraseEntryTold ==
    ASSUME IInv, RequestsApart, GpuTold, DataStored, NEW k \in Tasks, EraseEntry(k)
    PROVE  GpuTold' /\ DataStored'
<1> DEFINE found == at[res[task[k].e].tile]
<1>1. /\ task[k].e \in Alive /\ task[k].ret \in {"post", "fin"} /\ task[k].pc = "erase"
      /\ EntriesOK /\ TasksOK /\ UNCHANGED <<state, g>>
  BY DEF IInv, TasksOK, TaskOK, TaskType, EraseEntry
<1>2. found \in Entries \cup {NoEntry}
  BY <1>1 DEF EntriesOK, Alive, Fields
<1>3. OwnStep(k) /\ task'[k].pc \in {"post", "fin"}
  BY <1>1, GotoOwn DEF EraseEntry
<1>4. Plain
  BY <1>1, <1>2, UnlinkPlain, FixedPlain DEF EraseEntry
<1>5. QED
  BY <1>1, <1>3, <1>4, TaskQuietTold DEF Delivers

LEMMA FinishTold ==
    ASSUME IInv, RequestsApart, GpuTold, DataStored, NEW k \in Tasks, FinishTask(k)
    PROVE  GpuTold' /\ DataStored'
<1>0. /\ UNCHANGED <<state, at, g>> /\ task \in [Tasks -> TaskType]
      /\ res \in [Entries -> Fields]
      /\ task' = [task EXCEPT ![k] = NoWork]
      /\ res' = [e \in Entries |-> IF res[e].cb = k THEN [res[e] EXCEPT !.cb = Expired] ELSE res[e]]
  BY DEF IInv, EntriesOK, TasksOK, FinishTask
<1>1. \A x \in Entries : res'[x].tile = res[x].tile /\ res'[x].gpu = res[x].gpu /\ res'[x].data = res[x].data
  BY <1>0 DEF Fields
<1>2. Linked' = Linked /\ Linked \subseteq Entries
  BY <1>0 DEF Linked
<1>3. GpuTold'
  BY <1>0, <1>1, <1>2, StayFollows, TaskTold DEF GpuTold
<1>4. \A j \in Tasks : Delivers(task'[j]) => task'[j] = task[j]
  BY <1>0 DEF Delivers, NoWork
<1>5. QED
  BY <1>0, <1>1, <1>2, <1>3, <1>4 DEF DataStored

LEMMA TaskStepTold ==
    ASSUME IInv, RequestsApart, GpuTold, DataStored, NEW k \in Tasks, TaskStep(k)
    PROVE  GpuTold' /\ DataStored'
BY TakeTaskTold, RunTaskTold, BeginTold, ObtainDataTold, ObtainCachedTold, AllocateScaledTold, EndTold,
   DetachTold, AssertTold, PostTold, CancellationTold, LockLinkTold, EraseEntryTold, FinishTold
   DEF TaskStep

LEMMA DestroyTold ==
    ASSUME IInv, GpuTold, DataStored, NEW e \in Entries, Destroy(e)
    PROVE  GpuTold' /\ DataStored'
<1>0. /\ UNCHANGED <<at, task, w, g, r>> /\ ~Referenced(e)
      /\ state \in [Entries -> ResourceState]
      /\ res \in [Entries -> Fields] /\ Alive \subseteq Entries /\ Linked \subseteq Entries
      /\ res' = [res EXCEPT ![e] = Blank] /\ state' = [state EXCEPT ![e] = "Unknown"]
  BY DEF IInv, EntriesOK, Destroy, Alive, Linked
<1>1. g.e # e /\ e \notin Linked
  BY <1>0 DEF Referenced
<1>2. /\ \A x \in Entries : x # e => state'[x] = state[x] /\ res'[x] = res[x]
      /\ res'[e].tile = NoTile
  BY <1>0 DEF Blank
<1>3. Alive' \subseteq Alive \ {e} /\ Linked' = Linked
  BY <1>0, <1>2 DEF Alive, Linked
<1>4. InTransfer' = InTransfer /\ Transferred' = Transferred /\ (InTransfer \/ g.pc = "unloaded" => g.e \in Entries)
  BY <1>0 DEF InTransfer, Transferred, IInv, GpuOK
<1>5. FirstUpload' <=> FirstUpload
  BY <1>0, <1>1, <1>2, <1>4 DEF FirstUpload
<1>6. GpuTold'
  BY <1>0, <1>1, <1>2, <1>3, <1>4, <1>5 DEF GpuTold, FirstUpload
<1>7. DataStored'
  BY <1>0, <1>1, <1>2, <1>3 DEF DataStored
<1>8. QED
  BY <1>6, <1>7

LEMMA InitTold == Init => GpuTold /\ DataStored
<1> SUFFICES ASSUME Init PROVE GpuTold /\ DataStored
  OBVIOUS
<1>1. Linked = {} /\ Alive = {}
  BY NamesAssumption DEF Init, Linked, Alive, Blank
<1>2. g.pc = "idle"
  BY DEF Init, GpuIdle
<1>3. QED
  BY <1>1, <1>2 DEF GpuTold, DataStored, InTransfer, FirstUpload

LEMMA NextTold == IInv /\ RequestsApart /\ GpuTold /\ DataStored /\ [Next]_vars => GpuTold' /\ DataStored'
<1> SUFFICES ASSUME IInv, RequestsApart, GpuTold, DataStored, [Next]_vars PROVE GpuTold' /\ DataStored'
  OBVIOUS
<1>1. CASE UNCHANGED vars
  <2>1. UNCHANGED <<state, res, at, task, g>>
    BY <1>1 DEF vars
  <2>2. QED
    BY <2>1, FixedPlain, StayFollows, PlainTold
<1>2. CASE Next
  BY <1>2, WorkerTold, GpuToldKept, GpuStored, RenderTold, TaskStepTold, DestroyTold DEF Next
<1>3. QED
  BY <1>1, <1>2

\* The states and the GPU agree throughout, and a first request that ends with data has
\* left the data in its entry.
THEOREM GpuInvariance == Spec => [](GpuTold /\ DataStored)
<1>1. Init => GpuTold /\ DataStored
  BY InitTold
<1>2. IInv /\ RequestsApart /\ (GpuTold /\ DataStored) /\ [Next]_vars => (GpuTold /\ DataStored)'
  BY NextTold
<1>3. QED
  BY <1>1, <1>2, Invariance, RequestsInvariance, PTL DEF Spec

\* What the state of a listed entry says of the GPU is so: nothing is there before the
\* first uploadToGPU() and after unloadFromGPU(), and a resource that the symbols and
\* layers stages may draw has its data there, in every order of the four threads.
THEOREM StateIsTrueOfGPU == Spec => []StateTellsGPU
<1>1. IInv /\ GpuTold => StateTellsGPU
  BY DEF IInv, EntriesOK, GpuTold, StateTellsGPU, InGPU
<1>2. QED
  BY <1>1, Invariance, GpuInvariance, PTL

-----------------------------------------------------------------------------
(* A removal that is not preempted removes its own entry.                      *)

NoneErases == \A k \in Tasks : task[k].pc # "erase"

LEMMA TaskErases ==
    ASSUME AtomicRemoval, IInv, NoneErases, NEW k \in Tasks, TaskStep(k)
    PROVE  NoneErases' /\ \A j \in Tasks \ {k} : task'[j] = task[j]
<1>0. task \in [Tasks -> TaskType] /\ task[k].ret \in {"post", "fin"}
  BY DEF IInv, TasksOK, TaskType
<1>1. CASE \E pc \in TaskPc \ {"erase"} : Goto(k, pc)
  BY <1>0, <1>1 DEF Goto, NoneErases, TaskType
<1>2. CASE Climb(k)
  BY <1>0, <1>2 DEF Climb, NoneErases, TaskType
<1>3. CASE ObtainData(k)
  BY <1>0, <1>3 DEF ObtainData, NoneErases, TaskType
<1>4. CASE ObtainCached(k)
  <2>1. PICK pc \in {"scaled", "obtain", "end"}, ok, got, data, old \in BOOLEAN :
         /\ task' = [task EXCEPT ![k].pc = pc, ![k].i = 1, ![k].local = FALSE,
                                 ![k].ok = ok, ![k].got = got, ![k].ret = "post"]
         /\ res' = [res EXCEPT ![task[k].e].data = data, ![task[k].e].old = old]
         /\ got => data
         /\ res[task[k].e].data /\ ~data => state[task[k].e] \in Processing \ {RCWBP, UCWBP}
    BY <1>4, ObtainCachedOutcome, Zenon
  <2>2. QED
    BY <1>0, <2>1 DEF NoneErases, TaskType
<1>5. CASE PostExecute(k)
  BY <1>0, <1>5 DEF PostExecute, NoneErases, TaskType
<1>6. CASE FinishTask(k)
  BY <1>0, <1>6 DEF FinishTask, NoneErases, NoWork
<1>7. CASE TakeTask(k) \/ RunTask(k) \/ DetachCallback(k) \/ AssertCancelled(k)
  BY <1>1, <1>7 DEF TakeTask, RunTask, DetachCallback, AssertCancelled, TaskPc
<1>8. CASE BeginRequest(k) \/ EndRequest(k)
  BY <1>1, <1>2, <1>8 DEF BeginRequest, EndRequest, TaskPc
<1>9. CASE ProcessCancellation(k) \/ LockLink(k) \/ EraseEntry(k)
  BY <1>0, <1>1, <1>2, <1>9 DEF ProcessCancellation, LockLink, EraseEntry, TaskPc
<1>10. CASE \E t \in Tiles, e \in Entries : AllocateScaled(k, t, e)
  BY <1>1, <1>10 DEF AllocateScaled, TaskPc
<1>11. QED
  BY <1>3, <1>4, <1>5, <1>6, <1>7, <1>8, <1>9, <1>10 DEF TaskStep

\* The worker changes no task but one that it submits, enqueues or cancels.
LEMMA WorkerTasks ==
    ASSUME IInv, Worker
    PROVE  \/ task' = task \/ CancelRequest \/ EnqueueTasks \/ \E k \in Tasks : SubmitRequest(k)
BY DEF Worker, WakeWorker, ClimbCleanup, LastLook, CleanupDone, CollectOutdated, VisitEntry,
       RequestOutdated, AllocateEntry, KeepEntry

LEMMA WorkerErases == ASSUME IInv, NoneErases, Worker PROVE NoneErases'
<1>0. task \in [Tasks -> TaskType]
  BY DEF IInv, TasksOK
<1>1. CASE CancelRequest
  BY <1>0, <1>1 DEF CancelRequest, NoneErases, NoWork, TaskType
<1>2. CASE EnqueueTasks
  BY <1>0, <1>2 DEF EnqueueTasks, NoneErases, TaskType
<1>3. CASE \E k \in Tasks : SubmitRequest(k)
  BY <1>0, <1>3 DEF SubmitRequest, NoneErases, NoWork
<1>4. QED
  BY <1>1, <1>2, <1>3, WorkerTasks DEF NoneErases

LEMMA NextErases == AtomicRemoval /\ IInv /\ NoneErases /\ [Next]_vars => NoneErases'
<1> SUFFICES ASSUME AtomicRemoval, IInv, NoneErases, [Next]_vars PROVE NoneErases'
  OBVIOUS
<1>1. CASE task' = task
  BY <1>1 DEF NoneErases
<1>2. Gpu \/ Render => task' = task
  BY GpuEffect, RenderEffect DEF GpuStep, RenderStep
<1>3. QED
  BY <1>1, <1>2, TaskErases, WorkerErases DEF Next, vars, Destroy

LEMMA RemovalOwn ==
    ASSUME AtomicRemoval, IInv, NoneErases, RequestsApart, [Next]_vars, NEW k \in Tasks,
           task[k].pc \in {"remove", "erase"}, task'[k] # task[k], NEW t \in Tiles, at'[t] # at[t]
    PROVE  at[t] = task[k].e
<1>0. task[k].pc = "remove" /\ task \in [Tasks -> TaskType] /\ at \in [Tiles -> Entries \cup {NoEntry}]
  BY DEF NoneErases, IInv, TasksOK, EntriesOK
<1>1. Next /\ task' # task
  BY DEF vars
<1>2. CASE Worker
  <2>1. CASE CancelRequest
    BY <1>0, <2>1 DEF CancelRequest, RequestsApart
  <2>2. CASE EnqueueTasks
    BY <1>0, <2>2 DEF EnqueueTasks
  <2>3. CASE \E j \in Tasks : SubmitRequest(j)
    BY <2>3 DEF SubmitRequest
  <2>4. QED
    BY <1>1, <1>2, <2>1, <2>2, <2>3, WorkerTasks
<1>3. CASE \E j \in Tasks : TaskStep(j)
  <2>1. TaskStep(k)
    BY <1>3, TaskErases
  <2>2. LockLink(k)
    BY <1>0, <2>1 DEF TaskStep, TakeTask, RunTask, BeginRequest, ObtainData, ObtainCached,
       AllocateScaled,
       EndRequest, DetachCallback, AssertCancelled, PostExecute, ProcessCancellation, EraseEntry, FinishTask
  <2>3. QED
    BY <1>0, <2>2 DEF LockLink, Unlink
<1>4. ~Gpu /\ ~Render /\ ~\E e \in Entries : Destroy(e)
  BY <1>1, GpuEffect, RenderEffect DEF GpuStep, RenderStep, Destroy
<1>5. QED
  BY <1>1, <1>2, <1>3, <1>4 DEF Next

\* removeSelfFromCollection() takes no other entry out than its own, provided that
\* nobody gets between its lock of the link and the removal; the run removal_by_key
\* shows what happens otherwise.
THEOREM RemovalIsOwn == AtomicRemoval => (Spec => RemovesSelf)
<1> SUFFICES ASSUME AtomicRemoval PROVE Spec => RemovesSelf
  OBVIOUS
<1>1. Init => NoneErases
  BY DEF Init, NoneErases, NoWork
<1>2. IInv /\ NoneErases /\ [Next]_vars => NoneErases'
  BY NextErases
<1>3. IInv /\ NoneErases /\ RequestsApart /\ [Next]_vars =>
        [\A k \in Tasks : task[k].pc \in {"remove", "erase"} /\ task'[k] # task[k]
           => \A t \in Tiles : at'[t] # at[t] => at[t] = task[k].e]_vars
  BY RemovalOwn
<1>4. QED
  BY <1>1, <1>2, <1>3, Invariance, RequestsInvariance, PTL DEF Spec, RemovesSelf

-----------------------------------------------------------------------------
(* Collections whose entries are never updated: made and asked for once, at most *)
(* shown anew with the data they have.                                         *)

NeverUpdated == Kinds \subseteq {"ElevationData", "Symbols"} /\ AtomicRemoval

\* States of an entry that is old, or that is asked for again.
OldStates == {"Outdated", "Updating", "RequestedUpdate", "ProcessingUpdate", PUWR, UCWBP}

\* What the render thread is about: never the age of an entry.
Renews ==
    /\ r.pc \in {"set", "scan"} => r.ev \in {"validate", "renew"}
    /\ r.pc \in {"uploaded", "prepared"} => r.ev = "renew"
    /\ r.pc # "junk"

\* Nothing is ever old, no request is for the cache only, and the only thing that the
\* render thread does to an entry that is shown is to prepare a renewed one.
NotUpdated ==
    /\ \A e \in Alive : state[e] \notin OldStates /\ ~res[e].old
    /\ \A k \in Tasks : ~task[k].local /\ task[k].pc \notin {"scaled", "erase"}
    /\ g.out # "old"
    /\ Renews

LEMMA KindFacts ==
    ASSUME NeverUpdated, IInv
    PROVE  ~Async /\ ~IsLayer /\ ~Updatable /\ RenderEvents \subseteq {"validate", "renew"}
<1>1. kind \in {"ElevationData", "Symbols"}
  BY DEF NeverUpdated, IInv, EntriesOK
<1>2. ~Async /\ ~IsLayer /\ ~Updatable /\ kind # "Map3DObjects"
  BY <1>1 DEF Async, IsLayer, Updatable
<1>3. CASE kind = "Symbols"
  BY <1>2, <1>3 DEF RenderEvents
<1>4. CASE kind = "ElevationData"
  BY <1>2, <1>4 DEF RenderEvents
<1>5. QED
  BY <1>1, <1>2, <1>3, <1>4

FreshStates == \A e \in Alive : state'[e] \in OldStates => state[e] \in OldStates

LEMMA SwapFresh ==
    ASSUME EntriesOK, NEW rung, NEW e \in Entries, Swap(rung, e), Hit(rung, e),
           rung[2] \in OldStates => rung[1] \in OldStates
    PROVE  FreshStates
BY DEF EntriesOK, Hit, Swap, FreshStates, Alive

\* The entries' part, for a step that makes none and finds none old.
LEMMA EntriesFresh ==
    ASSUME NotUpdated, FreshStates, \A e \in Entries : res'[e].tile = res[e].tile,
           \A e \in Alive : res'[e].old => res[e].old
    PROVE  \A e \in Alive' : state'[e] \notin OldStates /\ ~res'[e].old
BY AliveFixed DEF NotUpdated, FreshStates

LEMMA OthersFresh ==
    ASSUME NotUpdated, UNCHANGED <<g, r>>,
           \A e \in Alive' : state'[e] \notin OldStates /\ ~res'[e].old,
           \A k \in Tasks : ~task'[k].local /\ task'[k].pc \notin {"scaled", "erase"}
    PROVE  NotUpdated'
BY DEF NotUpdated, Renews

LEMMA PlainFresh ==
    ASSUME IInv, NotUpdated, FreshStates, FieldsKept, UNCHANGED <<task, g, r>>
    PROVE  NotUpdated'
<1>1. \A e \in Entries : res'[e].tile = res[e].tile /\ res'[e].old = res[e].old
  BY DEF FieldsKept
<1>2. \A e \in Alive' : state'[e] \notin OldStates /\ ~res'[e].old
  BY <1>1, EntriesFresh DEF Alive
<1>3. QED
  BY <1>2, OthersFresh DEF NotUpdated

LEMMA WorkerFreshStates ==
    ASSUME NeverUpdated, IInv, NotUpdated,
           \/ \E e \in Entries : VisitEntry(e) \/ RequestOutdated(e)
           \/ \E t \in Tiles : KeepEntry(t)
           \/ ClimbCleanup
    PROVE  FreshStates
<1>0. /\ EntriesOK /\ Alive \subseteq Entries /\ ~IsLayer
      /\ state \in [Entries -> ResourceState]
      /\ w.todo \subseteq Alive
  BY KindFacts DEF IInv, EntriesOK, WorkerOK, Alive
<1>1. CASE \E e \in Entries : VisitEntry(e)
  BY <1>0, <1>1 DEF VisitEntry, FreshStates, OldStates
<1>2. CASE \E e \in Entries : RequestOutdated(e)
  BY <1>0, <1>2 DEF RequestOutdated, FreshStates, OldStates
<1>3. CASE \E t \in Tiles : KeepEntry(t)
  BY <1>0, <1>3 DEF KeepEntry, IsLayer, FreshStates
<1>4. CASE ClimbCleanup
  <2> DEFINE rung == CleanupLadder[w.i]
  <2>1. w.e \in Entries /\ w.i \in 1..11
    BY <1>4 DEF IInv, WorkerOK, ClimbCleanup
  <2>2. rung[2] \in OldStates => rung[1] \in OldStates
    BY <2>1 DEF CleanupLadder, OldStates
  <2>3. (Hit(rung, w.e) /\ Swap(rung, w.e)) \/ UNCHANGED state
    BY <1>4 DEF ClimbCleanup
  <2>4. QED
    BY <1>0, <2>1, <2>2, <2>3, SwapFresh DEF FreshStates
<1>5. QED
  BY <1>1, <1>2, <1>3, <1>4

LEMMA WorkerFresh == ASSUME NeverUpdated, IInv, NotUpdated, Worker PROVE NotUpdated'
<1>0. /\ ~Async /\ ~IsLayer /\ state \in [Entries -> ResourceState]
      /\ res \in [Entries -> Fields]
      /\ task \in [Tasks -> TaskType] /\ Alive \subseteq Entries
  BY KindFacts DEF IInv, EntriesOK, TasksOK, Alive
<1>1. CASE WakeWorker \/ LastLook \/ CleanupDone \/ CollectOutdated
  <2>1. WorkerStep /\ UNCHANGED state
    BY <1>1, WakeWorkerEffect, LastLookEffect, CleanupDoneEffect, CollectOutdatedEffect
       DEF WakeWorker, LastLook, CleanupDone, CollectOutdated
  <2>2. QED
    BY <2>1, PlainFresh DEF WorkerStep, Plain, FreshStates
<1>2. CASE (\E e \in Entries : VisitEntry(e)) \/ ClimbCleanup \/ \E e \in Entries : RequestOutdated(e)
  <2>1. WorkerStep
    BY <1>2, VisitEntryEffect, ClimbCleanupEffect, RequestOutdatedEffect
  <2>2. FreshStates
    BY <1>2, WorkerFreshStates
  <2>3. QED
    BY <2>1, <2>2, PlainFresh DEF WorkerStep, Plain
<1>3. CASE \E t \in Tiles : KeepEntry(t)
  <2>1. FreshStates
    BY <1>3, WorkerFreshStates
  <2>2. Plain /\ UNCHANGED <<task, g, r>>
    BY <1>0, <1>3, KeepEntryEffect DEF KeepEntry, IsLayer
  <2>3. QED
    BY <2>1, <2>2, PlainFresh DEF Plain
<1>4. ASSUME NEW t \in Tiles, NEW e \in Entries, AllocateEntry(t, e) PROVE NotUpdated'
  <2>1. /\ UNCHANGED <<task, g, r>> /\ e \notin Alive
        /\ res' = [res EXCEPT ![e] = Entry(t)] /\ state' = [state EXCEPT ![e] = "Requesting"]
    BY <1>4 DEF AllocateEntry
  <2>2. ~Entry(t).old /\ "Requesting" \notin OldStates
    BY DEF Entry, Blank, OldStates
  <2>3. /\ \A x \in Entries : x # e => res'[x] = res[x] /\ state'[x] = state[x]
        /\ res'[e] = Entry(t) /\ state'[e] = "Requesting"
    BY <1>0, <2>1
  <2>4. \A x \in Alive' : state'[x] \notin OldStates /\ ~res'[x].old
    BY <2>2, <2>3 DEF NotUpdated, Alive
  <2>5. QED
    BY <2>1, <2>4, OthersFresh DEF NotUpdated
<1>5. ASSUME NEW k \in Tasks, SubmitRequest(k) PROVE NotUpdated'
  <2>1. /\ UNCHANGED <<g, r>> /\ w.e \in Entries /\ w.e \in Alive
        /\ state[w.e] \in {"Requesting", "Updating"}
    BY <1>5 DEF SubmitRequest, IInv, WorkerOK
  <2>2. state[w.e] = "Requesting"
    BY <2>1 DEF NotUpdated, OldStates
  <2>3. state' = [state EXCEPT ![w.e] = "Requested"]
    BY <1>0, <1>5, <2>2 DEF SubmitRequest
  <2>4. FreshStates
    BY <1>0, <2>3 DEF FreshStates, OldStates
  <2>5. \A x \in Entries : res'[x].tile = res[x].tile /\ (res'[x].old => res[x].old)
    BY <1>0, <1>5 DEF SubmitRequest, Fields
  <2>6. \A x \in Alive' : state'[x] \notin OldStates /\ ~res'[x].old
    BY <1>0, <2>4, <2>5, EntriesFresh
  <2>7. \A j \in Tasks : ~task'[j].local /\ task'[j].pc \notin {"scaled", "erase"}
    BY <1>0, <1>5 DEF SubmitRequest, NoWork, NotUpdated
  <2>8. QED
    BY <2>1, <2>6, <2>7, OthersFresh
<1>6. CASE CancelRequest
  <2>1. UNCHANGED <<state, g, r>> /\ w.e \in Entries
    BY <1>6 DEF CancelRequest, IInv, WorkerOK
  <2>2. \A x \in Entries : res'[x].tile = res[x].tile /\ (res'[x].old => res[x].old)
    BY <1>0, <1>6, <2>1 DEF CancelRequest, Fields
  <2>3. \A x \in Alive' : state'[x] \notin OldStates /\ ~res'[x].old
    BY <1>0, <2>1, <2>2, EntriesFresh DEF FreshStates
  <2>4. \A j \in Tasks : ~task'[j].local /\ task'[j].pc \notin {"scaled", "erase"}
    BY <1>0, <1>6 DEF CancelRequest, NoWork, NotUpdated, TaskType
  <2>5. QED
    BY <2>1, <2>3, <2>4, OthersFresh
<1>7. CASE EnqueueTasks
  <2>1. UNCHANGED <<state, res, g, r>>
    BY <1>7 DEF EnqueueTasks
  <2>2. \A x \in Alive' : state'[x] \notin OldStates /\ ~res'[x].old
    BY <2>1 DEF NotUpdated, Alive
  <2>3. \A j \in Tasks : ~task'[j].local /\ task'[j].pc \notin {"scaled", "erase"}
    BY <1>0, <1>7 DEF EnqueueTasks, NotUpdated, TaskType
  <2>4. QED
    BY <2>1, <2>2, <2>3, OthersFresh
<1>8. QED
  BY <1>1, <1>2, <1>3, <1>4, <1>5, <1>6, <1>7 DEF Worker

LEMMA GpuFreshStates ==
    ASSUME NeverUpdated, IInv, NotUpdated, Gpu
    PROVE  FreshStates /\ g'.out # "old"
<1>0. /\ GpuStep /\ EntriesOK /\ state \in [Entries -> ResourceState] /\ g \in GpuType
      /\ g.out # "old"
      /\ Alive \subseteq Entries
  BY GpuEffect DEF IInv, EntriesOK, GpuOK, NotUpdated, Alive
<1>1. CASE CollectUnload \/ CollectUpload \/ UploadAgain \/ SyncDone \/ \E e \in Entries : PickUpload(e)
  <2>1. UNCHANGED state
    BY <1>1 DEF CollectUnload, CollectUpload, UploadAgain, SyncDone, PickUpload
  <2>2. g'.out # "old"
    <3>1. CASE CollectUnload \/ CollectUpload \/ UploadAgain
      BY <1>0, <3>1 DEF CollectUnload, CollectUpload, UploadAgain, GpuType
    <3>2. CASE SyncDone
      BY <3>2 DEF SyncDone, GpuIdle
    <3>3. CASE \E e \in Entries : PickUpload(e)
      BY <1>0, <3>3 DEF PickUpload, GpuType
    <3>4. QED
      BY <1>1, <3>1, <3>2, <3>3
  <2>3. QED
    BY <2>1, <2>2 DEF FreshStates
<1>2. CASE \E e \in Entries : ClaimUnload(e)
  <2>1. g'.out # "old"
    BY <1>0, <1>2 DEF ClaimUnload, GpuType
  <2>2. FreshStates
    BY <1>0, <1>2 DEF ClaimUnload, FreshStates, OldStates
  <2>3. QED
    BY <2>1, <2>2
<1>3. CASE UnloadFromGPU \/ MarkUnloaded
  <2>1. g'.out # "old"
    BY <1>0, <1>3 DEF UnloadFromGPU, MarkUnloaded, GpuType
  <2>2. FreshStates
    BY <1>0, <1>3 DEF UnloadFromGPU, MarkUnloaded, FreshStates, OldStates
  <2>3. QED
    BY <2>1, <2>2
<1>4. CASE ClaimUpload
  <2> DEFINE rung == UploadLadder[g.i]
  <2>1. g.e \in Entries /\ g.i \in 1..3
    BY <1>4 DEF IInv, GpuOK, ClaimUpload
  <2>2. rung[2] \in OldStates => rung[1] \in OldStates
    BY <2>1 DEF UploadLadder, OldStates
  <2>3. (Hit(rung, g.e) /\ Swap(rung, g.e)) \/ UNCHANGED state
    BY <1>4 DEF ClaimUpload
  <2>4. FreshStates
    BY <1>0, <2>1, <2>2, <2>3, SwapFresh DEF FreshStates
  <2>5. g'.out # "old"
    BY <1>0, <1>4 DEF ClaimUpload, NextUpload, GpuType
  <2>6. QED
    BY <2>4, <2>5
<1>5. CASE UploadToGPU
  BY <1>0, <1>5 DEF UploadToGPU, FreshStates, GpuType
<1>6. CASE CheckOld
  <2>1. ~res[g.e].old
    BY <1>6 DEF CheckOld, IInv, GpuOK, NotUpdated
  <2>2. QED
    BY <1>0, <1>6, <2>1 DEF CheckOld, FreshStates, GpuType
<1>7. CASE SettleUpload
  <2> DEFINE ladder == IF g.out = "failed" THEN UploadFailedLadder ELSE UploadedLadder(g.out)
             rung == ladder[g.i]
  <2>1. /\ g.e \in Entries /\ g.i \in 1..3 /\ (g.out = "failed" => g.i \in 1..2)
        /\ g.out \in {"failed", "oldTime", "fresh"}
    BY <1>0, <1>7 DEF IInv, GpuOK, GpuType, SettleUpload
  <2>2. rung[2] \in OldStates => rung[1] \in OldStates
    BY <2>1 DEF UploadFailedLadder, UploadedLadder, OldStates
  <2>3. (Hit(rung, g.e) /\ Swap(rung, g.e)) \/ UNCHANGED state
    BY <1>7 DEF SettleUpload
  <2>4. FreshStates
    BY <1>0, <2>1, <2>2, <2>3, SwapFresh DEF FreshStates
  <2>5. g'.out # "old"
    BY <1>0, <1>7 DEF SettleUpload, NextUpload, GpuType
  <2>6. QED
    BY <2>4, <2>5
<1>8. QED
  BY <1>1, <1>2, <1>3, <1>4, <1>5, <1>6, <1>7 DEF Gpu

LEMMA GpuFresh == ASSUME NeverUpdated, IInv, NotUpdated, Gpu PROVE NotUpdated'
<1>1. GpuStep /\ FreshStates /\ g'.out # "old"
  BY GpuEffect, GpuFreshStates
<1>2. \A e \in Alive' : state'[e] \notin OldStates /\ ~res'[e].old
  BY <1>1, EntriesFresh DEF GpuStep, FieldsKept, Alive
<1>3. QED
  BY <1>1, <1>2 DEF GpuStep, NotUpdated, Renews

LEMMA RenderFreshStates ==
    ASSUME NeverUpdated, IInv, NotUpdated, Render
    PROVE  FreshStates /\ Renews'
<1>0. /\ RenderStep /\ EntriesOK /\ state \in [Entries -> ResourceState] /\ r \in RenderType
      /\ RenderEvents \subseteq {"validate", "renew"} /\ r.pc # "junk"
      /\ r.pc \in {"set", "scan"} => r.ev \in {"validate", "renew"}
      /\ r.pc \in {"uploaded", "prepared"} => r.ev = "renew" /\ r.e \in Entries
  BY RenderEffect, KindFacts DEF IInv, EntriesOK, RenderOK, NotUpdated, Renews
<1>1. CASE \E ev \in RenderEvents : RenderEvent(ev)
  BY <1>0, <1>1 DEF RenderEvent, RenderType, FreshStates, Renews
<1>2. CASE RenderScan \/ RenderDone
  BY <1>0, <1>2 DEF RenderScan, RenderDone, RenderType, FreshStates, Renews
<1>3. CASE \E e \in Entries : RenderRead(e)
  BY <1>0, <1>3 DEF RenderRead, RenderType, FreshStates, Renews
<1>4. CASE RenderUploaded
  <2>1. Shown = "PreparingRenew" /\ r.ev = "renew" /\ r.e \in Entries
    BY <1>0, <1>4 DEF RenderUploaded, Shown
  <2>2. FreshStates
    BY <1>0, <1>4, <2>1, SwapFresh DEF RenderUploaded, FreshStates, OldStates
  <2>3. Renews'
    BY <1>0, <1>4, <2>1 DEF RenderUploaded, RenderType, Renews
  <2>4. QED
    BY <2>2, <2>3
<1>5. CASE RenderPrepared
  <2>1. r.ev = "renew" /\ r.e \in Entries
    BY <1>0, <1>5 DEF RenderPrepared
  <2>2. FreshStates
    BY <1>0, <1>5, <2>1, SwapFresh DEF RenderPrepared, FreshStates, OldStates
  <2>3. Renews'
    BY <1>0, <1>5, <2>1 DEF RenderPrepared, RenderType, Renews
  <2>4. QED
    BY <2>2, <2>3
<1>6. CASE RenderJunk
  BY <1>0, <1>6 DEF RenderJunk
<1>7. CASE ReleaseSymbol \/ \E e \in Entries : HoldSymbol(e)
  <2>1. Renews'
    BY <1>0, <1>7 DEF ReleaseSymbol, HoldSymbol, RenderType, Renews
  <2>2. FreshStates
    BY <1>0, <1>7 DEF ReleaseSymbol, HoldSymbol, Hit, Swap, FreshStates, OldStates, Alive
  <2>3. QED
    BY <2>1, <2>2
<1>8. QED
  BY <1>1, <1>2, <1>3, <1>4, <1>5, <1>6, <1>7 DEF Render

LEMMA RenderFresh == ASSUME NeverUpdated, IInv, NotUpdated, Render PROVE NotUpdated'
<1>1. RenderStep /\ FreshStates /\ Renews'
  BY RenderEffect, RenderFreshStates
<1>2. \A e \in Alive' : state'[e] \notin OldStates /\ ~res'[e].old
  BY <1>1, EntriesFresh DEF RenderStep, Plain, FieldsKept, Alive
<1>3. QED
  BY <1>1, <1>2 DEF RenderStep, NotUpdated

-----------------------------------------------------------------------------
(* The request tasks: they make nothing old.                                 *)

\* A step that moves no entry and makes none old.
LEMMA NoneOld ==
    ASSUME NotUpdated, UNCHANGED <<state, at, g, r>>,
           \A e \in Entries : res'[e].tile = res[e].tile /\ (res'[e].old => res[e].old),
           \A k \in Tasks : ~task'[k].local /\ task'[k].pc \notin {"scaled", "erase"}
    PROVE  NotUpdated'
<1>1. \A e \in Alive' : state'[e] \notin OldStates /\ ~res'[e].old
  BY EntriesFresh DEF FreshStates, Alive
<1>2. QED
  BY <1>1, OthersFresh

\* A task goes on without having asked the cache.
Asks(work) == ~work.local /\ work.pc \notin {"scaled", "erase"}

LEMMA TaskFresh ==
    ASSUME IInv, NotUpdated, NEW k \in Tasks, OwnStep(k), UNCHANGED <<g, r>>, FreshStates,
           \A e \in Entries : res'[e].tile = res[e].tile /\ (res'[e].old => res[e].old),
           Asks(task'[k])
    PROVE  NotUpdated'
<1>1. \A e \in Alive' : state'[e] \notin OldStates /\ ~res'[e].old
  BY EntriesFresh DEF Alive
<1>2. \A j \in Tasks : ~task'[j].local /\ task'[j].pc \notin {"scaled", "erase"}
  BY DEF NotUpdated, OwnStep, Asks
<1>3. QED
  BY <1>1, <1>2, OthersFresh

-----------------------------------------------------------------------------
(* Every entry that waits is served, and by one request.                       *)

Early == {"pending", "queued", "taken", "begin"}
Waits == {"Requested", "ProcessingRequest", RCWBP}

\* What a task tells of the state s of its entry.
Tells(work, s) ==
    /\ work.pc \in Early => s \in {"Requested", JBD}
    /\ work.pc = "begin" /\ work.i = 2 => s = JBD
    /\ work.pc \in {"obtain", "end"} => s \in {"ProcessingRequest", RCWBP}
    /\ work.pc = "end" /\ work.ok /\ work.i > 1 => s = RCWBP
    /\ work.pc = "assert" => s = RCWBP
    /\ work.pc = "cancel" => s \in {RCWBP, JBD}
    /\ work.pc = "cancel" /\ work.i > 4 => s = JBD
    /\ work.pc = "remove" => s \in {"ProcessingRequest", RCWBP, JBD}
    /\ work.pc = "detach" => s # "Requested"
    /\ work.cancel => s = JBD

\* A task that will move its entry on from the state s.
Attends(work, s) ==
    \/ s = "Requested" /\ work.pc \in Early
    \/ s = "ProcessingRequest" /\ work.pc \in {"obtain", "end", "remove"}
    \/ s = RCWBP /\ work.pc \in {"obtain", "end", "remove", "assert", "cancel"}

\* An entry that the worker is about to cancel the request of.
Cancelled == /\ state[w.e] = JBD /\ res[w.e].cb # NoTask
             /\ \A k \in Tasks : task[k].e = w.e => task[k].pc # "detach"

Served ==
    /\ \A j, k \in Tasks : j # k /\ task[j].e \in Entries => task[j].e # task[k].e
    /\ \A k \in Tasks : task[k].e \in Entries => /\ state[task[k].e] # "Requesting"
                                                 /\ Tells(task[k], state[task[k].e])
    /\ \A e \in Linked : state[e] \in Waits
         => \E k \in Tasks : task[k].e = e /\ Attends(task[k], state[e])
    /\ \A e \in Alive : state[e] = "Requested" => res[e].cb # NoTask
    /\ w.pc = "cancel" => Cancelled

\* How the other threads may move the entry of a task.
Carried(s, s2) ==
    /\ s \in {RCWBP, JBD} => s2 = s
    /\ s = "Requested" => s2 \in {"Requested", JBD}
    /\ s = "ProcessingRequest" => s2 \in {"ProcessingRequest", RCWBP}
    /\ s2 \in {"Requesting", "Requested", "ProcessingRequest"} => s = s2
    /\ s2 = RCWBP => s \in {RCWBP, "ProcessingRequest"}

LEMMA ArrowsCarry ==
    ASSUME Follows(WorkerArrows) \/ Follows(GpuArrows) \/ Follows(RenderArrows)
    PROVE  \A e \in Alive : Carried(state[e], state'[e])
<1>1. \A arrow \in WorkerArrows : Carried(arrow[1], arrow[2])
  BY DEF WorkerArrows, Carried
<1>2. \A arrow \in GpuArrows : Carried(arrow[1], arrow[2])
  BY DEF GpuArrows, Carried
<1>3. \A arrow \in RenderArrows : Carried(arrow[1], arrow[2])
  BY DEF RenderArrows, Carried
<1>4. \A s : Carried(s, s)
  BY DEF Carried
<1>5. Follows(WorkerArrows \cup GpuArrows \cup RenderArrows)
  BY DEF Follows
<1>6. QED
  BY <1>1, <1>2, <1>3, <1>4, <1>5 DEF Follows

LEMMA CarriedTells ==
    ASSUME NEW work, NEW s, NEW s2, Carried(s, s2)
    PROVE  /\ Tells(work, s) => Tells(work, s2)
           /\ s2 \in Waits => s \in Waits /\ (Attends(work, s) => Attends(work, s2))
<1>1. Tells(work, s) => Tells(work, s2)
  BY DEF Carried, Tells, Early
<1>2. s2 \in Waits => s \in Waits /\ (Attends(work, s) => Attends(work, s2))
  BY DEF Carried, Attends, Waits
<1>3. QED
  BY <1>1, <1>2

LEMMA TaskEntries ==
    ASSUME IInv
    PROVE  \A k \in Tasks : task[k].e \in Entries => task[k].e \in Alive
BY DEF IInv, TasksOK, TaskOK

LEMMA ServedFrame ==
    ASSUME IInv, Served, task' = task, \A e \in Alive : Carried(state[e], state'[e]),
           FieldsKept, Linked' \subseteq Linked, w'.pc = "cancel" => Cancelled'
    PROVE  Served'
<1>0. Alive' = Alive /\ Linked \subseteq Alive /\ Alive \subseteq Entries
  BY AliveFixed DEF FieldsKept, IInv, EntriesOK, Alive
<1>1. \A k \in Tasks : task'[k].e \in Entries => /\ state'[task'[k].e] # "Requesting"
                                                 /\ Tells(task'[k], state'[task'[k].e])
  <2>1. ASSUME NEW k \in Tasks, task[k].e \in Entries
        PROVE  state'[task[k].e] # "Requesting" /\ Tells(task[k], state'[task[k].e])
    <3>1. Carried(state[task[k].e], state'[task[k].e])
      BY <2>1, TaskEntries
    <3>2. state[task[k].e] # "Requesting" /\ Tells(task[k], state[task[k].e])
      BY <2>1 DEF Served
    <3>3. QED
      BY <3>1, <3>2, CarriedTells DEF Carried
  <2>2. QED
    BY <2>1
<1>2. \A e \in Linked' : state'[e] \in Waits
         => \E k \in Tasks : task'[k].e = e /\ Attends(task'[k], state'[e])
  <2>1. ASSUME NEW e \in Linked', state'[e] \in Waits
        PROVE  \E k \in Tasks : task[k].e = e /\ Attends(task[k], state'[e])
    <3>1. e \in Linked /\ Carried(state[e], state'[e])
      BY <1>0
    <3>2. state[e] \in Waits
      BY <2>1, <3>1, CarriedTells
    <3>3. PICK k \in Tasks : task[k].e = e /\ Attends(task[k], state[e])
      BY <3>1, <3>2 DEF Served
    <3>4. Attends(task[k], state'[e])
      BY <2>1, <3>1, <3>3, CarriedTells
    <3>5. QED
      BY <3>3, <3>4
  <2>2. QED
    BY <2>1
<1>3. \A e \in Alive' : state'[e] = "Requested" => res'[e].cb # NoTask
  BY <1>0 DEF Served, FieldsKept, Carried
<1>4. \A j, k \in Tasks : j # k /\ task'[j].e \in Entries => task'[j].e # task'[k].e
  BY DEF Served
<1>5. QED
  BY <1>1, <1>2, <1>3, <1>4 DEF Served

LEMMA CancelledStands ==
    ASSUME IInv, Served, UNCHANGED <<task, w>>, FieldsKept, \A e \in Alive : Carried(state[e], state'[e])
    PROVE  w'.pc = "cancel" => Cancelled'
BY DEF IInv, WorkerOK, Served, Cancelled, FieldsKept, Carried

LEMMA GpuServed == ASSUME IInv, Served, Gpu PROVE Served'
<1>1. GpuStep
  BY GpuEffect
<1>2. Linked' = Linked
  BY <1>1 DEF GpuStep, Linked
<1>3. QED
  BY <1>1, <1>2, ArrowsCarry, CancelledStands, ServedFrame DEF GpuStep

LEMMA RenderServed == ASSUME IInv, Served, Render PROVE Served'
<1>1. RenderStep
  BY RenderEffect
<1>2. QED
  BY <1>1, ArrowsCarry, CancelledStands, ServedFrame DEF RenderStep, Plain

LEMMA WorkerStepServed ==
    ASSUME IInv, Served, Follows(WorkerArrows), Plain, task' = task, w'.pc = "cancel" => Cancelled'
    PROVE  Served'
BY ArrowsCarry, ServedFrame DEF Plain

LEMMA ClimbServed == ASSUME NeverUpdated, IInv, NotUpdated, Served, ClimbCleanup PROVE Served'
<1> DEFINE rung == CleanupLadder[w.i]
<1>1. /\ WorkerStep
      /\ w'.pc = "cancel" => /\ w'.e = w.e /\ state'[w.e] \in {JBD, "UnloadPending", RCWBP, UCWBP}
                             /\ w'.i = w.i /\ UNCHANGED <<res, at>>
                             /\ Hit(CleanupLadder[w.i], w.e) /\ Swap(CleanupLadder[w.i], w.e)
                             /\ Cancels(CleanupLadder[w.i])
  BY ClimbCleanupEffect
<1>2. ASSUME w'.pc = "cancel" PROVE Cancelled'
  <2>1. /\ w'.e = w.e /\ UNCHANGED <<res, task>> /\ Hit(rung, w.e) /\ Swap(rung, w.e)
        /\ Cancels(rung)
        /\ w.e \in Alive /\ w.e \in Entries /\ w.i \in 1..11
        /\ state \in [Entries -> ResourceState]
    BY <1>1, <1>2 DEF WorkerStep, IInv, EntriesOK, WorkerOK, ClimbCleanup
  <2>2. state[w.e] \in {"Requested", "RequestedUpdate"} /\ state[w.e] = rung[1]
    BY <2>1, KindFacts DEF Cancels, Hit
  <2>3. state[w.e] = "Requested"
    BY <2>1, <2>2 DEF NotUpdated, OldStates
  <2>4. state'[w.e] = JBD
    BY <2>1, <2>2, <2>3 DEF Swap, CleanupLadder
  <2>5. res[w.e].cb # NoTask
    BY <2>1, <2>3 DEF Served
  <2>6. \A k \in Tasks : task[k].e = w.e => task[k].pc # "detach"
    BY <2>1, <2>3 DEF Served, Tells
  <2>7. QED
    BY <2>1, <2>4, <2>5, <2>6 DEF Cancelled
<1>3. QED
  BY <1>1, <1>2, WorkerStepServed DEF WorkerStep

LEMMA AllocateServed ==
    ASSUME IInv, Served, NEW t \in Tiles, NEW e \in Entries, AllocateEntry(t, e)
    PROVE  Served'
<1>0. /\ task' = task /\ e \notin Alive /\ state \in [Entries -> ResourceState]
      /\ res \in [Entries -> Fields] /\ w \in WorkerType /\ Linked \subseteq Alive
      /\ at' = [at EXCEPT ![t] = e] /\ at \in [Tiles -> Entries \cup {NoEntry}]
      /\ res' = [res EXCEPT ![e] = Entry(t)] /\ state' = [state EXCEPT ![e] = "Requesting"]
      /\ Alive \subseteq Entries
  BY DEF IInv, EntriesOK, WorkerOK, AllocateEntry, Alive
<1>1. Linked' \subseteq Linked \cup {e}
  BY <1>0 DEF Linked
<1>2. \A x \in Entries : x # e => res'[x] = res[x] /\ state'[x] = state[x]
  BY <1>0
<1>3. state'[e] = "Requesting" /\ Alive' \subseteq Alive \cup {e}
  BY <1>0, <1>2 DEF Alive
<1>4. w'.pc = "submit"
  BY <1>0 DEF AllocateEntry, WorkerType
<1>5. \A k \in Tasks : task[k].e \in Entries => task[k].e # e
  BY <1>0, TaskEntries
<1>6. \A k \in Tasks : task'[k].e \in Entries => /\ state'[task'[k].e] # "Requesting"
                                                 /\ Tells(task'[k], state'[task'[k].e])
  BY <1>0, <1>2, <1>5 DEF Served
<1>7. \A x \in Linked' : state'[x] \in Waits
         => \E k \in Tasks : task'[k].e = x /\ Attends(task'[k], state'[x])
  <2>1. "Requesting" \notin Waits
    BY DEF Waits
  <2>2. QED
    BY <1>0, <1>1, <1>2, <1>3, <2>1 DEF Served
<1>8. \A x \in Alive' : state'[x] = "Requested" => res'[x].cb # NoTask
  BY <1>0, <1>2, <1>3 DEF Served
<1>9. \A j, k \in Tasks : j # k /\ task'[j].e \in Entries => task'[j].e # task'[k].e
  BY <1>0 DEF Served
<1>10. QED
  BY <1>4, <1>6, <1>7, <1>8, <1>9 DEF Served

LEMMA SubmitServed ==
    ASSUME NeverUpdated, IInv, NotUpdated, Served, NEW k \in Tasks, SubmitRequest(k)
    PROVE  Served'
<1> DEFINE e == w.e
           f == [NoWork EXCEPT !.pc = "pending", !.e = w.e, !.local = FALSE]
<1>0. /\ e \in Alive /\ e \in Entries /\ state[e] \in {"Requesting", "Updating"}
      /\ task[k].pc = "none"
      /\ state \in [Entries -> ResourceState] /\ res \in [Entries -> Fields] /\ at' = at
      /\ task \in [Tasks -> TaskType] /\ w \in WorkerType /\ ~Async /\ Linked \subseteq Entries
  BY KindFacts DEF IInv, EntriesOK, WorkerOK, TasksOK, SubmitRequest, FreeTasks, Linked
<1>1. state[e] = "Requesting"
  BY <1>0 DEF NotUpdated, OldStates
<1>2. state' = [state EXCEPT ![e] = "Requested"] /\ task' = [task EXCEPT ![k] = f]
  BY <1>0, <1>1 DEF SubmitRequest
<1>3. f.pc = "pending" /\ f.e = e /\ f.cancel = FALSE
  BY DEF NoWork
<1>4. /\ res'[e].cb = k /\ \A x \in Entries : x # e => res'[x] = res[x] /\ state'[x] = state[x]
      /\ \A x \in Entries : res'[x].tile = res[x].tile
  BY <1>0, <1>2 DEF SubmitRequest, Fields
<1>5. state'[e] = "Requested" /\ task'[k] = f /\ \A j \in Tasks : j # k => task'[j] = task[j]
  BY <1>0, <1>2
<1>6. w'.pc # "cancel"
  BY <1>0 DEF SubmitRequest, WorkerType
<1>7. \A j \in Tasks : task[j].e # e
  BY <1>0, <1>1 DEF Served
<1>8. Alive' = Alive /\ Linked' = Linked
  BY <1>0, <1>4 DEF Alive, Linked
<1>9. Tells(f, "Requested") /\ Attends(f, "Requested")
  BY <1>3 DEF Tells, Attends, Early
<1> HIDE DEF e, f
<1>10. \A j \in Tasks : task'[j].e \in Entries => /\ state'[task'[j].e] # "Requesting"
                                                 /\ Tells(task'[j], state'[task'[j].e])
  BY <1>3, <1>4, <1>5, <1>7, <1>9 DEF Served
<1>11. \A x \in Linked' : state'[x] \in Waits
         => \E j \in Tasks : task'[j].e = x /\ Attends(task'[j], state'[x])
  <2>1. ASSUME NEW x \in Linked, x # e, state[x] \in Waits
        PROVE  \E j \in Tasks : task'[j].e = x /\ Attends(task'[j], state[x])
    <3>1. PICK j \in Tasks : task[j].e = x /\ Attends(task[j], state[x])
      BY <2>1 DEF Served
    <3>2. j # k
      BY <1>0, <3>1 DEF Attends, Early
    <3>3. QED
      BY <1>5, <3>1, <3>2
  <2>2. QED
    BY <1>0, <1>3, <1>4, <1>5, <1>8, <1>9, <2>1
<1>12. \A x \in Alive' : state'[x] = "Requested" => res'[x].cb # NoTask
  <2>1. Alive \subseteq Entries /\ k # NoTask
    BY NamesAssumption DEF Alive
  <2>2. QED
    BY <1>4, <1>8, <2>1 DEF Served
<1>13. \A i, j \in Tasks : i # j /\ task'[i].e \in Entries => task'[i].e # task'[j].e
  BY <1>3, <1>5, <1>7 DEF Served
<1>14. QED
  BY <1>6, <1>10, <1>11, <1>12, <1>13 DEF Served

-----------------------------------------------------------------------------
(* The worker: cancellation, and the tasks it enqueues.                      *)

LEMMA CancelServed ==
    ASSUME IInv, RequestsApart, Served, CancelRequest
    PROVE  Served'
<1> DEFINE k == res[w.e].cb
           dequeued == k \in Tasks /\ task[k].pc = "queued"
           gone == CleanupLadder[w.i][2] = JBD
           e == w.e
<1>0. /\ e \in Entries /\ state[e] = JBD /\ state' = state /\ task \in [Tasks -> TaskType]
      /\ res \in [Entries -> Fields] /\ w'.pc = "visit" /\ Linked \subseteq Entries
      /\ at \in [Tiles -> Entries \cup {NoEntry}]
      /\ at' = [t \in Tiles |-> IF gone /\ at[t] = w.e THEN NoEntry ELSE at[t]]
      /\ task' = [j \in Tasks |-> IF j # k THEN task[j] ELSE IF dequeued THEN NoWork
                                 ELSE [task[j] EXCEPT !.cancel = TRUE]]
  BY DEF IInv, EntriesOK, WorkerOK, TasksOK, Served, Cancelled, CancelRequest, NextVisit,
     WorkerType, Linked
<1>1. k \in Tasks => task[k].e = e
  BY <1>0 DEF RequestsApart
<1>2. \A j \in Tasks : /\ j # k => task'[j] = task[j]
                       /\ j = k => \/ task'[j] = NoWork
                                  \/ task'[j] = [task[j] EXCEPT !.cancel = TRUE]
  BY <1>0
<1>3. NoWork.e = NoEntry
  BY DEF NoWork
<1>4. Linked' \subseteq Linked
  BY <1>0, NamesAssumption DEF Linked
<1>5. \A x \in Entries : /\ res'[x].tile = res[x].tile
                         /\ x # e => res'[x].cb = res[x].cb
  BY <1>0 DEF CancelRequest, Fields
<1>6. Alive' = Alive
  BY <1>5, AliveFixed
<1>7. \A j \in Tasks : task'[j].e \in Entries => task'[j].e = task[j].e
  BY <1>0, <1>2, <1>3, NamesAssumption DEF TaskType
<1>8. \A i, j \in Tasks : i # j /\ task'[i].e \in Entries => task'[i].e # task'[j].e
  BY <1>7 DEF Served
<1> HIDE DEF e
<1>9. ASSUME NEW j \in Tasks, task'[j].e \in Entries
      PROVE  state'[task'[j].e] # "Requesting" /\ Tells(task'[j], state'[task'[j].e])
  <2>1. task'[j].e = task[j].e /\ state[task[j].e] # "Requesting" /\ Tells(task[j], state[task[j].e])
    BY <1>7, <1>9 DEF Served
  <2>2. CASE j # k
    BY <1>0, <1>2, <2>1, <2>2
  <2>3. CASE j = k
    <3>1. task'[j] = [task[j] EXCEPT !.cancel = TRUE] /\ task[j] \in TaskType /\ state[task[j].e] = JBD
      BY <1>0, <1>1, <1>2, <1>3, <1>9, <2>3, NamesAssumption
    <3>2. /\ task'[j].pc = task[j].pc /\ task'[j].i = task[j].i /\ task'[j].ok = task[j].ok
          /\ task'[j].cancel
      BY <3>1 DEF TaskType
    <3>3. Tells(task'[j], JBD)
      BY <2>1, <3>1, <3>2 DEF Tells
    <3>4. QED
      BY <1>0, <2>1, <3>1, <3>3
  <2>4. QED
    BY <2>2, <2>3
<1>10. \A x \in Linked' : state'[x] \in Waits
         => \E j \in Tasks : task'[j].e = x /\ Attends(task'[j], state'[x])
  <2>1. ASSUME NEW x \in Linked, state[x] \in Waits
        PROVE  \E j \in Tasks : task'[j].e = x /\ Attends(task'[j], state[x])
    <3>1. PICK j \in Tasks : task[j].e = x /\ Attends(task[j], state[x])
      BY <2>1 DEF Served
    <3>2. x # e
      BY <1>0, <2>1 DEF Waits
    <3>3. j # k
      BY <1>1, <3>1, <3>2
    <3>4. QED
      BY <1>2, <3>1, <3>3
  <2>2. QED
    BY <1>0, <1>4, <2>1
<1>11. \A x \in Alive' : state'[x] = "Requested" => res'[x].cb # NoTask
  BY <1>0, <1>5, <1>6 DEF Served, Alive
<1>12. QED
  BY <1>0, <1>8, <1>9, <1>10, <1>11 DEF Served

LEMMA EnqueueServed == ASSUME IInv, Served, EnqueueTasks PROVE Served'
<1>0. /\ UNCHANGED <<state, res, at>> /\ task \in [Tasks -> TaskType] /\ w'.pc = "idle"
      /\ task' = [k \in Tasks |-> IF task[k].pc = "pending" THEN [task[k] EXCEPT !.pc = "queued"] ELSE task[k]]
  BY DEF IInv, TasksOK, EnqueueTasks, WorkerIdle
<1>1. \A k \in Tasks : \/ task'[k] = task[k]
                       \/ /\ task[k].pc = "pending" /\ task'[k].pc = "queued"
                          /\ task'[k].e = task[k].e /\ task'[k].cancel = task[k].cancel
  BY <1>0 DEF TaskType
<1>2. \A k \in Tasks : /\ task'[k].e = task[k].e
                       /\ \A s : /\ Tells(task[k], s) => Tells(task'[k], s)
                                 /\ Attends(task[k], s) => Attends(task'[k], s)
  BY <1>1 DEF Tells, Attends, Early
<1>3. Linked' = Linked /\ Alive' = Alive
  BY <1>0 DEF Linked, Alive
<1>4. \A x \in Linked' : state'[x] \in Waits
         => \E j \in Tasks : task'[j].e = x /\ Attends(task'[j], state'[x])
  BY <1>0, <1>2, <1>3 DEF Served
<1>5. \A k \in Tasks : task'[k].e \in Entries => /\ state'[task'[k].e] # "Requesting"
                                                 /\ Tells(task'[k], state'[task'[k].e])
  BY <1>0, <1>2 DEF Served
<1>6. QED
  BY <1>0, <1>2, <1>3, <1>4, <1>5 DEF Served

LEMMA WorkerServed ==
    ASSUME NeverUpdated, IInv, RequestsApart, NotUpdated, Served, Worker
    PROVE  Served'
<1>1. CASE \E e \in Entries : VisitEntry(e)
  BY <1>1, VisitEntryEffect, WorkerStepServed DEF WorkerStep
<1>2. CASE LastLook \/ WakeWorker \/ CleanupDone \/ CollectOutdated
  BY <1>2, LastLookEffect, WakeWorkerEffect, CleanupDoneEffect, CollectOutdatedEffect,
     WorkerStepServed
     DEF WorkerStep
<1>3. CASE \E t \in Tiles : KeepEntry(t)
  BY <1>3, KeepEntryEffect, WorkerStepServed
<1>4. CASE \E e \in Entries : RequestOutdated(e)
  BY <1>4, RequestOutdatedEffect, WorkerStepServed DEF WorkerStep
<1>5. QED
  BY <1>1, <1>2, <1>3, <1>4, ClimbServed, AllocateServed, SubmitServed, CancelServed,
     EnqueueServed DEF Worker

-----------------------------------------------------------------------------
(* What a task may make of its entry, and leaves of the others.              *)

\* What a task may make of its entry.
Turns(s, s2) ==
    \/ s2 = s
    \/ <<s, s2>> \in {<<"Requested", "ProcessingRequest">>, <<"ProcessingRequest", "Ready">>,
                      <<"ProcessingRequest", "Unavailable">>, <<RCWBP, JBD>>}

\* What a task leaves as it is of an entry, and of its own entry but the callback.
Leaves(k) ==
    \A x \in Entries : /\ res'[x].tile = res[x].tile /\ (res'[x].old => res[x].old)
                       /\ res'[x].cb = res[x].cb \/ (x = task[k].e /\ task[k].pc = "detach")

LEMMA FixedLeaves == ASSUME res' = res, NEW k \in Tasks PROVE Leaves(k)
BY DEF Leaves

\* A step of a task's request, but its last.
Answers(k) ==
    /\ OwnStep(k) /\ UNCHANGED <<w, g, r>> /\ Linked' \subseteq Linked
    /\ Leaves(k) /\ \A x \in Entries : x # task[k].e => state'[x] = state[x]
    /\ Asks(task'[k])
    /\ Turns(state[task[k].e], state'[task[k].e])
    /\ Tells(task'[k], state'[task[k].e])
    /\ task[k].e \in Linked' /\ state'[task[k].e] \in Waits => Attends(task'[k], state'[task[k].e])
    /\ task'[k].pc = "detach" => state[task[k].e] # JBD

LEMMA AnswersFresh == ASSUME IInv, NotUpdated, NEW k \in Tasks, Answers(k) PROVE NotUpdated'
<1>1. Turns(state[task[k].e], state'[task[k].e]) => (state'[task[k].e] \in OldStates => state[task[k].e] \in OldStates)
  BY DEF Turns, OldStates
<1>2. FreshStates
  BY <1>1 DEF Answers, FreshStates, Alive
<1>3. QED
  BY <1>2, TaskFresh DEF Answers, Leaves

LEMMA AnswersServed == ASSUME IInv, Served, NEW k \in Tasks, Answers(k) PROVE Served'
<1> DEFINE e == task[k].e
<1>0. /\ e \in Entries /\ e \in Alive /\ Linked \subseteq Entries /\ Alive' = Alive
      /\ Alive \subseteq Entries
      /\ \A j \in Tasks : task'[j].e = task[j].e
  BY AliveFixed DEF IInv, TasksOK, TaskOK, Answers, Leaves, OwnStep, Linked, Alive
<1>1. \A i, j \in Tasks : i # j /\ task'[i].e \in Entries => task'[i].e # task'[j].e
  BY <1>0 DEF Served
<1>2. state[e] # "Requesting" /\ Tells(task[k], state[e])
  BY <1>0 DEF Served
<1>3. state'[e] # "Requesting" /\ (state'[e] = "Requested" => state[e] = "Requested")
      /\ (state[e] = JBD => state'[e] = JBD)
  BY <1>2 DEF Answers, Turns
<1>4. ASSUME NEW j \in Tasks, task'[j].e \in Entries
      PROVE  state'[task'[j].e] # "Requesting" /\ Tells(task'[j], state'[task'[j].e])
  <2>1. CASE j = k
    BY <1>0, <1>3, <2>1 DEF Answers
  <2>2. CASE j # k
    <3>1. task[j].e # e /\ task'[j] = task[j]
      BY <1>0, <1>4, <2>2 DEF Served, Answers, OwnStep
    <3>2. QED
      BY <1>4, <3>1 DEF Served, Answers
  <2>3. QED
    BY <2>1, <2>2
<1>5. ASSUME NEW x \in Linked', state'[x] \in Waits
      PROVE  \E j \in Tasks : task'[j].e = x /\ Attends(task'[j], state'[x])
  <2>1. CASE x = e
    BY <1>0, <1>5, <2>1 DEF Answers
  <2>2. CASE x # e
    <3>1. x \in Linked /\ state'[x] = state[x]
      BY <1>0, <2>2 DEF Answers
    <3>2. PICK j \in Tasks : task[j].e = x /\ Attends(task[j], state[x])
      BY <1>5, <3>1 DEF Served
    <3>3. task'[j] = task[j]
      BY <2>2, <3>2 DEF Answers, OwnStep
    <3>4. QED
      BY <3>1, <3>2, <3>3
  <2>3. QED
    BY <2>1, <2>2
<1>6. ASSUME NEW x \in Alive', state'[x] = "Requested" PROVE res'[x].cb # NoTask
  <2>1. x \in Entries /\ x \in Alive /\ state[x] = "Requested"
    BY <1>0, <1>3, <1>6 DEF Answers
  <2>2. res[x].cb # NoTask
    BY <2>1 DEF Served
  <2>3. ~(x = e /\ task[k].pc = "detach")
    BY <1>2, <2>1 DEF Tells
  <2>4. QED
    BY <2>1, <2>2, <2>3 DEF Answers, Leaves
<1>7. ASSUME w'.pc = "cancel" PROVE Cancelled'
  <2>1. /\ w' = w /\ Cancelled /\ w.e \in Entries
    BY <1>7 DEF Answers, Served, IInv, WorkerOK
  <2>2. state'[w.e] = JBD
    BY <1>3, <2>1 DEF Answers, Cancelled
  <2>3. res'[w.e].cb # NoTask
    BY <2>1 DEF Answers, Leaves, Cancelled
  <2>4. \A j \in Tasks : task'[j].e = w.e => task'[j].pc # "detach"
    BY <1>0, <2>1 DEF Answers, Cancelled, OwnStep
  <2>5. QED
    BY <2>1, <2>2, <2>3, <2>4 DEF Cancelled
<1>8. QED
  BY <1>1, <1>4, <1>5, <1>6, <1>7 DEF Served

\* A step that only moves its task on.
LEMMA MovesOnAnswers ==
    ASSUME NEW k \in Tasks, OwnStep(k), UNCHANGED <<state, w, g, r>>, Linked' \subseteq Linked, Leaves(k),
           Asks(task'[k]), Tells(task'[k], state[task[k].e]), task'[k].pc # "detach",
           task[k].e \in Linked' /\ state[task[k].e] \in Waits => Attends(task'[k], state[task[k].e])
    PROVE  Answers(k)
BY DEF Answers, Turns

\* A step that turns the state of its entry, found as the rung of a ladder has it.
LEMMA SwapAnswers ==
    ASSUME IInv, NEW k \in Tasks, OwnStep(k), UNCHANGED <<res, at, w, g, r>>, NEW rung,
           Hit(rung, task[k].e), Swap(rung, task[k].e), Turns(rung[1], rung[2]),
           Asks(task'[k]), Tells(task'[k], rung[2]), task'[k].pc = "detach" => rung[1] # JBD,
           rung[2] \in Waits => Attends(task'[k], rung[2])
    PROVE  Answers(k)
<1>1. /\ task[k].e \in Entries /\ state \in [Entries -> ResourceState] /\ Linked' = Linked
  BY DEF IInv, EntriesOK, TasksOK, TaskOK, OwnStep, Linked
<1>2. state[task[k].e] = rung[1] /\ state'[task[k].e] = rung[2]
      /\ \A x \in Entries : x # task[k].e => state'[x] = state[x]
  BY <1>1 DEF Hit, Swap
<1>3. Turns(state[task[k].e], state'[task[k].e]) /\ Tells(task'[k], state'[task[k].e])
  BY <1>2, Zenon
<1>4. state'[task[k].e] \in Waits => Attends(task'[k], state'[task[k].e])
  BY <1>2, Zenon
<1>5. task'[k].pc = "detach" => state[task[k].e] # JBD
  BY <1>2
<1>6. Leaves(k)
  BY FixedLeaves
<1>7. QED
  BY <1>1, <1>2, <1>3, <1>4, <1>5, <1>6 DEF Answers

-----------------------------------------------------------------------------
(* The handlers of a task, one by one.                                       *)

\* What is known of a task that takes a step.
LEMMA TaskKnown ==
    ASSUME IInv, NotUpdated, Served, NEW k \in Tasks, task[k].pc # "none"
    PROVE  /\ task[k].e \in Entries /\ Tells(task[k], state[task[k].e])
           /\ state[task[k].e] \notin OldStates
           /\ task[k] \in TaskType /\ ~task[k].local /\ TasksOK
BY DEF IInv, TasksOK, TaskOK, Served, NotUpdated

LEMMA TakeAnswers ==
    ASSUME IInv, NotUpdated, Served, NEW k \in Tasks, TakeTask(k) \/ RunTask(k) \/ AssertCancelled(k)
    PROVE  Answers(k)
<1>0. /\ UNCHANGED <<state, res, at, w, g, r>> /\ task[k].pc \in {"queued", "taken", "assert"}
      /\ Tells(task[k], state[task[k].e]) /\ ~task[k].local /\ TasksOK
  BY TaskKnown DEF TakeTask, RunTask, AssertCancelled
<1>1. /\ OwnStep(k) /\ task'[k].i = 1 /\ ~task'[k].local
      /\ \/ task[k].pc = "queued" /\ task'[k].pc = "taken"
         \/ task[k].pc = "taken" /\ task[k].cancel /\ task'[k].pc = "post"
         \/ task[k].pc = "taken" /\ ~task[k].cancel /\ task'[k].pc = "begin"
         \/ task[k].pc = "assert" /\ task'[k].pc = "cancel"
  BY <1>0, GotoOwn DEF TakeTask, RunTask, AssertCancelled
<1>2. Tells(task'[k], state[task[k].e])
  BY <1>0, <1>1 DEF Tells, Early, OwnStep
<1>3. state[task[k].e] \in Waits => Attends(task'[k], state[task[k].e])
  BY <1>0, <1>1 DEF Tells, Attends, Early, Waits
<1>4. Linked' = Linked /\ Asks(task'[k]) /\ task'[k].pc # "detach" /\ Leaves(k)
  BY <1>0, <1>1, FixedLeaves DEF Linked, Asks
<1>5. QED
  BY <1>0, <1>1, <1>2, <1>3, <1>4, MovesOnAnswers

LEMMA PostAnswers ==
    ASSUME IInv, NotUpdated, Served, NEW k \in Tasks, PostExecute(k)
    PROVE  Answers(k)
<1>0. /\ UNCHANGED <<state, res, at, w, g, r>> /\ task[k].pc = "post"
      /\ Tells(task[k], state[task[k].e]) /\ ~task[k].local /\ task \in [Tasks -> TaskType]
      /\ task[k].e \in Entries
  BY TaskKnown DEF PostExecute, TasksOK
<1>1. /\ OwnStep(k) /\ task'[k].i = 1 /\ ~task'[k].local
      /\ \/ task[k].cancel /\ task'[k].pc = "cancel"
         \/ ~task[k].cancel /\ task'[k].pc = "fin"
  BY <1>0 DEF PostExecute, OwnStep, TaskType
<1>2. Tells(task'[k], state[task[k].e])
  BY <1>0, <1>1 DEF Tells, Early, OwnStep
<1>3. task[k].e \in Linked /\ state[task[k].e] \in Waits => FALSE
  <2>1. ASSUME task[k].e \in Linked, state[task[k].e] \in Waits PROVE FALSE
    <3>1. PICK j \in Tasks : task[j].e = task[k].e /\ Attends(task[j], state[task[k].e])
      BY <2>1 DEF Served
    <3>2. j = k
      BY <1>0, <3>1 DEF Served
    <3>3. QED
      BY <1>0, <3>1, <3>2 DEF Attends, Early
  <2>2. QED
    BY <2>1
<1>4. Linked' = Linked /\ Asks(task'[k]) /\ task'[k].pc # "detach" /\ Leaves(k)
  BY <1>0, <1>1, FixedLeaves DEF Linked, Asks
<1>5. QED
  BY <1>0, <1>1, <1>2, <1>3, <1>4, MovesOnAnswers

LEMMA BeginAnswers ==
    ASSUME IInv, NotUpdated, Served, NEW k \in Tasks, BeginRequest(k)
    PROVE  Answers(k)
<1> DEFINE rung == BeginLadder[task[k].i]
           e == task[k].e
<1>0. /\ UNCHANGED <<res, at, w, g, r>> /\ task[k].pc = "begin" /\ task[k].i \in 1..2
      /\ Tells(task[k], state[e]) /\ ~task[k].local /\ TasksOK /\ state[e] \notin OldStates
  BY TaskKnown DEF BeginRequest, IInv, TasksOK, TaskOK
<1>1. state[e] \in {"Requested", JBD} /\ (task[k].i = 2 => state[e] = JBD) /\ (task[k].cancel => state[e] = JBD)
  BY <1>0 DEF Tells, Early
<1>2. CASE Hit(rung, e) /\ Swap(rung, e) /\ Goto(k, "obtain")
  <2>1. OwnStep(k) /\ task'[k].pc = "obtain" /\ ~task'[k].local
    BY <1>0, <1>2, GotoOwn
  <2>2. task[k].i = 1 /\ rung[1] = "Requested" /\ rung[2] = "ProcessingRequest" /\ ~task[k].cancel
    BY <1>0, <1>1, <1>2 DEF Hit, BeginLadder
  <2>3. Turns(rung[1], rung[2]) /\ Asks(task'[k]) /\ Tells(task'[k], rung[2]) /\ Attends(task'[k], rung[2])
    BY <2>1, <2>2 DEF Turns, Asks, Tells, Early, Attends, OwnStep
  <2>4. QED
    BY <1>0, <1>2, <2>1, <2>3, SwapAnswers
<1>3. CASE /\ ~Hit(rung, e) /\ UNCHANGED state
           /\ IF task[k].i < Len(BeginLadder) THEN Climb(k) ELSE Goto(k, "post")
  <2>1. state[e] = JBD
    BY <1>0, <1>1, <1>3 DEF Hit, BeginLadder
  <2>2. OwnStep(k) /\ task'[k].pc \in {"begin", "post"} /\ ~task'[k].local
    BY <1>0, <1>3, GotoOwn, ClimbOwn
  <2>3. Linked' = Linked /\ Leaves(k) /\ Asks(task'[k])
    BY <1>0, <2>2, FixedLeaves DEF Linked, Asks
  <2>4. Tells(task'[k], state[e]) /\ state[e] \notin Waits
    BY <2>1, <2>2 DEF Tells, Early, Waits
  <2>5. QED
    BY <1>0, <1>3, <2>2, <2>3, <2>4, MovesOnAnswers
<1>4. QED
  BY <1>2, <1>3 DEF BeginRequest

LEMMA ObtainAnswers ==
    ASSUME NeverUpdated, IInv, NotUpdated, Served, NEW k \in Tasks, ObtainData(k)
    PROVE  Answers(k)
<1> DEFINE e == task[k].e
<1>0. /\ UNCHANGED <<state, at, w, g, r>> /\ task[k].pc = "obtain"
      /\ task \in [Tasks -> TaskType]
      /\ Tells(task[k], state[e]) /\ ~task[k].local /\ res \in [Entries -> Fields]
  BY TaskKnown DEF ObtainData, IInv, EntriesOK, TasksOK
<1>1. PICK succeeded \in BOOLEAN, available \in BOOLEAN :
         /\ task' = [task EXCEPT ![k].pc = "end", ![k].i = 1, ![k].got = available,
                                 ![k].ok = succeeded /\ (Async \/ ~task[k].cancel),
                                 ![k].ret = "post"]
         /\ res' = [res EXCEPT ![task[k].e].data = @ \/ available]
  BY <1>0 DEF ObtainData
<1>2. OwnStep(k) /\ task'[k].pc = "end" /\ task'[k].i = 1 /\ ~task'[k].local
  BY <1>0, <1>1 DEF OwnStep, TaskType
<1>3. Leaves(k) /\ Linked' = Linked /\ Asks(task'[k])
  BY <1>0, <1>1, <1>2 DEF Leaves, Linked, Asks, Fields
<1>4. Tells(task'[k], state[e]) /\ (state[e] \in Waits => Attends(task'[k], state[e]))
  BY <1>0, <1>2 DEF Tells, Early, Waits, Attends, OwnStep
<1>5. QED
  BY <1>0, <1>2, <1>3, <1>4, MovesOnAnswers

LEMMA EndAnswers ==
    ASSUME IInv, NotUpdated, Served, NEW k \in Tasks, EndRequest(k)
    PROVE  Answers(k)
<1> DEFINE ladder == IF task[k].ok THEN EndLadder(task[k].got) ELSE EndFailedLadder
           rung == ladder[task[k].i]
           e == task[k].e
<1>0. /\ UNCHANGED <<res, at, w, g, r>> /\ task[k].pc = "end" /\ task[k].i \in 1..3
      /\ Tells(task[k], state[e]) /\ ~task[k].local /\ TasksOK /\ state[e] \notin OldStates
      /\ task[k].got \in BOOLEAN /\ task[k].ok \in BOOLEAN
  BY TaskKnown DEF EndRequest, IInv, TasksOK, TaskOK, TaskType
<1>1. /\ state[e] \in {"ProcessingRequest", RCWBP} /\ ~task[k].cancel
      /\ task[k].ok /\ task[k].i > 1 => state[e] = RCWBP
  BY <1>0 DEF Tells, Early
<1>2. CASE Hit(rung, e) /\ Swap(rung, e) /\ Goto(k, IF task[k].ok THEN "detach" ELSE "post")
  <2>1. /\ task[k].ok /\ rung[1] = "ProcessingRequest" /\ rung[2] \in {"Ready", "Unavailable"}
    BY <1>0, <1>1, <1>2 DEF Hit, EndLadder, EndFailedLadder
  <2>2. OwnStep(k) /\ task'[k].pc = "detach" /\ ~task'[k].local
    BY <1>0, <1>2, <2>1, GotoOwn
  <2>3. Turns(rung[1], rung[2]) /\ Asks(task'[k]) /\ Tells(task'[k], rung[2]) /\ rung[2] \notin Waits
    BY <1>1, <2>1, <2>2 DEF Turns, Asks, Tells, Early, Waits, OwnStep
  <2>4. QED
    BY <1>0, <1>2, <2>1, <2>2, <2>3, SwapAnswers
<1>3. CASE /\ ~Hit(rung, e) /\ UNCHANGED state
           /\ \/ task[k].i < Len(ladder) /\ Climb(k)
              \/ /\ task[k].i = Len(ladder)
                 /\ Goto(k, IF task[k].ok THEN "assert" ELSE "remove")
  <2>1. task[k].ok => state[e] = RCWBP
    BY <1>0, <1>1, <1>3 DEF Hit, EndLadder
  <2>2. /\ OwnStep(k) /\ ~task'[k].local
        /\ \/ task'[k].pc = "end" /\ task'[k].ok = task[k].ok
           \/ task[k].ok /\ task'[k].pc = "assert"
           \/ ~task[k].ok /\ task'[k].pc = "remove"
    BY <1>0, <1>3, GotoOwn, ClimbOwn
  <2>3. Linked' = Linked /\ Leaves(k) /\ Asks(task'[k]) /\ task'[k].pc # "detach"
    BY <1>0, <2>2, FixedLeaves DEF Linked, Asks
  <2>4. Tells(task'[k], state[e]) /\ (state[e] \in Waits => Attends(task'[k], state[e]))
    BY <1>1, <2>1, <2>2 DEF Tells, Early, Waits, Attends, OwnStep
  <2>5. QED
    BY <1>0, <1>3, <2>2, <2>3, <2>4, MovesOnAnswers
<1>4. QED
  BY <1>2, <1>3 DEF EndRequest

\* A task that attends to no waiting entry has none that waits: nobody else would.
LEMMA NobodyElse ==
    ASSUME IInv, Served, NEW k \in Tasks, task[k].e \in Linked, state[task[k].e] \in Waits
    PROVE  Attends(task[k], state[task[k].e])
<1>1. PICK j \in Tasks : task[j].e = task[k].e /\ Attends(task[j], state[task[k].e])
  BY DEF Served
<1>2. j = k
  BY <1>1 DEF Served, Linked
<1>3. QED
  BY <1>1, <1>2

LEMMA DetachAnswers ==
    ASSUME IInv, NotUpdated, Served, NEW k \in Tasks, DetachCallback(k)
    PROVE  Answers(k)
<1> DEFINE e == task[k].e
<1>0. /\ UNCHANGED <<state, at, w, g, r>> /\ task[k].pc = "detach" /\ TasksOK
      /\ Tells(task[k], state[e]) /\ ~task[k].local /\ res \in [Entries -> Fields]
      /\ res' = [res EXCEPT ![e].cb = NoTask]
  BY TaskKnown DEF DetachCallback, IInv, EntriesOK, TasksOK
<1>1. OwnStep(k) /\ task'[k].pc = "post" /\ ~task'[k].local
  BY <1>0, GotoOwn DEF DetachCallback
<1>2. Leaves(k) /\ Linked' = Linked /\ Asks(task'[k])
  BY <1>0, <1>1 DEF Leaves, Linked, Asks, Fields
<1>3. Tells(task'[k], state[e])
  BY <1>0, <1>1 DEF Tells, Early, OwnStep
<1>4. ~Attends(task[k], state[e])
  BY <1>0 DEF Attends, Early
<1>5. ~(e \in Linked /\ state[e] \in Waits)
  BY <1>4, NobodyElse
<1>6. QED
  BY <1>0, <1>1, <1>2, <1>3, <1>5, MovesOnAnswers

LEMMA CancellationAnswers ==
    ASSUME IInv, NotUpdated, Served, NEW k \in Tasks, ProcessCancellation(k)
    PROVE  Answers(k)
<1> DEFINE rung == CancelLadder[task[k].i]
           e == task[k].e
<1>0. /\ UNCHANGED <<res, at, w, g, r>> /\ task[k].pc = "cancel" /\ task[k].i \in 1..6
      /\ Tells(task[k], state[e]) /\ ~task[k].local /\ TasksOK
      /\ task[k].ret \in {"post", "fin"}
  BY TaskKnown DEF ProcessCancellation, IInv, TasksOK, TaskOK, TaskType
<1>1. /\ state[e] \in {RCWBP, JBD} /\ (task[k].i > 4 => state[e] = JBD)
      /\ task[k].cancel => state[e] = JBD
  BY <1>0 DEF Tells, Early
<1>2. CASE Hit(rung, e) /\ Swap(rung, e) /\ Goto(k, IF rung[2] = JBD THEN "remove" ELSE task[k].ret)
  <2>1. rung[1] = RCWBP /\ rung[2] = JBD
    BY <1>0, <1>1, <1>2 DEF Hit, CancelLadder
  <2>2. OwnStep(k) /\ task'[k].pc = "remove" /\ ~task'[k].local
    BY <1>0, <1>2, <2>1, GotoOwn
  <2>3. Turns(rung[1], rung[2]) /\ Asks(task'[k]) /\ Tells(task'[k], rung[2]) /\ rung[2] \notin Waits
    BY <2>1, <2>2 DEF Turns, Asks, Tells, Early, Waits
  <2>4. QED
    BY <1>0, <1>2, <2>2, <2>3, SwapAnswers
<1>3. CASE /\ ~Hit(rung, e) /\ UNCHANGED state
           /\ IF task[k].i < Len(CancelLadder) THEN Climb(k) ELSE Goto(k, task[k].ret)
  <2>1. task[k].i > 3 => state[e] = JBD
    BY <1>0, <1>1, <1>3 DEF Hit, CancelLadder
  <2>2. /\ OwnStep(k) /\ ~task'[k].local
        /\ \/ task'[k].pc = "cancel" /\ task'[k].i = task[k].i + 1
           \/ task[k].i = 6 /\ task'[k].pc \in {"post", "fin"}
    BY <1>0, <1>3, GotoOwn, ClimbOwn DEF CancelLadder
  <2>3. Linked' = Linked /\ Leaves(k) /\ Asks(task'[k]) /\ task'[k].pc # "detach"
    BY <1>0, <2>2, FixedLeaves DEF Linked, Asks
  <2>4. Tells(task'[k], state[e]) /\ (state[e] \in Waits => Attends(task'[k], state[e]))
    BY <1>0, <1>1, <2>1, <2>2 DEF Tells, Early, Waits, Attends, OwnStep
  <2>5. QED
    BY <1>0, <1>3, <2>2, <2>3, <2>4, MovesOnAnswers
<1>4. QED
  BY <1>2, <1>3 DEF ProcessCancellation

LEMMA RemovalAnswers ==
    ASSUME NeverUpdated, IInv, NotUpdated, Served, NEW k \in Tasks, LockLink(k)
    PROVE  Answers(k)
<1> DEFINE e == task[k].e
<1>0. /\ UNCHANGED <<state, w, g, r>> /\ task[k].pc = "remove" /\ TasksOK /\ EntriesOK
      /\ Tells(task[k], state[e]) /\ ~task[k].local /\ task[k].ret \in {"post", "fin"}
      /\ e \in Entries
  BY TaskKnown DEF LockLink, IInv, TasksOK, TaskType
<1>1. Goto(k, task[k].ret) /\ (Unlink(e) \/ (e \notin Linked /\ UNCHANGED <<res, at>>))
  BY DEF LockLink, NeverUpdated
<1>2. OwnStep(k) /\ task'[k].pc \in {"post", "fin"} /\ ~task'[k].local
  BY <1>0, <1>1, GotoOwn
<1>3. Plain /\ e \notin Linked'
  BY <1>0, <1>1, UnlinkPlain, FixedPlain DEF Linked
<1>4. Leaves(k) /\ Linked' \subseteq Linked /\ Asks(task'[k])
  BY <1>2, <1>3 DEF Leaves, Plain, FieldsKept, Asks
<1>5. Tells(task'[k], state[e])
  BY <1>0, <1>2 DEF Tells, Early, OwnStep
<1>6. QED
  BY <1>0, <1>2, <1>3, <1>4, <1>5, MovesOnAnswers

LEMMA FinishServed ==
    ASSUME IInv, NotUpdated, Served, NEW k \in Tasks, FinishTask(k)
    PROVE  NotUpdated' /\ Served'
<1>0. /\ UNCHANGED <<state, at, w, g, r>> /\ task \in [Tasks -> TaskType]
      /\ res \in [Entries -> Fields]
      /\ task' = [task EXCEPT ![k] = NoWork] /\ task[k].pc = "fin"
      /\ res' = [e \in Entries |-> IF res[e].cb = k THEN [res[e] EXCEPT !.cb = Expired] ELSE res[e]]
  BY DEF IInv, EntriesOK, TasksOK, FinishTask
<1>1. NoWork.pc = "none" /\ NoWork.e = NoEntry /\ NoWork.local = FALSE /\ NoEntry \notin Entries
  BY NamesAssumption DEF NoWork
<1>2. task'[k] = NoWork /\ \A j \in Tasks : j # k => task'[j] = task[j]
  BY <1>0
<1>3. \A x \in Entries : /\ res'[x].tile = res[x].tile /\ res'[x].old = res[x].old
                         /\ res'[x].cb = res[x].cb \/ res'[x].cb = Expired
  BY <1>0 DEF Fields
<1>4. NotUpdated'
  <2>1. \A j \in Tasks : ~task'[j].local /\ task'[j].pc \notin {"scaled", "erase"}
    BY <1>1, <1>2 DEF NotUpdated
  <2>2. QED
    BY <1>0, <1>3, <2>1, NoneOld
<1>5. Linked' = Linked /\ Alive' = Alive
  BY <1>0, <1>3 DEF Linked, Alive
<1>6. \A i, j \in Tasks : i # j /\ task'[i].e \in Entries => task'[i].e # task'[j].e
  BY <1>1, <1>2 DEF Served
<1>7. \A j \in Tasks : task'[j].e \in Entries => /\ state'[task'[j].e] # "Requesting"
                                                 /\ Tells(task'[j], state'[task'[j].e])
  BY <1>0, <1>1, <1>2 DEF Served
<1>8. ASSUME NEW x \in Linked', state'[x] \in Waits
      PROVE  \E j \in Tasks : task'[j].e = x /\ Attends(task'[j], state'[x])
  <2>1. PICK j \in Tasks : task[j].e = x /\ Attends(task[j], state[x])
    BY <1>0, <1>5, <1>8 DEF Served
  <2>2. j # k
    BY <1>0, <2>1 DEF Attends, Early
  <2>3. QED
    BY <1>0, <1>2, <2>1, <2>2
<1>9. \A x \in Alive' : state'[x] = "Requested" => res'[x].cb # NoTask
  BY <1>0, <1>3, <1>5, NamesAssumption DEF Served, Alive
<1>10. w'.pc = "cancel" => Cancelled'
  <2>1. w.pc = "cancel" => w.e \in Entries
    BY DEF IInv, WorkerOK
  <2>2. \A j \in Tasks : task'[j].pc = "detach" => j # k /\ task'[j] = task[j]
    BY <1>1, <1>2
  <2>3. QED
    BY <1>0, <1>3, <2>1, <2>2, NamesAssumption DEF Served, Cancelled
<1>11. QED
  BY <1>4, <1>6, <1>7, <1>8, <1>9, <1>10 DEF Served

LEMMA TaskServed ==
    ASSUME NeverUpdated, IInv, NotUpdated, Served, NEW k \in Tasks, TaskStep(k)
    PROVE  FinishTask(k) \/ Answers(k)
<1>1. ~ObtainCached(k) /\ ~EraseEntry(k) /\ \A t \in Tiles, e \in Entries : ~AllocateScaled(k, t, e)
  BY DEF NotUpdated, ObtainCached, EraseEntry, AllocateScaled
<1>2. QED
  BY <1>1, TakeAnswers, PostAnswers, BeginAnswers, ObtainAnswers, EndAnswers, DetachAnswers,
     CancellationAnswers, RemovalAnswers DEF TaskStep

-----------------------------------------------------------------------------
(* Destruction, the initial states, and every step.                          *)

LEMMA DestroyServed ==
    ASSUME IInv, NotUpdated, Served, NEW e \in Entries, Destroy(e)
    PROVE  NotUpdated' /\ Served'
<1>0. /\ UNCHANGED <<at, task, w, g, r>> /\ ~Referenced(e)
      /\ state \in [Entries -> ResourceState]
      /\ res \in [Entries -> Fields] /\ Alive \subseteq Entries /\ Linked \subseteq Entries
      /\ res' = [res EXCEPT ![e] = Blank] /\ state' = [state EXCEPT ![e] = "Unknown"]
  BY DEF IInv, EntriesOK, Destroy, Alive, Linked
<1>1. w.e # e /\ e \notin Linked /\ \A k \in Tasks : task[k].e # e
  BY <1>0 DEF Referenced
<1>2. /\ \A x \in Entries : x # e => state'[x] = state[x] /\ res'[x] = res[x]
      /\ res'[e].tile = NoTile
  BY <1>0 DEF Blank
<1>3. Alive' \subseteq Alive \ {e} /\ Linked' = Linked
  BY <1>0, <1>2 DEF Alive, Linked
<1>4. NotUpdated'
  <2>1. \A x \in Alive' : state'[x] \notin OldStates /\ ~res'[x].old
    BY <1>0, <1>2, <1>3 DEF NotUpdated
  <2>2. QED
    BY <1>0, <2>1, OthersFresh DEF NotUpdated
<1>5. \A x \in Linked' : state'[x] \in Waits
         => \E j \in Tasks : task'[j].e = x /\ Attends(task'[j], state'[x])
  BY <1>0, <1>1, <1>2, <1>3 DEF Served
<1>6. \A k \in Tasks : task'[k].e \in Entries => /\ state'[task'[k].e] # "Requesting"
                                                 /\ Tells(task'[k], state'[task'[k].e])
  BY <1>0, <1>1, <1>2 DEF Served
<1>7. \A x \in Alive' : state'[x] = "Requested" => res'[x].cb # NoTask
  BY <1>0, <1>2, <1>3 DEF Served
<1>8. w'.pc = "cancel" => Cancelled'
  BY <1>0, <1>1, <1>2 DEF Served, Cancelled, IInv, WorkerOK
<1>9. QED
  BY <1>0, <1>4, <1>5, <1>6, <1>7, <1>8 DEF Served

LEMMA InitServed == Init => NotUpdated /\ Served
<1> SUFFICES ASSUME Init PROVE NotUpdated /\ Served
  OBVIOUS
<1>1. Linked = {} /\ Alive = {}
  BY NamesAssumption DEF Init, Linked, Alive, Blank
<1>2. g.out = "fresh" /\ r.pc = "idle" /\ w.pc = "idle" /\ \A k \in Tasks : task[k] = NoWork
  BY DEF Init, GpuIdle, WorkerIdle
<1>3. NoWork.local = FALSE /\ NoWork.pc = "none" /\ NoWork.e = NoEntry /\ NoEntry \notin Entries
  BY NamesAssumption DEF NoWork
<1>4. NotUpdated
  BY <1>1, <1>2, <1>3 DEF NotUpdated, Renews
<1>5. Served
  BY <1>1, <1>2, <1>3 DEF Served
<1>6. QED
  BY <1>4, <1>5

LEMMA NextServed ==
    NeverUpdated /\ IInv /\ RequestsApart /\ NotUpdated /\ Served /\ [Next]_vars => NotUpdated' /\ Served'
<1> SUFFICES ASSUME NeverUpdated, IInv, RequestsApart, NotUpdated, Served, [Next]_vars PROVE NotUpdated' /\ Served'
  OBVIOUS
<1>1. CASE UNCHANGED vars
  <2>1. UNCHANGED <<state, res, at, task, w, g, r>>
    BY <1>1 DEF vars
  <2>2. \A e \in Alive : Carried(state[e], state'[e])
    BY <2>1, StayFollows, ArrowsCarry
  <2>3. FieldsKept /\ Linked' = Linked
    BY <2>1 DEF FieldsKept, Linked
  <2>4. FreshStates
    BY <2>1 DEF FreshStates
  <2>5. QED
    BY <2>1, <2>2, <2>3, <2>4, CancelledStands, ServedFrame, PlainFresh
<1>2. CASE \E k \in Tasks : TaskStep(k)
  BY <1>2, TaskServed, FinishServed, AnswersFresh, AnswersServed
<1>3. QED
  BY <1>1, <1>2, WorkerFresh, WorkerServed, GpuFresh, GpuServed, RenderFresh, RenderServed,
     DestroyServed
     DEF Next

-----------------------------------------------------------------------------
(* What has left the collection.                                               *)

\* A step of a thread that takes out only what the GPU has nothing of.
LEMMA CleanFrame ==
    ASSUME IInv, RemovedLeavesNothing, GpuTold', Plain, GoneClean
    PROVE  RemovedLeavesNothing'
<1>1. Alive' = Alive /\ Alive \subseteq Entries /\ Linked \subseteq Entries
  BY AliveFixed DEF Plain, FieldsKept, Alive, Linked
<1>2. ASSUME NEW e \in Alive' \ Linked' PROVE ~res'[e].gpu /\ ~res'[e].data
  <2>1. CASE e \in Linked
    BY <1>1, <1>2, <2>1 DEF Plain, GoneClean, GpuTold
  <2>2. CASE e \notin Linked
    BY <1>1, <1>2, <2>2 DEF Plain, FieldsKept, RemovedLeavesNothing
  <2>3. QED
    BY <2>1, <2>2
<1>3. QED
  BY <1>2 DEF RemovedLeavesNothing

\* A step that takes nothing out, and gives neither data nor GPU resources.
LEMMA QuietClean ==
    ASSUME RemovedLeavesNothing, at' = at,
           \A e \in Entries : /\ res'[e].tile = res[e].tile /\ (res'[e].gpu => res[e].gpu)
                              /\ (res'[e].data => res[e].data)
    PROVE  RemovedLeavesNothing'
<1>1. Alive' = Alive /\ Alive \subseteq Entries /\ Linked' = Linked
  BY AliveFixed DEF Alive, Linked
<1>2. QED
  BY <1>1 DEF RemovedLeavesNothing

LEMMA AllocateClean ==
    ASSUME IInv, RemovedLeavesNothing, NEW t \in Tiles, NEW e \in Entries, AllocateEntry(t, e)
    PROVE  RemovedLeavesNothing'
<1>0. /\ res \in [Entries -> Fields] /\ at \in [Tiles -> Entries \cup {NoEntry}]
      /\ at[t] = NoEntry
      /\ at' = [at EXCEPT ![t] = e] /\ res' = [res EXCEPT ![e] = Entry(t)]
  BY DEF IInv, EntriesOK, AllocateEntry
<1>1. Linked \subseteq Linked' /\ e \in Linked'
  BY <1>0, NamesAssumption DEF Linked
<1>2. \A x \in Entries : x # e => res'[x] = res[x]
  BY <1>0
<1>3. QED
  BY <1>1, <1>2 DEF RemovedLeavesNothing, Alive

LEMMA SubmitClean ==
    ASSUME IInv, RemovedLeavesNothing, NEW k \in Tasks, SubmitRequest(k)
    PROVE  RemovedLeavesNothing'
<1>0. /\ res \in [Entries -> Fields] /\ at' = at
      /\ res' = [res EXCEPT ![w.e].cb = k, ![w.e].old = @ /\ ~Async]
  BY DEF IInv, EntriesOK, SubmitRequest
<1>1. \A x \in Entries : /\ res'[x].tile = res[x].tile /\ res'[x].gpu = res[x].gpu
                         /\ res'[x].data = res[x].data
  BY <1>0 DEF Fields
<1>2. QED
  BY <1>0, <1>1, QuietClean

LEMMA CancelClean ==
    ASSUME IInv, Served, RemovedLeavesNothing, GpuTold', CancelRequest
    PROVE  RemovedLeavesNothing'
<1> DEFINE gone == CleanupLadder[w.i][2] = JBD
<1>0. /\ res \in [Entries -> Fields] /\ w.pc = "cancel" /\ w.e \in Alive
      /\ Alive \subseteq Entries
      /\ state' = state /\ state[w.e] = JBD /\ Linked \subseteq Entries
  BY DEF IInv, EntriesOK, WorkerOK, Served, Cancelled, CancelRequest, Alive, Linked
<1>1. at' = [t \in Tiles |-> IF gone /\ at[t] = w.e THEN NoEntry ELSE at[t]]
  BY DEF CancelRequest
<1>2. PICK c : res' = [res EXCEPT ![w.e].cb = c, ![w.e].data = @ /\ ~gone]
  BY DEF CancelRequest
<1>3. /\ \A x \in Entries : x # w.e => res'[x] = res[x]
      /\ res'[w.e].tile = res[w.e].tile /\ res'[w.e].gpu = res[w.e].gpu
      /\ res'[w.e].data = (res[w.e].data /\ ~gone)
  BY <1>0, <1>2 DEF Fields
<1>4. Linked' = IF gone THEN Linked \ {w.e} ELSE Linked
  BY <1>0, <1>1, NamesAssumption DEF Linked
<1>5. Alive' = Alive
  BY <1>3, AliveFixed
<1>6. ~res'[w.e].gpu
  BY <1>0, <1>5 DEF GpuTold, NotInGPU
<1>7. QED
  BY <1>0, <1>3, <1>4, <1>5, <1>6 DEF RemovedLeavesNothing

LEMMA WorkerClean ==
    ASSUME IInv, Served, RemovedLeavesNothing, GpuTold', Worker
    PROVE  RemovedLeavesNothing'
<1>1. CASE EnqueueTasks
  BY <1>1, QuietClean DEF EnqueueTasks
<1>2. CASE \/ WakeWorker \/ ClimbCleanup \/ LastLook \/ CleanupDone \/ CollectOutdated
           \/ \E e \in Entries : VisitEntry(e) \/ RequestOutdated(e)
  BY <1>2, WakeWorkerEffect, ClimbCleanupEffect, LastLookEffect, CleanupDoneEffect,
     CollectOutdatedEffect,
     VisitEntryEffect, RequestOutdatedEffect, CleanFrame DEF WorkerStep
<1>3. CASE \E t \in Tiles : KeepEntry(t)
  BY <1>3, QuietClean DEF KeepEntry
<1>4. QED
  BY <1>1, <1>2, <1>3, AllocateClean, SubmitClean, CancelClean DEF Worker

LEMMA UploadClean == ASSUME IInv, RemovedLeavesNothing, UploadToGPU PROVE RemovedLeavesNothing'
<1>0. /\ res \in [Entries -> Fields] /\ at' = at
      /\ res' = res \/ (res[g.e].data /\ res' = [res EXCEPT ![g.e].gpu = TRUE, ![g.e].stale = FALSE])
      /\ g.e \in Entries
  BY DEF IInv, EntriesOK, GpuOK, UploadToGPU
<1>1. /\ \A x \in Entries : res'[x].tile = res[x].tile /\ res'[x].data = res[x].data
      /\ \A x \in Entries : x # g.e => res'[x] = res[x]
      /\ res[g.e].data \/ res' = res
  BY <1>0 DEF Fields
<1>2. Alive' = Alive /\ Linked' = Linked /\ Alive \subseteq Entries
  BY <1>0, <1>1, AliveFixed DEF Linked, Alive
<1>3. QED
  BY <1>1, <1>2 DEF RemovedLeavesNothing

LEMMA GpuClean == ASSUME IInv, RemovedLeavesNothing, Gpu PROVE RemovedLeavesNothing'
<1>1. CASE UnloadFromGPU
  <2>1. /\ res \in [Entries -> Fields] /\ at' = at
        /\ res' = [res EXCEPT ![g.e].gpu = FALSE, ![g.e].stale = FALSE]
    BY <1>1 DEF IInv, EntriesOK, UnloadFromGPU
  <2>2. \A x \in Entries : /\ res'[x].tile = res[x].tile /\ (res'[x].gpu => res[x].gpu)
                           /\ res'[x].data = res[x].data
    BY <2>1 DEF Fields
  <2>3. QED
    BY <2>1, <2>2, QuietClean
<1>2. CASE SettleUpload
  <2>1. /\ res \in [Entries -> Fields] /\ at' = at
        /\ res' = res \/ res' = [res EXCEPT ![g.e].oldTime = @ /\ g.out # "oldTime"]
    BY <1>2 DEF IInv, EntriesOK, SettleUpload
  <2>2. \A x \in Entries : /\ res'[x].tile = res[x].tile /\ res'[x].gpu = res[x].gpu
                           /\ res'[x].data = res[x].data
    BY <2>1 DEF Fields
  <2>3. QED
    BY <2>1, <2>2, QuietClean
<1>3. CASE \/ CollectUnload \/ MarkUnloaded \/ CollectUpload \/ ClaimUpload \/ CheckOld \/ UploadAgain \/ SyncDone
           \/ \E e \in Entries : ClaimUnload(e) \/ PickUpload(e)
  <2>1. UNCHANGED <<res, at>>
    BY <1>3 DEF CollectUnload, MarkUnloaded, CollectUpload, ClaimUpload, CheckOld, UploadAgain,
       SyncDone,
       ClaimUnload, PickUpload
  <2>2. QED
    BY <2>1, QuietClean
<1>4. QED
  BY <1>1, <1>2, <1>3, UploadClean DEF Gpu

LEMMA ObtainClean ==
    ASSUME NeverUpdated, IInv, RemovedLeavesNothing, NEW k \in Tasks, ObtainData(k)
    PROVE  RemovedLeavesNothing'
<1> DEFINE e == task[k].e
<1>0. ~Async /\ res \in [Entries -> Fields] /\ at' = at
  BY KindFacts DEF IInv, EntriesOK, ObtainData
<1>1. PICK available \in BOOLEAN : /\ available => e \in Linked
                                   /\ res' = [res EXCEPT ![e].data = @ \/ available]
  BY <1>0 DEF ObtainData
<1>2. \A x \in Entries : res'[x].tile = res[x].tile /\ res'[x].gpu = res[x].gpu
  BY <1>0, <1>1 DEF Fields
<1>3. \A x \in Entries : x # e => res'[x].data = res[x].data
  BY <1>0, <1>1
<1>4. e \notin Linked => \A x \in Entries : res'[x].data => res[x].data
  BY <1>0, <1>1 DEF Fields
<1>5. Alive' = Alive /\ Linked' = Linked /\ Alive \subseteq Entries
  BY <1>0, <1>2, AliveFixed DEF Linked, Alive
<1>6. CASE e \in Linked
  BY <1>2, <1>3, <1>5, <1>6 DEF RemovedLeavesNothing
<1>7. CASE e \notin Linked
  BY <1>0, <1>2, <1>4, <1>7, QuietClean
<1>8. QED
  BY <1>6, <1>7

LEMMA LockLinkClean ==
    ASSUME NeverUpdated, IInv, Served, RemovedLeavesNothing, GpuTold', NEW k \in Tasks, LockLink(k)
    PROVE  RemovedLeavesNothing'
<1> DEFINE e == task[k].e
<1>1. CASE UNCHANGED <<res, at>>
  BY <1>1, QuietClean
<1>2. CASE e \in Linked /\ Unlink(e)
  <2>1. EntriesOK /\ e \in Entries
    BY <1>2 DEF IInv, Linked
  <2>2. state'[e] \in {"ProcessingRequest", RCWBP, JBD}
    BY <2>1 DEF Served, Tells, LockLink
  <2>3. Plain /\ GoneClean
    BY <1>2, <2>1, <2>2, UnlinkPlain DEF NotInGPU
  <2>4. QED
    BY <2>3, CleanFrame
<1>3. QED
  BY <1>1, <1>2 DEF LockLink

LEMMA TaskClean ==
    ASSUME NeverUpdated, IInv, NotUpdated, Served, RemovedLeavesNothing, GpuTold', NEW k \in Tasks, TaskStep(k)
    PROVE  RemovedLeavesNothing'
<1>0. res \in [Entries -> Fields] /\ ~task[k].local /\ task[k].pc \notin {"scaled", "erase"}
  BY DEF IInv, EntriesOK, NotUpdated
<1>1. CASE \/ TakeTask(k) \/ RunTask(k) \/ BeginRequest(k) \/ EndRequest(k) \/ AssertCancelled(k)
           \/ PostExecute(k) \/ ProcessCancellation(k)
  <2>1. UNCHANGED <<res, at>>
    BY <1>1 DEF TakeTask, RunTask, BeginRequest, EndRequest, AssertCancelled, PostExecute,
       ProcessCancellation
  <2>2. QED
    BY <2>1, QuietClean
<1>2. CASE DetachCallback(k)
  <2>1. at' = at /\ res' = [res EXCEPT ![task[k].e].cb = NoTask]
    BY <1>2 DEF DetachCallback
  <2>2. \A x \in Entries : /\ res'[x].tile = res[x].tile /\ res'[x].gpu = res[x].gpu
                           /\ res'[x].data = res[x].data
    BY <1>0, <2>1 DEF Fields
  <2>3. QED
    BY <2>1, <2>2, QuietClean
<1>3. CASE FinishTask(k)
  <2>1. /\ at' = at
        /\ res' = [e \in Entries |-> IF res[e].cb = k THEN [res[e] EXCEPT !.cb = Expired] ELSE res[e]]
    BY <1>3 DEF FinishTask
  <2>2. \A x \in Entries : /\ res'[x].tile = res[x].tile /\ res'[x].gpu = res[x].gpu
                           /\ res'[x].data = res[x].data
    BY <1>0, <2>1 DEF Fields
  <2>3. QED
    BY <2>1, <2>2, QuietClean
<1>4. ~ObtainCached(k) /\ ~EraseEntry(k) /\ ~\E t \in Tiles, e \in Entries : AllocateScaled(k, t, e)
  BY <1>0 DEF ObtainCached, EraseEntry, AllocateScaled
<1>5. QED
  BY <1>1, <1>2, <1>3, <1>4, ObtainClean, LockLinkClean DEF TaskStep

LEMMA DestroyClean ==
    ASSUME IInv, RemovedLeavesNothing, NEW e \in Entries, Destroy(e)
    PROVE  RemovedLeavesNothing'
<1>0. res \in [Entries -> Fields] /\ at' = at /\ res' = [res EXCEPT ![e] = Blank]
  BY DEF IInv, EntriesOK, Destroy
<1>1. (\A x \in Entries : x # e => res'[x] = res[x]) /\ res'[e].tile = NoTile
  BY <1>0 DEF Blank
<1>2. Alive' \subseteq Alive \ {e} /\ Linked' = Linked /\ Alive \subseteq Entries
  BY <1>0, <1>1 DEF Alive, Linked
<1>3. QED
  BY <1>1, <1>2 DEF RemovedLeavesNothing

LEMMA NextClean ==
    NeverUpdated /\ IInv /\ RequestsApart /\ GpuTold /\ DataStored /\ NotUpdated /\ Served
      /\ RemovedLeavesNothing /\ [Next]_vars => RemovedLeavesNothing'
<1> SUFFICES ASSUME NeverUpdated, IInv, RequestsApart, GpuTold, DataStored, NotUpdated, Served,
                    RemovedLeavesNothing, [Next]_vars
             PROVE  RemovedLeavesNothing'
  OBVIOUS
<1>1. GpuTold'
  BY NextTold
<1>2. CASE UNCHANGED vars
  BY <1>2, QuietClean DEF vars
<1>3. CASE Render
  BY <1>1, <1>3, RenderEffect, CleanFrame DEF RenderStep
<1>4. QED
  BY <1>1, <1>2, <1>3, WorkerClean, GpuClean, TaskClean, DestroyClean DEF Next

-----------------------------------------------------------------------------
(* The theorems on collections that are never updated.                       *)

\* In collections that are never updated nothing is ever old, and every entry that
\* waits is attended to by the one task that names it.
THEOREM ServedInvariance == NeverUpdated => (Spec => [](NotUpdated /\ Served))
<1> SUFFICES ASSUME NeverUpdated PROVE Spec => [](NotUpdated /\ Served)
  OBVIOUS
<1>1. Init => NotUpdated /\ Served
  BY InitServed
<1>2. IInv /\ RequestsApart /\ (NotUpdated /\ Served) /\ [Next]_vars => (NotUpdated /\ Served)'
  BY NextServed
<1>3. QED
  BY <1>1, <1>2, Invariance, RequestsInvariance, PTL DEF Spec

\* The assertion of endResourceRequestProcessing() holds where nothing is updated: a
\* request that finds its entry in no state it could end has been cancelled by the
\* worker, and its entry still says so.
THEOREM CancelledAtTheEnd == NeverUpdated => (Spec => []EndAssertion)
<1> SUFFICES ASSUME NeverUpdated PROVE Spec => []EndAssertion
  OBVIOUS
<1>1. IInv /\ Served => EndAssertion
  <2> SUFFICES ASSUME IInv, Served, NEW k \in Tasks, task[k].pc = "assert"
               PROVE  state[task[k].e] \in {RCWBP, UCWBP}
    BY DEF EndAssertion
  <2>1. task[k].e \in Entries
    BY DEF IInv, TasksOK, TaskOK, Alive
  <2>2. QED
    BY <2>1 DEF Served, Tells
<1>2. QED
  BY <1>1, Invariance, ServedInvariance, PTL

\* assert(_cancelRequestCallback != nullptr) in cleanupJunkResource() holds where
\* nothing is updated: the request that the worker cancels has not detached itself.
THEOREM CallbackThere == NeverUpdated => (Spec => []CallbackPresent)
<1> SUFFICES ASSUME NeverUpdated PROVE Spec => []CallbackPresent
  OBVIOUS
<1>1. Served => CallbackPresent
  BY DEF Served, Cancelled, CallbackPresent
<1>2. QED
  BY <1>1, ServedInvariance, PTL

\* Where nothing is updated no entry waits in vain: one that was asked for has a task
\* which has not yet come to the end of its handlers and will move the entry on.
THEOREM WaitingHasItsRequest == NeverUpdated => (Spec => []WaitingIsServed)
<1> SUFFICES ASSUME NeverUpdated PROVE Spec => []WaitingIsServed
  OBVIOUS
<1>1. IInv /\ NotUpdated /\ Served => WaitingIsServed
  <2> SUFFICES ASSUME IInv, NotUpdated, Served, NEW e \in Linked,
                      state[e] \in Processing \cup {"Requested", "RequestedUpdate"}
               PROVE  \E k \in Tasks : task[k].e = e /\ Unanswered(k)
    BY DEF WaitingIsServed
  <2>1. state[e] \in Waits
    BY DEF IInv, EntriesOK, NotUpdated, Processing, OldStates, Waits
  <2>2. PICK k \in Tasks : task[k].e = e /\ Attends(task[k], state[e])
    BY <2>1 DEF Served
  <2>3. Unanswered(k)
    BY <2>2 DEF Attends, Early, Unanswered
  <2>4. QED
    BY <2>2, <2>3
<1>2. QED
  BY <1>1, Invariance, ServedInvariance, PTL

\* An entry that removeResources() or removeSelfFromCollection() took out of a
\* collection that is never updated has no data in the GPU and none of its own.
THEOREM NothingIsLeft == NeverUpdated => (Spec => []RemovedLeavesNothing)
<1> SUFFICES ASSUME NeverUpdated PROVE Spec => []RemovedLeavesNothing
  OBVIOUS
<1>1. Init => RemovedLeavesNothing
  BY NamesAssumption DEF Init, RemovedLeavesNothing, Alive, Blank
<1>2. IInv /\ RequestsApart /\ (GpuTold /\ DataStored) /\ (NotUpdated /\ Served)
        /\ RemovedLeavesNothing /\ [Next]_vars => RemovedLeavesNothing'
  BY NextClean
<1>3. QED
  BY <1>1, <1>2, Invariance, RequestsInvariance, GpuInvariance, ServedInvariance, PTL DEF Spec

=============================================================================
