--------------------------- MODULE WorkerPool_proofs ---------------------------
(* Proofs that the pool implements JobService, for any threads, jobs and limits *)
(* and however limits are changed, runnables withdrawn and the pool reset, and  *)
(* that no task uses its owner once the owner is gone.                          *)
EXTENDS WorkerPool, FiniteSetTheorems, TLAPS

ThreadType == [pc : {"none", "look", "asleep", "limited", "rejoin", "run"},
               job : Jobs \cup {NoJob}]
Steps == {"none", "made", "queued", "start", "pre", "execute", "post", "deleted"}
\* The steps of a job that has been handed to the pool and left its queue.
Later == {"start", "pre", "execute", "post", "deleted"}

-----------------------------------------------------------------------------
(* The inductive invariant.                                                    *)

PoolTypes ==
    /\ poolThread \in [Threads -> ThreadType]
    /\ poolQueue \subseteq Jobs
    /\ taskAt \in [Jobs -> Steps]
    /\ poolWithdrawn \subseteq Jobs

\* A thread holds a job while it runs, a job that has left the queue and was not
\* withdrawn, and no other thread holds that job.
Held ==
    /\ \A t \in Threads : poolThread[t].pc = "run" <=> poolThread[t].job # NoJob
    /\ \A t \in Threads : poolThread[t].job # NoJob =>
          taskAt[poolThread[t].job] \in Later /\ poolThread[t].job \notin poolWithdrawn
    /\ \A t, u \in Threads : poolThread[t].job = poolThread[u].job /\ poolThread[t].job # NoJob
                                => t = u

Queued == \A j \in Jobs : j \in poolQueue <=> taskAt[j] = "queued"

\* A job that has left the queue was withdrawn, or is in the hands of a thread until
\* it has been deleted.
Runs(j) == \E t \in Threads : poolThread[t].job = j
Left ==
    /\ \A j \in poolWithdrawn : taskAt[j] \in Later
    /\ \A j \in Jobs \ poolWithdrawn : taskAt[j] \in Later /\ ~Runs(j) => taskAt[j] = "deleted"

\* A task that was not hosted was born cancelled, and does not execute; a bare
\* runnable never does.
Owned ==
    /\ \A j \in Tasks : taskAt[j] \notin {"none", "deleted"} =>
          j \in taskHosted \/ (j \in taskCancel /\ taskAt[j] # "execute")
    /\ \A j \in Jobs \ Tasks : taskAt[j] \notin {"pre", "execute", "post"}
    /\ owner = "gone" => taskHosted = {}

PoolInv == PoolTypes /\ Held /\ Queued /\ Left /\ Owned

-----------------------------------------------------------------------------
(* The status of a job without counting.                                       *)

Status(j) == IF taskAt[j] \in {"none", "made"} THEN "outside"
             ELSE IF j \in poolQueue THEN "waiting"
             ELSE IF j \in poolWithdrawn THEN "withdrawn"
             ELSE IF Runs(j) THEN "running" ELSE "ended"

LEMMA StatusIs == PoolInv => \A j \in Jobs : JobStatus(j) = Status(j)
<1> USE PoolNamesAssumption
<1> SUFFICES ASSUME PoolInv, NEW j \in Jobs
             PROVE  JobStatus(j) = Status(j)
  OBVIOUS
<1>1. j # NoJob
  OBVIOUS
<1>2. CASE Runs(j)
  <2>1. PICK t \in Threads : poolThread[t].job = j
    BY <1>2 DEF Runs
  <2>2. Holders(j) = {t}
    BY <1>1, <2>1 DEF PoolInv, Held, Holders
  <2>3. Cardinality(Holders(j)) = 1
    BY <2>2, FS_Singleton
  <2>4. taskAt[j] \in Later /\ j \notin poolQueue /\ j \notin poolWithdrawn
    BY <1>1, <2>1 DEF PoolInv, Held, Queued, Later
  <2>5. QED
    BY <1>2, <2>3, <2>4 DEF JobStatus, Status, Unrun, Later
<1>3. CASE ~Runs(j)
  <2>1. Holders(j) = {}
    BY <1>3 DEF Runs, Holders
  <2>2. Cardinality(Holders(j)) = 0
    BY <2>1, FS_EmptySet
  <2>3. taskAt[j] \in Steps /\ (j \in poolQueue <=> taskAt[j] = "queued")
    BY DEF PoolInv, PoolTypes, Queued
  <2>4. /\ j \in poolWithdrawn => taskAt[j] \in Later
        /\ taskAt[j] \in Later /\ j \notin poolWithdrawn => taskAt[j] = "deleted"
    BY <1>3 DEF PoolInv, Left
  <2>5. QED
    BY <1>3, <2>2, <2>3, <2>4 DEF JobStatus, Status, Unrun, Later, Steps
<1>4. QED
  BY <1>2, <1>3

StatusAgrees == \A j \in Jobs : JobStatus(j) = Status(j)

LEMMA StatusStays == PoolInv' => StatusAgrees'
<1>1. PoolInv => StatusAgrees
  BY StatusIs DEF StatusAgrees
<1>2. QED
  BY <1>1, PTL

-----------------------------------------------------------------------------
(* The part of a step that concerns threads.                                   *)

\* No thread takes up or lets go of a job.
SameJobs ==
    /\ poolThread' \in [Threads -> ThreadType]
    /\ \A t \in Threads : poolThread'[t].job = poolThread[t].job
    /\ \A t \in Threads : poolThread'[t].pc = "run" <=> poolThread[t].pc = "run"

LEMMA SameThreads ==
    ASSUME PoolInv, UNCHANGED poolThread
    PROVE  SameJobs
BY DEF PoolInv, PoolTypes, SameJobs

LEMMA WokenSameJobs ==
    ASSUME PoolInv, NEW t, poolThread' = Woken(t)
    PROVE  SameJobs
BY DEF PoolInv, PoolTypes, ThreadType, Woken, SameJobs

LEMMA IdleSameJobs ==
    ASSUME PoolInv, NEW t \in Threads, poolThread[t].pc # "run",
           NEW pc \in {"none", "look", "asleep", "limited", "rejoin"},
           poolThread' = [poolThread EXCEPT ![t] = Idle(pc)]
    PROVE  SameJobs
BY DEF PoolInv, PoolTypes, ThreadType, Held, Idle, SameJobs

LEMMA LaunchSameJobs ==
    ASSUME PoolInv, LaunchNext
    PROVE  SameJobs
<1>1. CASE CreateThread
  <2>1. PICK t \in Threads \ AllThreads : poolThread' = [poolThread EXCEPT ![t] = Idle("look")]
    BY <1>1 DEF CreateThread
  <2>2. poolThread[t].pc # "run"
    BY <2>1 DEF AllThreads
  <2>3. QED
    BY <2>1, <2>2, IdleSameJobs
<1>2. CASE ~CreateThread
  BY <1>2, WokenSameJobs, SameThreads DEF LaunchNext
<1>3. QED
  BY <1>1, <1>2

-----------------------------------------------------------------------------
(* Steps that leave every job with its status.                                 *)

\* Jobs change their step only outside of the queue and of the pool's sight.
SameStatus ==
    /\ \A j \in Jobs : taskAt'[j] \in {"none", "made"} <=> taskAt[j] \in {"none", "made"}
    /\ \A j \in Jobs : taskAt'[j] = "queued" <=> taskAt[j] = "queued"
    /\ \A j \in Jobs : taskAt[j] = "deleted" => taskAt'[j] = "deleted"
    /\ poolWithdrawn' = poolWithdrawn
    /\ taskAt' \in [Jobs -> Steps]
    /\ poolQueue' = poolQueue
    /\ SameJobs

status == [j \in Jobs |-> JobStatus(j)]
StatusStep == [Service!ServiceNext]_status

LEMMA SameStatusKeeps ==
    ASSUME PoolInv, SameStatus, Owned'
    PROVE  PoolInv' /\ StatusStep
<1> USE PoolNamesAssumption
<1>1. PoolTypes'
  BY DEF PoolInv, PoolTypes, SameStatus, SameJobs
<1>2. Held'
  BY DEF PoolInv, PoolTypes, ThreadType, Held, SameStatus, SameJobs, Later, Steps
<1>3. Queued'
  BY DEF PoolInv, Queued, SameStatus
<1>4. Left'
  <2>1. \A j \in Jobs : Runs(j)' <=> Runs(j)
    BY DEF SameStatus, SameJobs, Runs
  <2>2. \A j \in Jobs : taskAt'[j] \in Later <=> taskAt[j] \in Later
    BY DEF PoolInv, PoolTypes, SameStatus, Later, Steps
  <2>3. poolWithdrawn \subseteq Jobs
    BY DEF PoolInv, PoolTypes
  <2>4. QED
    BY <2>1, <2>2, <2>3 DEF PoolInv, Left, SameStatus
<1>5. PoolInv'
  BY <1>1, <1>2, <1>3, <1>4 DEF PoolInv
<1>6. \A j \in Jobs : JobStatus(j)' = JobStatus(j)
  <2>1. StatusAgrees /\ StatusAgrees'
    BY <1>5, StatusIs, StatusStays DEF StatusAgrees
  <2>2. \A j \in Jobs : Runs(j)' <=> Runs(j)
    BY DEF SameStatus, SameJobs, Runs
  <2>3. QED
    BY <2>1, <2>2 DEF StatusAgrees, SameStatus, Status
<1>7. QED
  BY <1>5, <1>6 DEF StatusStep, status

\* Nothing about tasks or the queue changes.
LEMMA QuietKeeps ==
    ASSUME PoolInv, SameJobs, UNCHANGED taskVars, UNCHANGED poolQueue
    PROVE  PoolInv' /\ StatusStep
<1>1. Owned'
  BY DEF PoolInv, Owned, taskVars
<1>2. SameStatus
  BY DEF PoolInv, PoolTypes, SameStatus, taskVars
<1>3. QED
  BY <1>1, <1>2, SameStatusKeeps

\* A task's own steps, and those of its owner.
LEMMA TaskKeeps ==
    ASSUME PoolInv, UNCHANGED poolOnly, Owned',
           NEW j \in Jobs, NEW step \in Steps,
           \/ UNCHANGED taskAt
           \/ /\ taskAt' = [taskAt EXCEPT ![j] = step]
              /\ taskAt[j] \in Later \ {"deleted"} /\ step \in Later
           \/ taskAt' = [taskAt EXCEPT ![j] = step] /\ taskAt[j] = "none" /\ step = "made"
    PROVE  PoolInv' /\ StatusStep
<1>1. SameJobs /\ poolQueue' = poolQueue /\ poolWithdrawn' = poolWithdrawn
  BY SameThreads DEF poolOnly
<1>2. taskAt' \in [Jobs -> Steps]
  BY DEF PoolInv, PoolTypes, Later, Steps
<1>3. SameStatus
  BY <1>1, <1>2 DEF PoolInv, PoolTypes, SameStatus, Later, Steps
<1>4. QED
  BY <1>3, SameStatusKeeps

LEMMA TaskStepKeeps ==
    ASSUME PoolInv, NEW j \in Jobs, RunStep(j)
    PROVE  PoolInv' /\ StatusStep
<1> USE PoolNamesAssumption DEF PoolInv, PoolTypes, Owned, Step
<1>1. CASE RunTask(j)
  BY <1>1, TaskKeeps DEF RunTask, Later, Steps
<1>2. CASE RunBare(j)
  BY <1>2, TaskKeeps DEF RunBare, Later, Steps
<1>3. CASE PreExecute(j)
  <2>1. PICK next \in {"execute", "post"} : /\ next = "execute" => j \notin taskCancel
                                            /\ Step(j, next)
    BY <1>3 DEF PreExecute
  <2>2. taskAt[j] = "pre" /\ UNCHANGED <<taskCancel, taskHosted, owner>>
    BY <1>3 DEF PreExecute
  <2>3. Owned'
    BY <2>1, <2>2
  <2>4. QED
    BY <1>3, <2>1, <2>3, TaskKeeps DEF PreExecute, Later, Steps
<1>4. CASE Executed(j)
  BY <1>4, TaskKeeps DEF Executed, Later, Steps
<1>5. CASE DeleteTask(j)
  BY <1>5, TaskKeeps DEF DeleteTask, Later, Steps
<1>6. QED
  BY <1>1, <1>2, <1>3, <1>4, <1>5 DEF RunStep

LEMMA AskTaskKeeps ==
    ASSUME PoolInv, NEW j \in Tasks, MakeTask(j) \/ RequestCancellation(j)
    PROVE  PoolInv' /\ StatusStep
<1> USE PoolNamesAssumption DEF PoolInv, PoolTypes, Owned, Step
<1>1. CASE MakeTask(j)
  BY <1>1, TaskKeeps DEF MakeTask, Later, Steps
<1>2. CASE RequestCancellation(j)
  BY <1>2, TaskKeeps DEF RequestCancellation, Steps
<1>3. QED
  BY <1>1, <1>2

LEMMA OwnerKeeps ==
    ASSUME PoolInv, OwnerLeaves \/ OwnerGone
    PROVE  PoolInv' /\ StatusStep
<1>1. Owned'
  BY DEF PoolInv, Owned, OwnerLeaves, OwnerGone
<1>2. SameStatus
  BY SameThreads DEF PoolInv, PoolTypes, SameStatus, OwnerLeaves, OwnerGone, poolOnly
<1>3. QED
  BY <1>1, <1>2, SameStatusKeeps

-----------------------------------------------------------------------------
(* Steps that move jobs.                                                       *)

LEMMA MoveIs ==
    ASSUME PoolInv, PoolInv', NEW jobs \in SUBSET Jobs, jobs # {}, NEW from, NEW to,
           \A j \in jobs : Status(j) = from /\ Status(j)' = to,
           \A j \in Jobs \ jobs : Status(j)' = Status(j)
    PROVE  Service!Move(jobs, from, to)
<1>1. StatusAgrees /\ StatusAgrees'
  BY StatusIs, StatusStays DEF StatusAgrees
<1>2. QED
  BY <1>1 DEF StatusAgrees, Service!Move

LEMMA EnqueueKeeps ==
    ASSUME PoolInv, NEW jobs \in SUBSET Jobs, Enqueue(jobs)
    PROVE  PoolInv' /\ StatusStep
<1> USE PoolNamesAssumption
<1>1. SameJobs
  BY LaunchSameJobs DEF Enqueue
<1>2. /\ PoolTypes' /\ Queued'
  BY <1>1 DEF PoolInv, PoolTypes, Queued, Steps, SameJobs, Enqueue
<1>3. Held'
  BY <1>1 DEF PoolInv, PoolTypes, ThreadType, Held, Later, SameJobs, Enqueue
<1>4. Owned'
  BY DEF PoolInv, PoolTypes, Owned, Enqueue
<1>5. \A j \in Jobs : Runs(j)' <=> Runs(j)
  BY <1>1 DEF SameJobs, Runs
<1>6. Left'
  BY <1>5 DEF PoolInv, PoolTypes, Left, Later, Enqueue
<1>7. PoolInv'
  BY <1>2, <1>3, <1>4, <1>6 DEF PoolInv
<1>8. /\ \A j \in jobs : Status(j) = "outside" /\ Status(j)' = "waiting"
      /\ \A j \in Jobs \ jobs : Status(j)' = Status(j)
  BY <1>5 DEF PoolInv, PoolTypes, Status, Enqueue
<1>9. Service!Submit(jobs)
  BY <1>7, <1>8, MoveIs DEF Service!Submit, Enqueue
<1>10. QED
  BY <1>7, <1>9 DEF StatusStep, Service!ServiceNext

\* Jobs are taken out of the queue by those who use the pool.
LEMMA WithdrawKeeps ==
    ASSUME PoolInv, UNCHANGED poolThread, Owned',
           NEW jobs \in SUBSET poolQueue, NEW step \in Later,
           poolQueue' = poolQueue \ jobs, poolWithdrawn' = poolWithdrawn \cup jobs,
           taskAt' = [j \in Jobs |-> IF j \in jobs THEN step ELSE taskAt[j]]
    PROVE  PoolInv' /\ StatusStep
<1> USE PoolNamesAssumption
<1>1. /\ PoolTypes' /\ Queued'
  BY DEF PoolInv, PoolTypes, Queued, Steps, Later
<1>2. Held'
  BY DEF PoolInv, PoolTypes, ThreadType, Held, Queued, Later
<1>3. Left'
  BY DEF PoolInv, PoolTypes, Left, Later, Runs
<1>4. PoolInv'
  BY <1>1, <1>2, <1>3 DEF PoolInv
<1>5. \A j \in jobs : ~Runs(j) /\ ~Runs(j)'
  BY DEF PoolInv, PoolTypes, Queued, Held, Later, Runs
<1>6. \A j \in Jobs : Runs(j)' <=> Runs(j)
  BY DEF Runs
<1>7. /\ \A j \in jobs : Status(j) = "waiting" /\ Status(j)' = "withdrawn"
      /\ \A j \in Jobs \ jobs : Status(j)' = Status(j)
  BY <1>5, <1>6 DEF PoolInv, PoolTypes, Queued, Later, Status
<1>8. CASE jobs = {}
  <2>1. StatusAgrees /\ StatusAgrees'
    BY <1>4, StatusIs, StatusStays DEF StatusAgrees
  <2>2. QED
    BY <1>4, <1>7, <1>8, <2>1 DEF StatusAgrees, StatusStep, status
<1>9. CASE jobs # {}
  <2>1. jobs \in SUBSET Jobs
    BY DEF PoolInv, PoolTypes
  <2>2. Service!Withdraw(jobs)
    BY <1>4, <1>7, <1>9, <2>1, MoveIs DEF Service!Withdraw
  <2>3. QED
    BY <1>4, <2>1, <2>2 DEF StatusStep, Service!ServiceNext
<1>10. QED
  BY <1>8, <1>9

LEMMA DequeueKeeps ==
    ASSUME PoolInv, NEW j \in Tasks, Dequeue(j)
    PROVE  PoolInv' /\ StatusStep
<1> USE PoolNamesAssumption
<1>1. Owned'
  BY DEF PoolInv, PoolTypes, Queued, Owned, Dequeue
<1>2. taskAt' = [i \in Jobs |-> IF i \in {j} THEN "start" ELSE taskAt[i]]
  BY DEF PoolInv, PoolTypes, Dequeue
<1>3. QED
  BY <1>1, <1>2, WithdrawKeeps DEF Dequeue, Later

LEMMA DeleteKeeps ==
    ASSUME PoolInv, DeleteQueued, UNCHANGED <<poolThread, taskCancel, owner>>
    PROVE  PoolInv' /\ StatusStep
<1> USE PoolNamesAssumption
<1>1. Owned'
  BY DEF PoolInv, PoolTypes, Owned, DeleteQueued
<1>2. poolQueue' = poolQueue \ poolQueue
  BY DEF DeleteQueued
<1>3. QED
  BY <1>1, <1>2, WithdrawKeeps DEF DeleteQueued, Later

LEMMA LookStepKeeps ==
    ASSUME PoolInv, NEW t \in Threads, Look(t)
    PROVE  PoolInv' /\ StatusStep
<1> USE PoolNamesAssumption
<1>1. poolThread[t].pc = "look" /\ poolThread[t].job = NoJob
  BY DEF PoolInv, PoolTypes, ThreadType, Held, Look
<1>2. CASE \E pc \in {"none", "limited", "asleep"} :
             /\ poolThread' = [poolThread EXCEPT ![t] = Idle(pc)]
             /\ UNCHANGED <<poolQueue, taskAt>>
  <2>1. SameJobs
    BY <1>1, <1>2, IdleSameJobs
  <2>2. QED
    BY <1>2, <2>1, QuietKeeps DEF Look, taskVars
<1>3. CASE \E j \in poolQueue :
             /\ poolQueue' = poolQueue \ {j}
             /\ poolThread' = [poolThread EXCEPT ![t] = [pc |-> "run", job |-> j]]
             /\ taskAt' = [taskAt EXCEPT ![j] = "start"]
  <2>1. PICK j \in poolQueue :
             /\ poolQueue' = poolQueue \ {j}
             /\ poolThread' = [poolThread EXCEPT ![t] = [pc |-> "run", job |-> j]]
             /\ taskAt' = [taskAt EXCEPT ![j] = "start"]
    BY <1>3
  <2>2. j \in Jobs /\ j # NoJob /\ taskAt[j] = "queued" /\ j \notin poolWithdrawn
    BY DEF PoolInv, PoolTypes, Queued, Left, Later
  <2>3. ~Runs(j) /\ Runs(j)' /\ \A i \in Jobs \ {j} : Runs(i)' <=> Runs(i)
    BY <1>1, <2>1, <2>2 DEF PoolInv, PoolTypes, Held, Later, Runs
  <2>4. poolWithdrawn' = poolWithdrawn
    BY DEF Look
  <2>5. PoolTypes' /\ Queued'
    BY <2>1, <2>2, <2>4 DEF PoolInv, PoolTypes, ThreadType, Queued, Steps
  <2>6. Held'
    BY <2>1, <2>2, <2>3, <2>4 DEF PoolInv, PoolTypes, ThreadType, Held, Later, Runs
  <2>7. Owned'
    BY <2>1, <2>2 DEF PoolInv, PoolTypes, Owned, Look
  <2>8. Left'
    BY <2>1, <2>2, <2>3, <2>4 DEF PoolInv, PoolTypes, Left, Later
  <2>9. PoolInv'
    BY <2>5, <2>6, <2>7, <2>8 DEF PoolInv
  <2>10. /\ Status(j) = "waiting" /\ Status(j)' = "running"
        /\ \A i \in Jobs \ {j} : Status(i)' = Status(i)
    BY <2>1, <2>2, <2>3, <2>4 DEF PoolInv, PoolTypes, Status
  <2>11. Service!Begin(j)
    BY <2>2, <2>9, <2>10, StatusIs, StatusStays DEF StatusAgrees, Service!Begin
  <2>12. QED
    BY <2>2, <2>9, <2>11 DEF StatusStep, Service!ServiceNext
<1>4. QED
  BY <1>2, <1>3 DEF Look

LEMMA FreedStepKeeps ==
    ASSUME PoolInv, NEW t \in Threads, Freed(t)
    PROVE  PoolInv' /\ StatusStep
<1> USE PoolNamesAssumption
<1> PICK j : j = poolThread[t].job
  OBVIOUS
<1>1. /\ j \in Jobs /\ j # NoJob /\ taskAt[j] = "deleted"
      /\ j \notin poolQueue /\ j \notin poolWithdrawn
  BY DEF PoolInv, PoolTypes, ThreadType, Held, Queued, Freed
<1>2. poolThread' = [poolThread EXCEPT ![t] = [pc |-> "look", job |-> NoJob]]
  BY DEF Freed, Idle
<1>3. Runs(j) /\ ~Runs(j)' /\ \A i \in Jobs \ {j} : Runs(i)' <=> Runs(i)
  BY <1>1, <1>2 DEF PoolInv, PoolTypes, Held, Runs
<1>4. PoolTypes' /\ Queued' /\ Owned'
  BY <1>2 DEF PoolInv, PoolTypes, ThreadType, Queued, Owned, Freed, taskVars
<1>5. Held'
  BY <1>2 DEF PoolInv, PoolTypes, ThreadType, Held, Freed, taskVars
<1>6. Left'
  BY <1>1, <1>3 DEF PoolInv, Left, Freed, taskVars
<1>7. PoolInv'
  BY <1>4, <1>5, <1>6 DEF PoolInv
<1>8. /\ Status(j) = "running" /\ Status(j)' = "ended"
      /\ \A i \in Jobs \ {j} : Status(i)' = Status(i)
  BY <1>1, <1>3 DEF Status, Freed, taskVars
<1>9. Service!End(j)
  BY <1>1, <1>7, <1>8, StatusIs, StatusStays DEF StatusAgrees, Service!End
<1>10. QED
  BY <1>1, <1>7, <1>9 DEF StatusStep, Service!ServiceNext

-----------------------------------------------------------------------------
(* The two lists of threads.                                                   *)

\* Nothing stands in the list twice.
Single(s) == \A i, k \in DOMAIN s : s[i] = s[k] => i = k

\* A thread that looks for a runnable, or sleeps without one, is in the list of
\* free threads; one that sleeps beyond the limit is in that of inactive threads;
\* one that runs a task, or does not exist, is in neither.
Lists ==
    /\ poolThread \in [Threads -> ThreadType]
    /\ poolFree \in Seq(Threads) /\ Single(poolFree)
    /\ poolLow \in Seq(Threads) /\ Single(poolLow)
    /\ \A t \in Threads : t \in Elements(poolFree) <=> poolThread[t].pc \in {"look", "asleep"}
    /\ \A t \in Threads : t \in Elements(poolLow) <=> poolThread[t].pc \in {"limited", "rejoin"}

\* What enqueue() and removeOne() do to a list without repetitions.
LEMMA AppendSingle ==
    ASSUME NEW S, NEW s \in Seq(S), NEW x \in S, Single(s), x \notin Elements(s)
    PROVE  /\ Append(s, x) \in Seq(S) /\ Single(Append(s, x))
           /\ Elements(Append(s, x)) = Elements(s) \cup {x}
<1>1. /\ Append(s, x) \in Seq(S) /\ Len(Append(s, x)) = Len(s) + 1
      /\ Append(s, x)[Len(s) + 1] = x
      /\ \A i \in 1..Len(s) : Append(s, x)[i] = s[i]
  OBVIOUS
<1>2. DOMAIN s = 1..Len(s) /\ DOMAIN Append(s, x) = 1..(Len(s) + 1) /\ Len(s) \in Nat
  BY <1>1
<1>3. Single(Append(s, x))
  BY <1>1, <1>2 DEF Single, Elements
<1>4. Elements(Append(s, x)) \subseteq Elements(s) \cup {x}
  BY <1>1, <1>2 DEF Elements
<1>5. Elements(s) \cup {x} \subseteq Elements(Append(s, x))
  BY <1>1, <1>2 DEF Elements
<1>6. QED
  BY <1>1, <1>3, <1>4, <1>5

LEMMA WithoutSingle ==
    ASSUME NEW S, NEW s \in Seq(S), NEW x, Single(s)
    PROVE  /\ Without(s, x) \in Seq(S) /\ Single(Without(s, x))
           /\ Elements(Without(s, x)) = Elements(s) \ {x}
<1>1. CASE x \notin Elements(s)
  BY <1>1 DEF Without
<1>2. CASE x \in Elements(s)
  <2> DEFINE r == Without(s, x)
             k == FirstOf(s, x)
  <2>1. DOMAIN s = 1..Len(s) /\ Len(s) \in Nat
    OBVIOUS
  <2>2. PICK i \in DOMAIN s : s[i] = x
    BY <1>2 DEF Elements
  <2>3. \A h \in 1..(i - 1) : s[h] # x
    BY <2>1, <2>2 DEF Single
  <2>4. k \in DOMAIN s /\ s[k] = x
    BY <2>2, <2>3 DEF FirstOf
  <2>5. r = [h \in 1..(Len(s) - 1) |-> IF h < k THEN s[h] ELSE s[h + 1]]
    BY <1>2 DEF Without
  <2>6. k \in 1..Len(s) /\ Len(s) - 1 \in Nat
    BY <2>1, <2>4
  <2> HIDE DEF r, k
  <2>7. r \in Seq(S) /\ DOMAIN r = 1..(Len(s) - 1)
    BY <2>1, <2>5, <2>6
  <2>8. Single(r)
    <3> SUFFICES ASSUME NEW h \in DOMAIN r, NEW j \in DOMAIN r, r[h] = r[j]
                 PROVE  h = j
      BY DEF Single
    <3>1. h \in 1..(Len(s) - 1) /\ j \in 1..(Len(s) - 1)
      BY <2>7
    <3>2. \A a, b \in 1..Len(s) : s[a] = s[b] => a = b
      BY <2>1 DEF Single
    <3>3. QED
      BY <2>5, <2>6, <3>1, <3>2
  <2>9. \A h \in DOMAIN r : r[h] \in Elements(s) \ {x}
    <3> SUFFICES ASSUME NEW h \in DOMAIN r PROVE r[h] \in Elements(s) \ {x}
      OBVIOUS
    <3>1. h \in 1..(Len(s) - 1)
      BY <2>7
    <3>2. \A a \in 1..Len(s) : s[a] = x => a = k
      BY <2>1, <2>4 DEF Single
    <3>3. PICK a \in 1..Len(s) : r[h] = s[a] /\ a # k
      BY <2>5, <2>6, <3>1
    <3>4. QED
      BY <2>1, <3>2, <3>3 DEF Elements
  <2>10. \A a \in DOMAIN s : s[a] # x => \E h \in DOMAIN r : r[h] = s[a]
    <3> SUFFICES ASSUME NEW a \in 1..Len(s), s[a] # x
                 PROVE  \E h \in 1..(Len(s) - 1) : r[h] = s[a]
      BY <2>1, <2>7
    <3>1. a # k
      BY <2>4
    <3>2. CASE a < k
      BY <2>5, <2>6, <3>2
    <3>3. CASE a > k
      <4>1. a - 1 \in 1..(Len(s) - 1) /\ ~(a - 1 < k) /\ (a - 1) + 1 = a
        BY <2>6, <3>3
      <4>2. QED
        BY <2>5, <4>1
    <3>4. QED
      BY <2>6, <3>1, <3>2, <3>3
  <2>11. Elements(r) = Elements(s) \ {x}
    BY <2>9, <2>10 DEF Elements
  <2>12. QED
    BY <2>7, <2>8, <2>11 DEF r
<1>3. QED
  BY <1>1, <1>2

\* The head of a list that is not empty is one of its threads.
LEMMA HeadElement ==
    ASSUME NEW S, NEW s \in Seq(S), s # <<>>
    PROVE  Head(s) \in S /\ Head(s) \in Elements(s)
<1>1. Len(s) \in Nat /\ Len(s) # 0 /\ DOMAIN s = 1..Len(s)
  OBVIOUS
<1>2. Head(s) = s[1] /\ 1 \in DOMAIN s
  BY <1>1
<1>3. QED
  BY <1>2 DEF Elements

-----------------------------------------------------------------------------
(* The theorems.                                                               *)

LEMMA PoolInitInv == PoolInit => PoolInv /\ Service!ServiceInit
<1> SUFFICES ASSUME PoolInit PROVE PoolInv /\ Service!ServiceInit
  OBVIOUS
<1> USE PoolNamesAssumption
<1>1. PoolTypes /\ Queued
  BY DEF PoolInit, PoolTypes, ThreadType, Queued, Idle, Steps
<1>2. Held /\ Owned
  BY DEF PoolInit, Held, Owned, Idle
<1>3. Left
  BY DEF PoolInit, Left, Later
<1>4. PoolInv
  BY <1>1, <1>2, <1>3 DEF PoolInv
<1>5. \A j \in Jobs : Status(j) = "outside"
  BY DEF PoolInit, Status
<1>6. QED
  BY <1>4, <1>5, StatusIs DEF Service!ServiceInit

LEMMA PoolNextInv == PoolInv /\ [PoolNext]_poolVars => PoolInv' /\ StatusStep
<1> SUFFICES ASSUME PoolInv, [PoolNext]_poolVars PROVE PoolInv' /\ StatusStep
  OBVIOUS
<1> USE PoolNamesAssumption
<1>1. CASE \E jobs \in SUBSET Jobs : Enqueue(jobs)
  BY <1>1, EnqueueKeeps
<1>2. CASE \E limit \in Limits : SetLimit(limit)
  BY <1>2, SameThreads, QuietKeeps DEF SetLimit
<1>3. CASE \E j \in Jobs : RunStep(j)
  BY <1>3, TaskStepKeeps
<1>4. CASE \E j \in Tasks : Dequeue(j) \/ MakeTask(j) \/ RequestCancellation(j)
  BY <1>4, DequeueKeeps, AskTaskKeeps
<1>5. CASE \E t \in Threads : WorkerStep(t)
  <2>1. PICK t \in Threads : WorkerStep(t)
    BY <1>5
  <2>2. CASE Rejoin(t)
    <3>1. SameJobs
      BY <2>2 DEF PoolInv, PoolTypes, ThreadType, SameJobs, Rejoin
    <3>2. QED
      BY <2>2, <3>1, QuietKeeps DEF Rejoin
  <2>3. QED
    BY <2>1, <2>2, LookStepKeeps, FreedStepKeeps DEF WorkerStep
<1>6. CASE LaunchAll
  BY <1>6, SameThreads, QuietKeeps DEF LaunchAll
<1>7. CASE DequeueAll
  BY <1>7, DeleteKeeps DEF DequeueAll
<1>8. CASE BeginReset
  BY <1>8, DeleteKeeps DEF BeginReset
<1>9. CASE ResetDrained
  BY <1>9, SameThreads, QuietKeeps DEF ResetDrained
<1>10. CASE JoinThread
  <2>1. SameJobs
    BY <1>10, SameThreads, WokenSameJobs DEF JoinThread
  <2>2. QED
    BY <1>10, <2>1, QuietKeeps DEF JoinThread
<1>11. CASE OwnerLeaves \/ OwnerGone
  BY <1>11, OwnerKeeps
<1>12. CASE UNCHANGED poolVars
  BY <1>12, SameThreads, QuietKeeps DEF poolVars, taskVars
<1>13. QED
  BY <1>1, <1>2, <1>3, <1>4, <1>5, <1>6, <1>7, <1>8, <1>9, <1>10, <1>11, <1>12 DEF PoolNext

-----------------------------------------------------------------------------
(* Every step keeps the lists.                                                 *)

LEMMA SameLists ==
    ASSUME Lists, UNCHANGED <<poolThread, poolFree, poolLow>>
    PROVE  Lists'
BY DEF Lists

LEMMA WokenLists ==
    ASSUME Lists, NEW t \in Threads, poolThread' = Woken(t), UNCHANGED <<poolFree, poolLow>>
    PROVE  Lists'
<1>1. poolThread' \in [Threads -> ThreadType]
  BY DEF Lists, ThreadType, Woken
<1>2. \A u \in Threads :
         /\ poolThread'[u].pc \in {"look", "asleep"} <=> poolThread[u].pc \in {"look", "asleep"}
         /\ poolThread'[u].pc \in {"limited", "rejoin"} <=>
               poolThread[u].pc \in {"limited", "rejoin"}
  BY DEF Lists, ThreadType, Woken
<1>3. QED
  BY <1>1, <1>2 DEF Lists

LEMMA CreateLists ==
    ASSUME Lists, CreateThread, UNCHANGED poolLow
    PROVE  Lists'
<1>1. PICK t \in Threads \ AllThreads : /\ poolThread' = [poolThread EXCEPT ![t] = Idle("look")]
                                        /\ poolFree' = Append(poolFree, t)
  BY DEF CreateThread
<1>2. poolThread[t].pc = "none"
  BY <1>1 DEF AllThreads
<1>3. /\ poolFree' \in Seq(Threads) /\ Single(poolFree')
      /\ Elements(poolFree') = Elements(poolFree) \cup {t}
  BY <1>1, <1>2, AppendSingle DEF Lists
<1>4. poolThread' \in [Threads -> ThreadType]
  BY <1>1 DEF Lists, ThreadType, Idle
<1>5. \A u \in Threads : u # t => poolThread'[u] = poolThread[u]
  BY <1>1 DEF Lists
<1>6. poolThread'[t].pc = "look"
  BY <1>1 DEF Lists, Idle
<1>7. QED
  BY <1>2, <1>3, <1>4, <1>5, <1>6 DEF Lists

LEMMA LaunchLists ==
    ASSUME Lists, LaunchNext, UNCHANGED poolLow
    PROVE  Lists'
<1>1. CASE CreateThread
  BY <1>1, CreateLists
<1>2. CASE poolFree # <<>> /\ poolThread' = Woken(Head(poolFree)) /\ UNCHANGED poolFree
  <2>1. Head(poolFree) \in Threads
    BY <1>2, HeadElement DEF Lists
  <2>2. QED
    BY <1>2, <2>1, WokenLists
<1>3. CASE poolLow # <<>> /\ poolThread' = Woken(Head(poolLow)) /\ UNCHANGED poolFree
  <2>1. Head(poolLow) \in Threads
    BY <1>3, HeadElement DEF Lists
  <2>2. QED
    BY <1>3, <2>1, WokenLists
<1>4. CASE UNCHANGED <<poolThread, poolFree>>
  BY <1>4, SameLists
<1>5. QED
  BY <1>1, <1>2, <1>3, <1>4 DEF LaunchNext

LEMMA LookLists ==
    ASSUME Lists, PoolInv, PoolInv', NEW t \in Threads, Look(t)
    PROVE  Lists'
<1> USE DEF Lists, Idle
<1>1. /\ Without(poolFree, t) \in Seq(Threads) /\ Single(Without(poolFree, t))
      /\ Elements(Without(poolFree, t)) = Elements(poolFree) \ {t}
  BY WithoutSingle
<1>2. poolThread' \in [Threads -> ThreadType]
  BY DEF PoolInv, PoolTypes
<1>3. poolThread[t].pc = "look"
  BY DEF Look
<1>4. CASE \E pc \in {"none", "run"} :
             /\ poolFree' = Without(poolFree, t) /\ UNCHANGED poolLow
             /\ \E job : poolThread' = [poolThread EXCEPT ![t] = [pc |-> pc, job |-> job]]
  <2>1. /\ poolFree' \in Seq(Threads) /\ Single(poolFree')
        /\ Elements(poolFree') = Elements(poolFree) \ {t}
    BY <1>1, <1>4
  <2>2. poolLow' \in Seq(Threads) /\ Single(poolLow') /\ Elements(poolLow') = Elements(poolLow)
    BY <1>4
  <2>3. QED
    BY <1>2, <1>3, <1>4, <2>1, <2>2
<1>5. CASE /\ poolFree' = Without(poolFree, t) /\ poolLow' = Append(poolLow, t)
           /\ poolThread' = [poolThread EXCEPT ![t] = [pc |-> "limited", job |-> NoJob]]
  <2>1. /\ poolFree' \in Seq(Threads) /\ Single(poolFree')
        /\ Elements(poolFree') = Elements(poolFree) \ {t}
    BY <1>1, <1>5
  <2>2. /\ poolLow' \in Seq(Threads) /\ Single(poolLow')
        /\ Elements(poolLow') = Elements(poolLow) \cup {t}
    BY <1>3, <1>5, AppendSingle
  <2>3. QED
    BY <1>2, <1>3, <1>5, <2>1, <2>2
<1>6. CASE /\ UNCHANGED <<poolFree, poolLow>>
           /\ poolThread' = [poolThread EXCEPT ![t] = [pc |-> "asleep", job |-> NoJob]]
  BY <1>2, <1>3, <1>6
<1>7. QED
  BY <1>4, <1>5, <1>6 DEF Look

LEMMA RejoinLists ==
    ASSUME Lists, NEW t \in Threads, Rejoin(t)
    PROVE  Lists'
<1> USE DEF Lists
<1>1. poolThread[t].pc = "rejoin" /\ poolThread' = [poolThread EXCEPT ![t].pc = "look"]
  BY DEF Rejoin
<1>2. poolThread' \in [Threads -> ThreadType]
  BY <1>1 DEF ThreadType
<1>3. /\ poolLow' \in Seq(Threads) /\ Single(poolLow')
      /\ Elements(poolLow') = Elements(poolLow) \ {t}
  BY WithoutSingle DEF Rejoin
<1>4. /\ poolFree' \in Seq(Threads) /\ Single(poolFree')
      /\ Elements(poolFree') = Elements(poolFree) \cup {t}
  BY <1>1, AppendSingle DEF Rejoin
<1>5. QED
  BY <1>1, <1>2, <1>3, <1>4 DEF ThreadType

LEMMA FreedLists ==
    ASSUME Lists, NEW t \in Threads, Freed(t)
    PROVE  Lists'
<1> USE DEF Lists
<1>1. poolThread[t].pc = "run" /\ poolThread' = [poolThread EXCEPT ![t] = Idle("look")]
  BY DEF Freed
<1>2. poolThread' \in [Threads -> ThreadType]
  BY <1>1 DEF ThreadType, Idle
<1>3. /\ poolFree' \in Seq(Threads) /\ Single(poolFree')
      /\ Elements(poolFree') = Elements(poolFree) \cup {t}
  BY <1>1, AppendSingle DEF Freed
<1>4. UNCHANGED poolLow
  BY DEF Freed
<1>5. QED
  BY <1>1, <1>2, <1>3, <1>4 DEF Idle

LEMMA JoinLists ==
    ASSUME Lists, JoinThread
    PROVE  Lists'
<1>1. CASE poolFree # <<>> /\ poolThread' = Woken(Head(poolFree))
  <2>1. Head(poolFree) \in Threads
    BY <1>1, HeadElement DEF Lists
  <2>2. QED
    BY <1>1, <2>1, WokenLists DEF JoinThread
<1>2. CASE UNCHANGED poolThread
  BY <1>2, SameLists DEF JoinThread
<1>3. QED
  BY <1>1, <1>2 DEF JoinThread

-----------------------------------------------------------------------------
(* Somebody looks at the queue.                                                *)

\* The threads that count as active are those that run a task.
LEMMA ActiveRuns ==
    ASSUME Lists
    PROVE  Active = {t \in Threads : poolThread[t].pc = "run"}
BY DEF Lists, ThreadType, Active, AllThreads

\* The limit is reached only while a thread runs a task.
LEMMA TooManyRun ==
    ASSUME Lists, poolLimit \in Limits, TooMany(poolLimit)
    PROVE  \E t \in Threads : poolThread[t].pc = "run"
<1>1. poolLimit \in Nat /\ poolLimit > 0 /\ Cardinality(Active) >= poolLimit
  BY PoolLimitsAssumption DEF TooMany
<1>2. Active # {}
  BY <1>1, FS_EmptySet
<1>3. QED
  BY <1>2, ActiveRuns

Awake(t) == poolThread[t].pc \notin {"none", "asleep", "limited"}
SomebodyLooks == \E t \in Threads : Awake(t)

\* After an attempt to launch, a thread is awake that will look at the queue.
LEMMA LaunchWakes ==
    ASSUME Lists, poolLimit \in Limits, LaunchNext, Lists'
    PROVE  SomebodyLooks'
<1>1. CASE TooMany(poolLimit) /\ UNCHANGED poolThread
  BY <1>1, TooManyRun DEF SomebodyLooks, Awake
<1>2. CASE poolFree # <<>> /\ poolThread' = Woken(Head(poolFree))
  <2>1. Head(poolFree) \in Threads /\ poolThread[Head(poolFree)].pc \in {"look", "asleep"}
    BY <1>2, HeadElement DEF Lists
  <2>2. poolThread'[Head(poolFree)].pc = "look"
    BY <1>2, <2>1 DEF Lists, ThreadType, Woken
  <2>3. QED
    BY <2>1, <2>2 DEF SomebodyLooks, Awake
<1>3. CASE poolLow # <<>> /\ poolThread' = Woken(Head(poolLow))
  <2>1. Head(poolLow) \in Threads /\ poolThread[Head(poolLow)].pc \in {"limited", "rejoin"}
    BY <1>3, HeadElement DEF Lists
  <2>2. poolThread'[Head(poolLow)].pc = "rejoin"
    BY <1>3, <2>1 DEF Lists, ThreadType, Woken
  <2>3. QED
    BY <2>1, <2>2 DEF SomebodyLooks, Awake
<1>4. CASE CreateThread
  BY <1>4 DEF Lists, CreateThread, Idle, SomebodyLooks, Awake
<1>5. QED
  BY <1>1, <1>2, <1>3, <1>4 DEF LaunchNext

LEMMA SeenMeans == WorkIsSeen <=> (poolQueue # {} /\ poolReset = "never" => SomebodyLooks)
BY DEF WorkIsSeen, SomebodyLooks, Awake, Asleep

\* A thread that looks either leaves the queue empty, runs a task, or lies down
\* because another thread runs one.
LEMMA LookSees ==
    ASSUME Lists, Lists', poolLimit \in Limits, NEW t \in Threads, Look(t),
           poolQueue' # {}, poolReset' = "never"
    PROVE  SomebodyLooks'
<1>1. poolThread[t].pc = "look" /\ poolReset = "never"
  BY DEF Look
<1>2. CASE \E j \in poolQueue : poolThread' = [poolThread EXCEPT ![t] = [pc |-> "run", job |-> j]]
  BY <1>2 DEF Lists, SomebodyLooks, Awake
<1>3. CASE TooMany(poolLimit) /\ poolThread' = [poolThread EXCEPT ![t] = Idle("limited")]
  <2>1. PICK u \in Threads : poolThread[u].pc = "run"
    BY <1>3, TooManyRun
  <2>2. poolThread'[u].pc = "run"
    BY <1>1, <1>3, <2>1 DEF Lists
  <2>3. QED
    BY <2>2 DEF SomebodyLooks, Awake
<1>4. QED
  BY <1>1, <1>2, <1>3 DEF Look

\* No other step of a thread or of reset() puts a thread to sleep.
LEMMA WokenSees ==
    ASSUME Lists, NEW t \in Threads, poolThread' = Woken(t), SomebodyLooks
    PROVE  SomebodyLooks'
BY DEF Lists, ThreadType, Woken, SomebodyLooks, Awake

-----------------------------------------------------------------------------
(* The rest of the types.                                                      *)

OtherTypes ==
    /\ poolLimit \in Limits /\ poolChanges \in 0..MaxChanges
    /\ poolHung \in {"no", "spin", "crash"} /\ poolRelaunch \in BOOLEAN
    /\ poolReset \in {"never", "drain", "join", "done"}
    /\ taskCancel \subseteq Jobs /\ taskHosted \subseteq Jobs
    /\ owner \in {"alive", "leaving", "gone"}

ThreadsInv == PoolInv /\ OtherTypes /\ Lists /\ WorkIsSeen

LEMMA OtherTypesStep ==
    ASSUME PoolInv, OtherTypes, [PoolNext]_poolVars
    PROVE  OtherTypes'
<1> USE PoolLimitsAssumption, PoolNamesAssumption DEF OtherTypes, limitVars, taskVars, poolOnly
<1>1. CASE \E jobs \in SUBSET Jobs : Enqueue(jobs)
  BY <1>1 DEF Enqueue
<1>2. CASE \E limit \in Limits : SetLimit(limit)
  BY <1>2 DEF SetLimit
<1>3. CASE \E j \in Jobs : RunStep(j)
  BY <1>3 DEF RunStep, RunTask, RunBare, PreExecute, Executed, DeleteTask
<1>4. CASE \E j \in Tasks : Dequeue(j) \/ MakeTask(j) \/ RequestCancellation(j)
  BY <1>4 DEF Dequeue, MakeTask, RequestCancellation
<1>5. CASE \E t \in Threads : WorkerStep(t)
  BY <1>5 DEF WorkerStep, Look, Rejoin, Freed
<1>6. CASE LaunchAll \/ DequeueAll \/ BeginReset
  <2>1. poolHung' \in {"no", "spin", "crash"} /\ poolReset' \in {"never", "drain", "join", "done"}
    BY <1>6 DEF LaunchAll, DequeueAll, BeginReset
  <2>2. poolRelaunch' \in BOOLEAN
    BY <1>6 DEF LaunchAll, DequeueAll, BeginReset
  <2>3. poolChanges' \in 0..MaxChanges /\ UNCHANGED poolLimit
    BY <1>6 DEF LaunchAll, DequeueAll, BeginReset
  <2>4. taskCancel' \subseteq Jobs /\ taskHosted' \subseteq Jobs /\ UNCHANGED owner
    BY <1>6 DEF LaunchAll, DequeueAll, BeginReset, DeleteQueued
  <2>5. QED
    BY <2>1, <2>2, <2>3, <2>4
<1>7. CASE ResetDrained \/ JoinThread \/ OwnerLeaves \/ OwnerGone
  BY <1>7 DEF ResetDrained, JoinThread, OwnerLeaves, OwnerGone
<1>8. CASE UNCHANGED poolVars
  BY <1>8 DEF poolVars
<1>9. QED
  BY <1>1, <1>2, <1>3, <1>4, <1>5, <1>6, <1>7, <1>8 DEF PoolNext

LEMMA ListsStep ==
    ASSUME PoolInv, PoolInv', Lists, [PoolNext]_poolVars
    PROVE  Lists'
<1>1. CASE \E jobs \in SUBSET Jobs : Enqueue(jobs)
  BY <1>1, LaunchLists DEF Enqueue
<1>2. CASE \E t \in Threads : WorkerStep(t)
  BY <1>2, LookLists, RejoinLists, FreedLists DEF WorkerStep
<1>3. CASE JoinThread
  BY <1>3, JoinLists
<1>4. CASE UNCHANGED <<poolThread, poolFree, poolLow>>
  BY <1>4, SameLists
<1>5. CASE \E limit \in Limits : SetLimit(limit)
  BY <1>5, SameLists DEF SetLimit
<1>6. CASE \E j \in Jobs : RunStep(j)
  BY <1>6, SameLists DEF RunStep, RunTask, RunBare, PreExecute, Executed, DeleteTask, poolOnly
<1>7. CASE \E j \in Tasks : Dequeue(j) \/ MakeTask(j) \/ RequestCancellation(j)
  BY <1>7, SameLists DEF Dequeue, MakeTask, RequestCancellation, poolOnly
<1>8. CASE LaunchAll \/ DequeueAll \/ BeginReset \/ ResetDrained \/ OwnerLeaves \/ OwnerGone
  BY <1>8, SameLists DEF LaunchAll, DequeueAll, BeginReset, ResetDrained, OwnerLeaves, OwnerGone,
     poolOnly
<1>9. CASE UNCHANGED poolVars
  BY <1>9, SameLists DEF poolVars
<1>10. QED
  BY <1>1, <1>2, <1>3, <1>5, <1>6, <1>7, <1>8, <1>9 DEF PoolNext

LEMMA SeenStep ==
    ASSUME ThreadsInv, Lists', [PoolNext]_poolVars
    PROVE  WorkIsSeen'
<1> SUFFICES ASSUME poolQueue' # {}, poolReset' = "never"
             PROVE  SomebodyLooks'
  BY DEF WorkIsSeen, SomebodyLooks, Awake, Asleep
<1> USE DEF ThreadsInv
<1>1. CASE \E jobs \in SUBSET Jobs : Enqueue(jobs)
  BY <1>1, LaunchWakes DEF Enqueue, OtherTypes
<1>2. CASE \E t \in Threads : Look(t)
  BY <1>2, LookSees DEF OtherTypes
<1>3. CASE \E t \in Threads : Rejoin(t) \/ Freed(t)
  BY <1>3 DEF Rejoin, Freed, Idle, Lists, ThreadType, SomebodyLooks, Awake
<1>4. CASE poolQueue # {} /\ poolReset = "never" /\ UNCHANGED poolThread
  BY <1>4, SeenMeans DEF SomebodyLooks, Awake
<1>5. CASE \E limit \in Limits : SetLimit(limit)
  BY <1>4, <1>5 DEF SetLimit
<1>6. CASE \E j \in Jobs : RunStep(j)
  BY <1>4, <1>6 DEF RunStep, RunTask, RunBare, PreExecute, Executed, DeleteTask, poolOnly
<1>7. CASE \E j \in Tasks : Dequeue(j) \/ MakeTask(j) \/ RequestCancellation(j)
  BY <1>4, <1>7 DEF Dequeue, MakeTask, RequestCancellation, poolOnly
<1>8. CASE LaunchAll \/ DequeueAll \/ BeginReset \/ ResetDrained \/ OwnerLeaves \/ OwnerGone
  BY <1>4, <1>8 DEF LaunchAll, DequeueAll, BeginReset, DeleteQueued, ResetDrained, OwnerLeaves,
     OwnerGone, poolOnly
<1>9. CASE JoinThread
  BY <1>9 DEF JoinThread
<1>10. CASE UNCHANGED poolVars
  BY <1>4, <1>10 DEF poolVars
<1>11. QED
  BY <1>1, <1>2, <1>3, <1>5, <1>6, <1>7, <1>8, <1>9, <1>10 DEF PoolNext, WorkerStep

LEMMA ThreadsInit == PoolInit => ThreadsInv
<1> SUFFICES ASSUME PoolInit PROVE ThreadsInv
  OBVIOUS
<1>1. OtherTypes
  <2>1. poolLimit \in Limits /\ poolChanges \in 0..MaxChanges
    BY PoolLimitsAssumption DEF PoolInit
  <2>2. poolRelaunch \in BOOLEAN
    BY DEF PoolInit
  <2>3. /\ poolHung = "no" /\ poolReset = "never" /\ owner = "alive"
        /\ taskCancel = {} /\ taskHosted = {}
    BY DEF PoolInit
  <2>4. QED
    BY <2>1, <2>2, <2>3 DEF OtherTypes
<1>2. Lists
  <2>1. poolFree = <<>> /\ poolLow = <<>> /\ poolThread = [t \in Threads |-> Idle("none")]
    BY DEF PoolInit
  <2>2. Elements(<<>>) = {} /\ Single(<<>>)
    BY DEF Elements, Single
  <2>3. <<>> \in Seq(Threads)
    OBVIOUS
  <2>4. poolThread \in [Threads -> ThreadType]
    BY <2>1 DEF ThreadType, Idle
  <2>5. \A t \in Threads : poolThread[t].pc = "none"
    BY <2>1 DEF Idle
  <2>6. QED
    BY <2>1, <2>2, <2>3, <2>4, <2>5 DEF Lists
<1>3. WorkIsSeen
  BY DEF PoolInit, WorkIsSeen
<1>4. QED
  BY <1>1, <1>2, <1>3, PoolInitInv DEF ThreadsInv

\* A list without repetitions counts each of its threads once.
LEMMA ListingsOfSingle ==
    ASSUME NEW s, Single(s), NEW t
    PROVE  Listings(s, t) = IF t \in Elements(s) THEN 1 ELSE 0
<1>1. CASE t \notin Elements(s)
  <2>1. {i \in DOMAIN s : s[i] = t} = {}
    BY <1>1 DEF Elements
  <2>2. QED
    BY <1>1, <2>1, FS_EmptySet DEF Listings
<1>2. CASE t \in Elements(s)
  <2>1. PICK i \in DOMAIN s : s[i] = t
    BY <1>2 DEF Elements
  <2>2. {k \in DOMAIN s : s[k] = t} = {i}
    BY <2>1 DEF Single
  <2>3. QED
    BY <1>2, <2>2, FS_Singleton DEF Listings
<1>3. QED
  BY <1>1, <1>2

LEMMA ThreadsInvTypes == ThreadsInv => PoolTypeOK
<1> SUFFICES ASSUME ThreadsInv PROVE PoolTypeOK
  OBVIOUS
<1>1. \A t \in Threads : Listings(poolFree, t) + Listings(poolLow, t) =
                            IF poolThread[t].pc \in {"none", "run"} THEN 0 ELSE 1
  <2> TAKE t \in Threads
  <2>1. poolThread[t].pc \in {"none", "look", "asleep", "limited", "rejoin", "run"}
    BY DEF ThreadsInv, Lists, ThreadType
  <2>2. Listings(poolFree, t) = IF poolThread[t].pc \in {"look", "asleep"} THEN 1 ELSE 0
    BY ListingsOfSingle DEF ThreadsInv, Lists
  <2>3. Listings(poolLow, t) = IF poolThread[t].pc \in {"limited", "rejoin"} THEN 1 ELSE 0
    BY ListingsOfSingle DEF ThreadsInv, Lists
  <2>4. QED
    BY <2>1, <2>2, <2>3
<1>2. QED
  BY <1>1 DEF PoolTypeOK, ThreadsInv, PoolInv, PoolTypes, OtherTypes, Lists, ThreadType, Steps

-----------------------------------------------------------------------------
\* The inductive invariant holds of every pool: any threads, jobs and limits, and
\* whatever its users call.
THEOREM PoolInvariance == PoolSpec => []PoolInv
<1>1. PoolInit => PoolInv
  BY PoolInitInv
<1>2. PoolInv /\ [PoolNext]_poolVars => PoolInv'
  BY PoolNextInv
<1>3. QED
  BY <1>1, <1>2, PTL DEF PoolSpec

\* The pool with its threads, limits, withdrawals and reset implements JobService:
\* a job leaves the queue only to one thread or to who withdrew it, and a thread lets
\* it go only when the job has been run and deleted. So no job is lost on the way.
THEOREM PoolRefines == PoolSpec => PoolIsService
<1>1. PoolInit => Service!ServiceInit
  BY PoolInitInv
<1>2. PoolInv /\ [PoolNext]_poolVars => StatusStep
  BY PoolNextInv
<1>3. QED
  BY <1>1, <1>2, PoolInvariance, PTL DEF PoolSpec, PoolIsService, Service!ServiceSpec,
     StatusStep, status

\* No task executes, and so uses its owner, once the destructor of the owner's
\* task host has let it go: tasks made, dequeued and cancelled meanwhile included.
THEOREM OwnerIsSafe == PoolSpec => []OwnerOutlivesTasks
<1>1. PoolInv => OwnerOutlivesTasks
  BY PoolNamesAssumption DEF PoolInv, Owned, OwnerOutlivesTasks
<1>2. QED
  BY <1>1, PoolInvariance, PTL

\* The invariant of the threads: their lists, and that work in the queue is seen.
THEOREM ThreadsInvariance == PoolSpec => []ThreadsInv
<1>1. PoolInit => ThreadsInv
  BY ThreadsInit
<1>2. ThreadsInv /\ [PoolNext]_poolVars => ThreadsInv'
  <2> SUFFICES ASSUME ThreadsInv, [PoolNext]_poolVars PROVE ThreadsInv'
    OBVIOUS
  <2>1. PoolInv'
    BY PoolNextInv DEF ThreadsInv
  <2>2. OtherTypes' /\ Lists'
    BY <2>1, OtherTypesStep, ListsStep DEF ThreadsInv
  <2>3. WorkIsSeen'
    BY <2>2, SeenStep
  <2>4. QED
    BY <2>1, <2>2, <2>3 DEF ThreadsInv
<1>3. QED
  BY <1>1, <1>2, PTL DEF PoolSpec

\* Types, and that a thread is in exactly one of the pool's lists unless it runs a
\* task or does not exist: whoever wakes, whatever limit is set, and in a reset.
THEOREM PoolTypesAreOK == PoolSpec => []PoolTypeOK
BY ThreadsInvariance, ThreadsInvTypes, PTL

\* Until the pool is reset, a runnable in its queue is seen: a thread is awake that
\* will look at the queue again, for any number of threads and any limits.
THEOREM QueuedWorkIsSeen == PoolSpec => []WorkIsSeen
<1>1. ThreadsInv => WorkIsSeen
  BY DEF ThreadsInv
<1>2. QED
  BY <1>1, ThreadsInvariance, PTL
=============================================================================
