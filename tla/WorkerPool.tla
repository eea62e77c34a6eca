------------------------------- MODULE WorkerPool -------------------------------
(* Concurrent::WorkerPool with the tasks it runs (Task, HostedTask) and the    *)
(* host that keeps their owner alive (TaskHost).                               *)
(*                                                                             *)
(* Every method of the pool, and each half of a worker's loop, is one critical *)
(* section of the pool's mutex: an action. A task runs outside of it, step by  *)
(* step. The order of the queue is abstracted: Order::Random may take any      *)
(* runnable, and a sort predicate may put any of them first.                   *)
EXTENDS Naturals, Sequences, FiniteSets

CONSTANTS
    Threads,    \* identities of worker threads
    Jobs,       \* identities of runnables, each handed to the pool once
    Tasks,      \* those of them that are HostedTasks, the others being bare QRunnables
    Limits,     \* values setMaxThreadCount() may be given, 0 is "no limit"
    MaxChanges, \* bound on the calls of setMaxThreadCount() and reset()
    NoJob

ASSUME PoolLimitsAssumption == Limits \subseteq Nat /\ MaxChanges \in Nat
ASSUME PoolNamesAssumption == NoJob \notin Jobs /\ Tasks \subseteq Jobs

VARIABLES
    poolLimit,   \* _maxThreadCount
    poolQueue,   \* _queue
    poolFree,    \* _freeThreads
    poolLow,     \* _inactiveThreads
    poolThread,  \* [Threads -> what the worker does and the runnable it holds]
    poolHung,    \* the mutex is never released again: "spin", or "crash"
    poolReset,   \* progress of reset()
    poolRelaunch,\* setMaxThreadCount() has stored a limit and waits for the mutex
    poolChanges, \* calls of setMaxThreadCount() and reset() left
    taskAt,      \* [Jobs -> the step of the runnable's life]
    taskCancel,  \* tasks whose cancellation was requested
    taskHosted,  \* _hostedTasks
    owner,       \* "alive", "leaving" (onOwnerIsBeingDestructed) or "gone"
    poolWithdrawn\* auxiliary: runnables dequeue(), dequeueAll() and reset() took out

poolVars == <<poolLimit, poolQueue, poolFree, poolLow, poolThread, poolHung, poolReset,
              poolRelaunch, poolChanges, taskAt, taskCancel, taskHosted, owner, poolWithdrawn>>
taskVars == <<taskAt, taskCancel, taskHosted, owner, poolWithdrawn>>
limitVars == <<poolLimit, poolRelaunch, poolChanges>>

Elements(s) == {s[i] : i \in DOMAIN s}
FirstOf(s, x) == CHOOSE i \in DOMAIN s : s[i] = x /\ \A k \in 1..(i - 1) : s[k] # x
Without(s, x) ==
    IF x \in Elements(s)
    THEN [i \in 1..(Len(s) - 1) |-> IF i < FirstOf(s, x) THEN s[i] ELSE s[i + 1]]
    ELSE s
Idle(pc) == [pc |-> pc, job |-> NoJob]

AllThreads == {t \in Threads : poolThread[t].pc # "none"}
Active == AllThreads \ (Elements(poolFree) \cup Elements(poolLow))
TooMany(limit) == limit > 0 /\ Cardinality(Active) >= limit
Asleep(t) == poolThread[t].pc \in {"asleep", "limited"}
MutexFree == poolHung = "no"

PoolInit ==
    /\ poolLimit \in Limits
    /\ poolQueue = {} /\ poolFree = <<>> /\ poolLow = <<>>
    /\ poolThread = [t \in Threads |-> Idle("none")]
    /\ poolHung = "no" /\ poolReset = "never"
    /\ poolRelaunch = FALSE /\ poolChanges = MaxChanges
    /\ taskAt = [j \in Jobs |-> IF j \in Tasks THEN "none" ELSE "made"]
    /\ taskCancel = {} /\ taskHosted = {} /\ owner = "alive" /\ poolWithdrawn = {}

-----------------------------------------------------------------------------
(* The pool's methods.                                                         *)

\* wakeOne() on a thread that does not wait is lost.
Woken(t) == [poolThread EXCEPT ![t].pc =
               CASE @ = "asleep" -> "look" [] @ = "limited" -> "rejoin" [] OTHER -> @]

\* createNewThread(): the new thread counts as free until it has taken a runnable.
CreateThread ==
    \E t \in Threads \ AllThreads :
        /\ poolThread' = [poolThread EXCEPT ![t] = Idle("look")]
        /\ poolFree' = Append(poolFree, t)

\* tryLaunchNextRunnable()
\* A faulty variant: a thread that sleeps beyond the limit is not looked for.
LaunchNextForgetsInactive ==
    IF AllThreads # {} /\ TooMany(poolLimit) THEN UNCHANGED <<poolThread, poolFree>>
    ELSE IF poolFree # <<>> THEN poolThread' = Woken(Head(poolFree)) /\ UNCHANGED poolFree
    ELSE UNCHANGED <<poolThread, poolFree>>
LaunchNext ==
    IF AllThreads # {} /\ TooMany(poolLimit) THEN UNCHANGED <<poolThread, poolFree>>
    ELSE IF poolFree # <<>> THEN poolThread' = Woken(Head(poolFree)) /\ UNCHANGED poolFree
    ELSE IF poolLow # <<>> THEN poolThread' = Woken(Head(poolLow)) /\ UNCHANGED poolFree
    ELSE CreateThread

\* enqueue(): one runnable or a vector of them, and one attempt to launch.
Enqueue(jobs) ==
    /\ MutexFree /\ jobs # {} /\ \A j \in jobs : taskAt[j] = "made"
    /\ poolQueue' = poolQueue \cup jobs
    /\ taskAt' = [j \in Jobs |-> IF j \in jobs THEN "queued" ELSE taskAt[j]]
    /\ LaunchNext
    /\ UNCHANGED <<limitVars, poolLow, poolHung, poolReset, taskCancel, taskHosted, owner,
                   poolWithdrawn>>

\* dequeue(): who takes a task back runs it, so that it reports its end.
Dequeue(j) ==
    /\ MutexFree /\ j \in poolQueue
    /\ poolQueue' = poolQueue \ {j}
    /\ taskAt' = [taskAt EXCEPT ![j] = "start"]
    /\ poolWithdrawn' = poolWithdrawn \cup {j}
    /\ UNCHANGED <<limitVars, poolFree, poolLow, poolThread, poolHung, poolReset,
                   taskCancel, taskHosted, owner>>

\* The queued runnables are deleted, and ~HostedTask() takes them from their host.
DeleteQueued ==
    /\ poolQueue' = {}
    /\ taskAt' = [j \in Jobs |-> IF j \in poolQueue THEN "deleted" ELSE taskAt[j]]
    /\ taskHosted' = taskHosted \ poolQueue
    /\ poolWithdrawn' = poolWithdrawn \cup poolQueue

DequeueAll ==
    /\ MutexFree /\ poolQueue # {}
    /\ DeleteQueued
    /\ UNCHANGED <<limitVars, poolFree, poolLow, poolThread, poolHung, poolReset,
                   taskCancel, owner>>

\* setMaxThreadCount() stores the limit before it takes the mutex. A limit raised,
\* or kept, starts nothing.
SetLimit(limit) ==
    /\ ~poolRelaunch /\ poolChanges > 0
    /\ poolLimit' = limit
    /\ poolRelaunch' = (limit = 0 \/ poolLimit > limit)
    /\ poolChanges' = poolChanges - 1
    /\ UNCHANGED <<poolQueue, poolFree, poolLow, poolThread, poolReset, poolHung>>
    /\ UNCHANGED taskVars

\* tryLaunchNextRunnables() repeats an attempt that changes nothing more once a
\* thread is free, and the threads it wakes need the mutex to empty the queue.
LaunchAll ==
    /\ MutexFree /\ poolRelaunch
    /\ poolRelaunch' = FALSE
    /\ poolHung' = IF poolQueue # {} /\ ~TooMany(poolLimit) THEN "spin" ELSE "no"
    /\ UNCHANGED <<poolLimit, poolChanges, poolQueue, poolFree, poolLow, poolThread,
                   poolReset>>
    /\ UNCHANGED taskVars

\* reset(): delete what is queued, wait until no thread is active, then wake and
\* join the free threads one by one, head() of an empty list being undefined.
BeginReset ==
    /\ MutexFree /\ poolReset = "never" /\ poolChanges > 0
    /\ poolReset' = "drain"
    /\ poolChanges' = poolChanges - 1
    /\ DeleteQueued
    /\ UNCHANGED <<poolRelaunch, poolLimit, poolFree, poolLow, poolThread, poolHung,
                   taskCancel, owner>>

ResetDrained ==
    /\ MutexFree /\ poolReset = "drain" /\ Active = {} /\ poolQueue = {}
    /\ poolReset' = "join"
    /\ UNCHANGED <<limitVars, poolQueue, poolFree, poolLow, poolThread, poolHung>>
    /\ UNCHANGED taskVars

JoinThread ==
    /\ MutexFree /\ poolReset = "join"
    /\ \/ /\ AllThreads = {} /\ poolReset' = "done"
          /\ UNCHANGED <<poolThread, poolHung>>
       \/ /\ poolFree # <<>> /\ poolThread' = Woken(Head(poolFree))
          /\ UNCHANGED <<poolReset, poolHung>>
       \/ /\ AllThreads # {} /\ poolFree = <<>> /\ poolHung' = "crash"
          /\ UNCHANGED <<poolReset, poolThread>>
    /\ UNCHANGED <<limitVars, poolQueue, poolFree, poolLow>>
    /\ UNCHANGED taskVars

-----------------------------------------------------------------------------
(* WorkerThread::run().                                                        *)

\* A faulty variant: the thread sleeps although there is a runnable.
LookSleepy(t) ==
    /\ MutexFree /\ poolThread[t].pc = "look"
    /\ poolThread' = [poolThread EXCEPT ![t] = Idle("asleep")]
    /\ UNCHANGED <<limitVars, poolQueue, poolFree, poolLow, poolHung, poolReset>>
    /\ UNCHANGED taskVars
\* A faulty variant: the thread takes a runnable off the queue and sleeps, beyond the
\* limit, without having run it.
LookDrops(t) ==
    /\ MutexFree /\ poolThread[t].pc = "look"
    /\ \E j \in poolQueue : poolQueue' = poolQueue \ {j}
    /\ poolFree' = Without(poolFree, t) /\ poolLow' = Append(poolLow, t)
    /\ poolThread' = [poolThread EXCEPT ![t] = Idle("limited")]
    /\ UNCHANGED <<limitVars, poolHung, poolReset>>
    /\ UNCHANGED taskVars
\* The first critical section: leave (reset), sleep as inactive beyond the limit,
\* take a runnable, or sleep until there is one.
Look(t) ==
    /\ MutexFree /\ poolThread[t].pc = "look"
    /\ \/ /\ poolReset = "join"
          /\ poolFree' = Without(poolFree, t)
          /\ poolThread' = [poolThread EXCEPT ![t] = Idle("none")]
          /\ UNCHANGED <<poolQueue, poolLow, taskAt>>
       \/ /\ poolReset # "join" /\ TooMany(poolLimit)
          /\ poolFree' = Without(poolFree, t) /\ poolLow' = Append(poolLow, t)
          /\ poolThread' = [poolThread EXCEPT ![t] = Idle("limited")]
          /\ UNCHANGED <<poolQueue, taskAt>>
       \/ /\ poolReset # "join" /\ ~TooMany(poolLimit)
          /\ \E j \in poolQueue :
               /\ poolQueue' = poolQueue \ {j}
               /\ poolFree' = Without(poolFree, t)
               /\ poolThread' = [poolThread EXCEPT ![t] = [pc |-> "run", job |-> j]]
               /\ taskAt' = [taskAt EXCEPT ![j] = "start"]
          /\ UNCHANGED poolLow
       \/ /\ poolReset # "join" /\ ~TooMany(poolLimit) /\ poolQueue = {}
          /\ poolThread' = [poolThread EXCEPT ![t] = Idle("asleep")]
          /\ UNCHANGED <<poolQueue, poolFree, poolLow, taskAt>>
    /\ UNCHANGED <<limitVars, poolHung, poolReset, taskCancel, taskHosted, owner, poolWithdrawn>>

\* An inactive thread was woken.
\* A faulty variant: it stays in the list of inactive threads.
RejoinKeepsLow(t) ==
    /\ MutexFree /\ poolThread[t].pc = "rejoin"
    /\ poolFree' = Append(poolFree, t)
    /\ poolThread' = [poolThread EXCEPT ![t].pc = "look"]
    /\ UNCHANGED <<limitVars, poolQueue, poolLow, poolHung, poolReset>>
    /\ UNCHANGED taskVars
Rejoin(t) ==
    /\ MutexFree /\ poolThread[t].pc = "rejoin"
    /\ poolLow' = Without(poolLow, t) /\ poolFree' = Append(poolFree, t)
    /\ poolThread' = [poolThread EXCEPT ![t].pc = "look"]
    /\ UNCHANGED <<limitVars, poolQueue, poolHung, poolReset>>
    /\ UNCHANGED taskVars

\* The second critical section: the runnable has run and is deleted.
Freed(t) ==
    /\ MutexFree /\ poolThread[t].pc = "run" /\ taskAt[poolThread[t].job] = "deleted"
    /\ poolFree' = Append(poolFree, t)
    /\ poolThread' = [poolThread EXCEPT ![t] = Idle("look")]
    /\ UNCHANGED <<limitVars, poolQueue, poolLow, poolHung, poolReset>>
    /\ UNCHANGED taskVars

-----------------------------------------------------------------------------
(* Tasks and their host. _hostedTasksLock makes the constructor, the           *)
(* destructor and the beginning of onOwnerIsBeingDestructed() atomic.          *)

Step(j, pc) == taskAt' = [taskAt EXCEPT ![j] = pc]
poolOnly == <<limitVars, poolQueue, poolFree, poolLow, poolThread, poolHung, poolReset,
              poolWithdrawn>>

\* HostedTask(): a task whose owner is leaving is born cancelled and not hosted.
MakeTask(j) ==
    /\ taskAt[j] = "none" /\ Step(j, "made")
    /\ IF owner = "alive" THEN taskHosted' = taskHosted \cup {j} /\ UNCHANGED taskCancel
                          ELSE taskCancel' = taskCancel \cup {j} /\ UNCHANGED taskHosted
    /\ UNCHANGED owner /\ UNCHANGED poolOnly

\* Task::requestCancellation(), by whoever holds the task or its Cancellator.
RequestCancellation(j) ==
    /\ taskAt[j] \notin {"none", "deleted"}
    /\ taskCancel' = taskCancel \cup {j}
    /\ UNCHANGED <<taskAt, taskHosted, owner>> /\ UNCHANGED poolOnly

\* HostedTask::run() asks its host first.
RunTask(j) ==
    /\ j \in Tasks /\ taskAt[j] = "start" /\ Step(j, "pre")
    /\ taskCancel' = IF owner = "alive" THEN taskCancel ELSE taskCancel \cup {j}
    /\ UNCHANGED <<taskHosted, owner>> /\ UNCHANGED poolOnly

\* A bare QRunnable runs and is deleted.
RunBare(j) ==
    /\ j \in Jobs \ Tasks /\ taskAt[j] = "start" /\ Step(j, "deleted")
    /\ UNCHANGED <<taskCancel, taskHosted, owner>> /\ UNCHANGED poolOnly

\* Task::run(): the task may cancel itself in its pre-execute functor; it executes
\* only if nobody has asked it not to; its post-execute functor is always called.
PreExecute(j) ==
    /\ taskAt[j] = "pre"
    /\ \E next \in {"execute", "post"} : (next = "execute" => j \notin taskCancel) /\ Step(j, next)
    /\ UNCHANGED <<taskCancel, taskHosted, owner>> /\ UNCHANGED poolOnly
Executed(j) ==
    /\ taskAt[j] = "execute" /\ Step(j, "post")
    /\ UNCHANGED <<taskCancel, taskHosted, owner>> /\ UNCHANGED poolOnly
\* ~HostedTask()
DeleteTask(j) ==
    /\ taskAt[j] = "post" /\ Step(j, "deleted")
    /\ taskHosted' = taskHosted \ {j}
    /\ UNCHANGED <<taskCancel, owner>> /\ UNCHANGED poolOnly

\* onOwnerIsBeingDestructed()
OwnerLeaves ==
    /\ owner = "alive" /\ owner' = "leaving"
    /\ taskCancel' = taskCancel \cup taskHosted
    /\ UNCHANGED <<taskAt, taskHosted>> /\ UNCHANGED poolOnly
\* A faulty variant: the tasks are asked to cancel, and not waited for.
OwnerGoneAtOnce ==
    /\ owner = "leaving" /\ owner' = "gone"
    /\ UNCHANGED <<taskAt, taskCancel, taskHosted>> /\ UNCHANGED poolOnly
OwnerGone ==
    /\ owner = "leaving" /\ taskHosted = {} /\ owner' = "gone"
    /\ UNCHANGED <<taskAt, taskCancel, taskHosted>> /\ UNCHANGED poolOnly

WorkerStep(t) == Look(t) \/ Rejoin(t) \/ Freed(t)
RunStep(j) == RunTask(j) \/ RunBare(j) \/ PreExecute(j) \/ Executed(j) \/ DeleteTask(j)

PoolNext ==
    \/ \E jobs \in SUBSET Jobs : Enqueue(jobs)
    \/ \E limit \in Limits : SetLimit(limit)
    \/ \E j \in Jobs : RunStep(j)
    \/ \E j \in Tasks : Dequeue(j) \/ MakeTask(j) \/ RequestCancellation(j)
    \/ \E t \in Threads : WorkerStep(t)
    \/ LaunchAll \/ DequeueAll \/ BeginReset \/ ResetDrained \/ JoinThread
    \/ OwnerLeaves \/ OwnerGone

\* Threads and tasks make progress, the owner's destructor polls, and who makes a
\* task enqueues it. Nobody must cancel, reset or change limits.
PoolFairness ==
    /\ \A t \in Threads : WF_poolVars(WorkerStep(t))
    /\ \A j \in Jobs : WF_poolVars(RunStep(j))
    /\ \A j \in Tasks : WF_poolVars(Enqueue({j}))
    /\ WF_poolVars(OwnerGone)

PoolSpec == PoolInit /\ [][PoolNext]_poolVars /\ PoolFairness

-----------------------------------------------------------------------------
\* Types, and that a thread that does not run a task is in one of the two lists,
\* once (the two lists of WorkerPool_P.cpp:253-319).
Listings(s, t) == Cardinality({i \in DOMAIN s : s[i] = t})
PoolTypeOK ==
    /\ \A t \in Threads : Listings(poolFree, t) + Listings(poolLow, t) =
                            IF poolThread[t].pc \in {"none", "run"} THEN 0 ELSE 1
    /\ poolLimit \in Limits /\ poolQueue \subseteq Jobs /\ poolChanges \in 0..MaxChanges
    /\ poolFree \in Seq(Threads) /\ poolLow \in Seq(Threads)
    /\ poolThread \in [Threads -> [pc : {"none", "look", "asleep", "limited", "rejoin", "run"},
                                   job : Jobs \cup {NoJob}]]
    /\ poolHung \in {"no", "spin", "crash"} /\ poolRelaunch \in BOOLEAN
    /\ poolReset \in {"never", "drain", "join", "done"}
    /\ taskAt \in [Jobs -> {"none", "made", "queued", "start", "pre", "execute",
                            "post", "deleted"}]
    /\ taskCancel \subseteq Jobs /\ taskHosted \subseteq Jobs /\ poolWithdrawn \subseteq Jobs
    /\ owner \in {"alive", "leaving", "gone"}

\* A queued runnable is never left to threads that all sleep. Each wake-up goes to
\* the head of a list and is lost if that thread is awake, so it is not evident
\* that some thread will look at the queue again (WorkerPool_P.cpp:155-182).
WorkIsSeen ==
    poolQueue # {} /\ poolReset = "never" => \E t \in Threads : poolThread[t].pc # "none" /\ ~Asleep(t)

\* TaskHost: no task executes its functor, which uses the owner, once the owner's
\* destructor has been let through (TaskHost.cpp:15-29, HostedTask.cpp:3-47).
OwnerOutlivesTasks == owner = "gone" => \A j \in Jobs : taskAt[j] # "execute"

\* The pool refines JobService: whatever limits, resets and withdrawals do, a task
\* leaves the queue only to one runner, or to who withdrew it, and the runner lets it
\* go only when it has been run and deleted. A task that nobody has any more, and
\* that was neither withdrawn nor run to its end, is "lost", which is no status of
\* the service (WorkerPool_P.cpp:61-128, 263-321).
Holders(j) == {t \in Threads : poolThread[t].job = j}
Unrun == {"none", "made", "queued"}
JobStatus(j) ==
    LET runners == Cardinality(Holders(j)) IN
    CASE taskAt[j] \in {"none", "made"} /\ j \notin poolQueue /\ runners = 0 -> "outside"
      [] taskAt[j] = "queued" /\ j \in poolQueue /\ runners = 0 -> "waiting"
      [] taskAt[j] \notin Unrun /\ j \notin poolQueue \cup poolWithdrawn /\ runners = 1 -> "running"
      [] taskAt[j] = "deleted" /\ j \notin poolQueue \cup poolWithdrawn /\ runners = 0 -> "ended"
      [] taskAt[j] \notin Unrun /\ j \in poolWithdrawn \ poolQueue /\ runners = 0 -> "withdrawn"
      [] OTHER -> "lost"
Service == INSTANCE JobService WITH status <- [j \in Jobs |-> JobStatus(j)]
PoolIsService == Service!ServiceSpec

\* A destructor that waits for its tasks returns, unless the pool hangs or is reset
\* under it: dequeued, cancelled and deleted tasks all leave the host
\* (TaskHost.cpp:26-28).
OwnerGetsAway == owner = "leaving" ~> (owner = "gone" \/ poolHung # "no" \/ poolReset # "never")
=============================================================================
