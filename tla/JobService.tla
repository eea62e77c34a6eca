------------------------------- MODULE JobService -------------------------------
(* What a pool of workers promises of the jobs handed to it: a job is handed   *)
(* in once, waits, and then is either withdrawn unstarted by its users or runs  *)
(* on exactly one runner, once, to its end. Only a job that ran has ended.      *)
(* Nothing is said of threads, queues or limits.                               *)
CONSTANT Jobs
VARIABLE status
Statuses == {"outside", "waiting", "running", "withdrawn", "ended"}

ServiceInit == status = [j \in Jobs |-> "outside"]

\* Several jobs may be handed in, or withdrawn, at once.
Move(jobs, from, to) ==
    /\ jobs # {} /\ \A j \in jobs : status[j] = from
    /\ status' = [j \in Jobs |-> IF j \in jobs THEN to ELSE status[j]]
Submit(jobs) == Move(jobs, "outside", "waiting")
Withdraw(jobs) == Move(jobs, "waiting", "withdrawn")
Begin(j)  == status[j] = "waiting" /\ status' = [status EXCEPT ![j] = "running"]
End(j)    == status[j] = "running" /\ status' = [status EXCEPT ![j] = "ended"]

ServiceNext ==
    \/ \E j \in Jobs : Begin(j) \/ End(j)
    \/ \E jobs \in SUBSET Jobs : Submit(jobs) \/ Withdraw(jobs)

ServiceSpec == ServiceInit /\ [][ServiceNext]_status
=============================================================================
