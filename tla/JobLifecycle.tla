---------------------------- MODULE JobLifecycle ----------------------------
(***************************************************************************)
(* What the job queue promises about one job, whoever runs it: a job waits *)
(* in the queue, is held by at most one worker while it runs, ends with    *)
(* one verdict and may then be forgotten.  A worker may abandon the job it *)
(* holds (a crash); the job stays `running' until a requeue puts it back,  *)
(* and a requeue happens only while no worker holds anything.              *)
(***************************************************************************)
CONSTANTS Jobs, Workers, NoJob

VARIABLES status, held

lifeVars == <<status, held>>

LifeTypeOK ==
    /\ status \in [Jobs -> {"new", "pending", "running", "done", "failed", "purged"}]
    /\ held   \in [Workers -> Jobs \cup {NoJob}]

LifeInit ==
    /\ status = [j \in Jobs |-> "new"]
    /\ held   = [w \in Workers |-> NoJob]

Enqueue(j) ==
    /\ status[j] = "new"
    /\ status' = [status EXCEPT ![j] = "pending"]
    /\ UNCHANGED held

Take(w, j) ==
    /\ held[w] = NoJob
    /\ status[j] = "pending"
    /\ status' = [status EXCEPT ![j] = "running"]
    /\ held'   = [held EXCEPT ![w] = j]

Finish(w, verdict) ==
    /\ held[w] # NoJob
    /\ status' = [status EXCEPT ![held[w]] = verdict]
    /\ held'   = [held EXCEPT ![w] = NoJob]

\* A job that still waits is cancelled without a worker.
Withdraw(j) ==
    /\ status[j] = "pending"
    /\ status' = [status EXCEPT ![j] = "failed"]
    /\ UNCHANGED held

Abandon(dead) ==
    /\ held' = [w \in Workers |-> IF w \in dead THEN NoJob ELSE held[w]]
    /\ UNCHANGED status

Requeue ==
    /\ \A w \in Workers : held[w] = NoJob
    /\ status' = [j \in Jobs |-> IF status[j] = "running" THEN "pending" ELSE status[j]]
    /\ UNCHANGED held

Forget(old) ==
    /\ \A j \in old : status[j] \in {"done", "failed"}
    /\ status' = [j \in Jobs |-> IF j \in old THEN "purged" ELSE status[j]]
    /\ UNCHANGED held

LifeNext ==
    \/ \E j \in Jobs : Enqueue(j) \/ Withdraw(j)
    \/ \E w \in Workers, j \in Jobs : Take(w, j)
    \/ \E w \in Workers, v \in {"done", "failed"} : Finish(w, v)
    \/ \E dead \in SUBSET Workers : Abandon(dead)
    \/ Requeue
    \/ \E old \in SUBSET Jobs : Forget(old)

LifeSpec == LifeInit /\ [][LifeNext]_lifeVars

\* A held job is running, and held once.
HeldOnce ==
    \A w \in Workers : held[w] # NoJob =>
        /\ status[held[w]] = "running"
        /\ \A v \in Workers \ {w} : held[v] # held[w]
=============================================================================
