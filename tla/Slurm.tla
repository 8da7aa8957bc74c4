-------------------------------- MODULE Slurm --------------------------------
(***************************************************************************)
(* The batch job around the driver: the script src/slurm/quiverlab.sbatch, *)
(* the command `quiverlab-hpc run' and the loop over the items of the      *)
(* request (src/src/quiverlab/hpc/{cli,spec,deepen_runner}.py).            *)
(*                                                                         *)
(* One item, Deep, is computed by deepen; a checkpoint stop inside it      *)
(* discards the blocks of the other items and is exit 75, which requeues   *)
(* the job under its id.  Any other exit ends the job.  The script names   *)
(* the checkpoint directory after the job id, so that a submission by hand *)
(* has a directory of its own.  SIGUSR1, sent before the wall-clock limit, *)
(* is forwarded to the computation; nothing in the package handles it and  *)
(* the computation dies of it.  A failed node is SLURM's to requeue; it    *)
(* may tear the checkpoint that was being saved.                           *)
(*                                                                         *)
(* A process of Checkpoint is the computation of the job of that id.       *)
(***************************************************************************)
EXTENDS Checkpoint, Sequences, SequencesExt

CONSTANTS Items,        \* the kinds of the request, in its order
          Deep,         \* the kind that deepen serves
          MaxFailures   \* bound on node failures

ASSUME SlurmAssumption ==
    /\ \A r, q \in Runs : DirOf[r] = DirOf[q] => r = q
    /\ Items \in Seq(ToSet(Items)) /\ IsInjective(Items) /\ Deep \in ToSet(Items)
    /\ MaxFailures \in Nat

VARIABLES job,        \* the state of each job id
          status,     \* how it ended
          step,       \* the item it is at
          blocks,     \* the kinds its computation has a block for
          dims,       \* how many of its dimensions are those of the resolution
          result,     \* the result file
          failures    \* node failures so far

slurmVars == <<job, status, step, blocks, dims, result, failures>>
vars      == <<fileVars, runVars, slurmVars>>

Kinds      == ToSet(Items)
Active     == {"running", "deepening", "writing"}
JobStates  == {"new", "queued", "over"} \cup Active
Statuses   == {"none", "ok", "error", "signal"}
NoResult   == [state |-> "none", kinds |-> {}, dims |-> 0]
TornResult == [state |-> "torn", kinds |-> {}, dims |-> 0]

TypeOK ==
    /\ CheckpointTypeOK
    /\ job      \in [Runs -> JobStates]
    /\ status   \in [Runs -> Statuses]
    /\ step     \in [Runs -> 1..(Len(Items) + 1)]
    /\ blocks   \in [Runs -> SUBSET Kinds]
    /\ dims     \in [Runs -> 0..(Top + 1)]
    /\ result   \in [state : {"none", "torn", "whole"}, kinds : SUBSET Kinds,
                     dims : 0..(Top + 1)]
    /\ failures \in 0..MaxFailures

Init ==
    /\ CheckpointInit
    /\ job      = [r \in Runs |-> "new"]
    /\ status   = [r \in Runs |-> "none"]
    /\ step     = [r \in Runs |-> 1]
    /\ blocks   = [r \in Runs |-> {}]
    /\ dims     = [r \in Runs |-> 0]
    /\ result   = NoResult
    /\ failures = 0

JobTo(r, state) == job' = [job EXCEPT ![r] = state]

\* The process is gone; the script exits with its status.
Over(r, s) ==
    /\ JobTo(r, "over")
    /\ status' = [status EXCEPT ![r] = s]
    /\ Die({r})

-----------------------------------------------------------------------------
(* The queue. *)

\* sbatch: a first submission, or the same command once the last job ended
\* without a result.
Submit(r) ==
    /\ job[r] = "new"
    /\ \A q \in Runs : job[q] \in {"new", "over"} /\ status[q] # "ok"
    /\ JobTo(r, "queued")
    /\ UNCHANGED <<fileVars, runVars, status, step, blocks, dims, result, failures>>

Start(r) ==
    /\ job[r] = "queued"
    /\ JobTo(r, "running")
    /\ step'   = [step EXCEPT ![r] = 1]
    /\ blocks' = [blocks EXCEPT ![r] = {}]
    /\ dims'   = [dims EXCEPT ![r] = 0]
    /\ UNCHANGED <<fileVars, runVars, status, result, failures>>

-----------------------------------------------------------------------------
(* The loop over the items. *)

AtItem(r, kind) == job[r] = "running" /\ step[r] <= Len(Items) /\ Items[step[r]] = kind

Record(r, kind) ==
    /\ blocks' = [blocks EXCEPT ![r] = @ \cup {kind}]
    /\ step'   = [step EXCEPT ![r] = @ + 1]

\* A value, or the error block of an item over its cell bound.
RecordItem(r) ==
    \E kind \in Kinds \ {Deep} :
        /\ AtItem(r, kind)
        /\ Record(r, kind)
        /\ UNCHANGED <<fileVars, runVars, job, status, dims, result, failures>>

\* Any other error fails the request.
FailItem(r) ==
    /\ \E kind \in Kinds \ {Deep} : AtItem(r, kind)
    /\ Over(r, "error")
    /\ UNCHANGED <<step, blocks, dims, result, failures>>

EnterDeepen(r) ==
    /\ AtItem(r, Deep)
    /\ Begin(r)
    /\ JobTo(r, "deepening")
    /\ UNCHANGED <<status, step, blocks, dims, result, failures>>

Compute(r) ==
    /\ job[r] = "deepening"
    /\ DeepenStep(r)
    /\ UNCHANGED slurmVars

\* Mutant of Complete: every stop is an answer.
AnyStop(r) == reason[r] # "unreadable"

\* The list is long enough, or the resolution ended, or it was cut by its cap.
Complete(r) == hh[r] >= Top + 1 \/ reason[r] \in {"terminated", "term"}

\* A list that is too short is filled with zeros.  They are the dimensions only
\* when the resolution ended.
LeaveDeepen(r) ==
    /\ job[r] = "deepening"
    /\ At(r, "stopped")
    /\ Complete(r)
    /\ dims' = [dims EXCEPT ![r] = IF reason[r] = "terminated" THEN Top + 1 ELSE hh[r]]
    /\ Record(r, Deep)
    /\ JobTo(r, "running")
    /\ Die({r})
    /\ UNCHANGED <<status, result, failures>>

\* Exit 75: scontrol requeue.
CheckpointStop(r) ==
    /\ job[r] = "deepening"
    /\ At(r, "stopped")
    /\ reason[r] # "unreadable" /\ ~Complete(r)
    /\ JobTo(r, "queued")
    /\ Die({r})
    /\ UNCHANGED <<status, step, blocks, dims, result, failures>>

\* The ValueError of an empty pointer fails the request.
FailDeepen(r) ==
    /\ job[r] = "deepening"
    /\ At(r, "stopped")
    /\ reason[r] = "unreadable"
    /\ Over(r, "error")
    /\ UNCHANGED <<step, blocks, dims, result, failures>>

-----------------------------------------------------------------------------
(* The result file is truncated, then written. *)

OpenResult(r) ==
    /\ job[r] = "running"
    /\ step[r] = Len(Items) + 1
    /\ result' = TornResult
    /\ JobTo(r, "writing")
    /\ UNCHANGED <<fileVars, runVars, status, step, blocks, dims, failures>>

WriteResult(r) ==
    /\ job[r] = "writing"
    /\ result' = [state |-> "whole", kinds |-> blocks[r], dims |-> dims[r]]
    /\ Over(r, "ok")
    /\ UNCHANGED <<step, blocks, dims, failures>>

-----------------------------------------------------------------------------
(* The environment. *)

Usr1(r) ==
    /\ job[r] \in Active
    /\ Over(r, "signal")
    /\ UNCHANGED <<step, blocks, dims, result, failures>>

NodeFails(r) ==
    /\ job[r] \in Active
    /\ failures < MaxFailures
    /\ failures' = failures + 1
    /\ JobTo(r, "queued")
    /\ Die({r}) \/ DieTorn(r)
    /\ UNCHANGED <<status, step, blocks, dims, result>>

JobStep(r) ==
    \/ Start(r)
    \/ RecordItem(r) \/ FailItem(r)
    \/ EnterDeepen(r) \/ Compute(r)
    \/ LeaveDeepen(r) \/ CheckpointStop(r) \/ FailDeepen(r)
    \/ OpenResult(r) \/ WriteResult(r)

Next ==
    \E r \in Runs : Submit(r) \/ JobStep(r) \/ Usr1(r) \/ NodeFails(r)

Spec == Init /\ [][Next]_vars

\* The cluster schedules what is queued and a process that runs makes progress;
\* nobody has to submit.
FairSpec == Spec /\ \A r \in Runs : WF_vars(JobStep(r))

-----------------------------------------------------------------------------
(* Properties. *)

\* A term of the request is too large before the resolution ends and before the
\* memory guard trips.
Capped == algebra.cap < algebra.ends /\ algebra.cap < algebra.wall /\ algebra.cap <= Top

\* How many dimensions of the request the driver can compute.
Computable == IF Capped THEN algebra.cap ELSE Top + 1

\* Exit status 0 means that the result file is there, with a block for every
\* kind and every dimension asked for, whatever stops, crashes and signals the
\* job and the ones before it went through (cli.py:177, deepen_runner.py:52), except
\* that a resolution cut by its cap counts as complete too (deepen_runner.py:55):
\* then the dimensions below the cap are computed, and the zeros after them are not.
ResultIsComplete ==
    (\E r \in Runs : status[r] = "ok") =>
        result = [state |-> "whole", kinds |-> Kinds, dims |-> Computable]

\* A stop on the time budget leaves everything it has to the next run, which
\* resumes where it stopped (deepen.py:160, "last degree already checkpointed").
CleanStopKeepsAll ==
    \A r \in Runs :
        At(r, "stopped") /\ reason[r] = "time" =>
            latest[DirOf[r]] # Torn /\ ResumeDegree(DirOf[r]) = n[r]

\* No degree of the request trips the memory guard, and none is predicted to take
\* longer than a whole allocation.
Fits == /\ \/ algebra.wall > Top + 1
           \/ algebra.ends <= algebra.wall
           \/ algebra.cap < algebra.wall
        /\ Limit = 0 \/ \A k \in 1..Top : 2 * Cost[k] <= Limit

\* A job that fits leaves the queue for good, however often it is stopped and
\* requeued: every allocation gets one degree further (quiverlab.sbatch:107).  A
\* job that does not fit is requeued for ever.
JobIsOver == Fits => \A r \in Runs : job[r] = "queued" ~> job[r] = "over"

\* Violated: "just submit the same command again ... resumes from $SCRATCH"
\* (docs/hpc.md:126).  The new job has a new id, hence an empty directory.
ResubmissionResumes ==
    \A r, q \in Runs : pc[r] \in Computing => n[r] + 1 >= deepest[DirOf[q]]
=============================================================================
