------------------------------- MODULE Worker -------------------------------
(***************************************************************************)
(* One claimed job in one worker loop (src/webapp/worker/worker.py):       *)
(* run_one_job starts a child process, watches it, writes one verdict to   *)
(* the store and then runs the tail (cache record, completion mail).       *)
(* Between two transactions of a loop every other process may take steps,  *)
(* so each transaction is an action of its own and pc[l] is the place of   *)
(* loop l between two of them.                                             *)
(***************************************************************************)
EXTENDS JobStore

CONSTANTS Loops,       \* the worker loops
          WallCapped   \* FALSE when the configured wall cap is 0: no deadline

ASSUME WorkerAssumption == WallCapped \in BOOLEAN

VARIABLES pc,         \* place of each loop
          cur,        \* the job a loop has claimed, or NoJob
          late,       \* the wall deadline of the loop's job has passed
          child,      \* the child process of each job
          artifacts,  \* the jobs whose artifact directory exists
          claims,     \* how often a loop has claimed a job
          mails       \* how many completion mails were handed to the relay

workVars == <<pc, cur, late, child, artifacts, claims, mails>>

\* Claimed, and no verdict written yet.
WorkingPlaces == {"claimed", "guard", "watching", "cancelling", "cleared",
                  "overdue", "drained"}
\* The verdict is written, the tail is not over.
TailPlaces    == {"record", "notify", "mailed"}
SweepPlaces   == {"evicted", "selected", "deleted"}
\* "booting" and "adopting" are the start of the offline loop; "raising" is an
\* exception on its way out of a loop of the fleet.
Places        == {"gone", "booting", "adopting", "idle", "polling", "raising"}
                   \cup WorkingPlaces \cup TailPlaces \cup SweepPlaces
ChildStates   == {"none", "alive", "ok", "fail", "silent"}

Working(l) == pc[l] \in WorkingPlaces
InTail(l)  == pc[l] \in TailPlaces

WorkTypeOK ==
    /\ pc        \in [Loops -> Places]
    /\ cur       \in [Loops -> Jobs \cup {NoJob}]
    /\ late      \in [Loops -> BOOLEAN]
    /\ child     \in [Jobs -> ChildStates]
    /\ artifacts \in SUBSET Jobs
    /\ claims    \in [Jobs -> Nat]
    /\ mails     \in [Jobs -> Nat]

WorkInit ==
    /\ pc        = [l \in Loops |-> "gone"]
    /\ cur       = [l \in Loops |-> NoJob]
    /\ late      = [l \in Loops |-> FALSE]
    /\ child     = [j \in Jobs |-> "none"]
    /\ artifacts = {}
    /\ claims    = [j \in Jobs |-> 0]
    /\ mails     = [j \in Jobs |-> 0]

Goto(l, place) == pc' = [pc EXCEPT ![l] = place]

\* Return from worker_tick.
Return(l) == Goto(l, "idle") /\ cur' = [cur EXCEPT ![l] = NoJob]

-----------------------------------------------------------------------------
(* Claim and start.  A tick begins once the loop has found the stop flag down. *)

BeginTick(l, stopped) ==
    /\ pc[l] = "idle"
    /\ ~stopped
    /\ Goto(l, "polling")
    /\ UNCHANGED <<storeVars, cur, late, child, artifacts, claims, mails>>

NothingToClaim(l, excluded) ==
    /\ pc[l] = "polling"
    /\ Eligible(excluded) = {}
    /\ Goto(l, "idle")
    /\ UNCHANGED <<storeVars, cur, late, child, artifacts, claims, mails>>

Claim(l, excluded) ==
    /\ pc[l] = "polling"
    /\ \E j \in Jobs : /\ ClaimNext(j, excluded)
                       /\ cur'    = [cur EXCEPT ![l] = j]
                       /\ claims' = [claims EXCEPT ![j] = @ + 1]
    /\ Goto(l, "claimed")
    /\ UNCHANGED <<clock, cancelReq, cache, late, child, artifacts, mails>>

StartChild(l) ==
    /\ pc[l] = "claimed"
    /\ artifacts' = artifacts \cup {cur[l]}
    /\ MarkRunning(cur[l])
    /\ child'  = [child EXCEPT ![cur[l]] = "alive"]
    /\ Goto(l, "guard")
    /\ UNCHANGED <<clock, cancelReq, cache, cur, late, claims, mails>>

\* The child ends: with a result, with an error it reports, or with nothing in
\* the queue (killed, or exited without a verdict).
ChildExits(j) ==
    /\ child[j] = "alive"
    /\ \E r \in {"ok", "fail", "silent"} : child' = [child EXCEPT ![j] = r]
    /\ UNCHANGED <<storeVars, pc, cur, late, artifacts, claims, mails>>

DeadlinePasses(l) ==
    /\ WallCapped
    /\ pc[l] \in {"guard", "watching"}
    /\ child[cur[l]] = "alive"
    /\ ~late[l]
    /\ late' = [late EXCEPT ![l] = TRUE]
    /\ UNCHANGED <<storeVars, pc, cur, child, artifacts, claims, mails>>

-----------------------------------------------------------------------------
(* The watch loop: while alive and in time: join, drain, look for a cancel. *)

\* The deadline is not read again.
StopWatching(l, place) == Goto(l, place) /\ late' = [late EXCEPT ![l] = FALSE]

KeepWatching(l) ==
    /\ pc[l] = "guard"
    /\ child[cur[l]] = "alive"
    /\ ~late[l]
    /\ Goto(l, "watching")
    /\ UNCHANGED <<storeVars, cur, late, child, artifacts, claims, mails>>

SeeNoCancel(l) ==
    /\ pc[l] = "watching"
    /\ cur[l] \notin cancelReq
    /\ Goto(l, "guard")
    /\ UNCHANGED <<storeVars, cur, late, child, artifacts, claims, mails>>

\* Mutant of SeeCancel: any signal is taken for this job's.
SeeAnyCancel(l) ==
    /\ pc[l] = "watching"
    /\ cancelReq # {}
    /\ child' = [child EXCEPT ![cur[l]] = "silent"]
    /\ StopWatching(l, "cancelling")
    /\ UNCHANGED <<storeVars, cur, artifacts, claims, mails>>

\* Mutant of SeeCancel: the signal is looked for only past the deadline.
SeeCancelWhenLate(l) ==
    /\ pc[l] = "watching"
    /\ cur[l] \in cancelReq
    /\ late[l]
    /\ child' = [child EXCEPT ![cur[l]] = "silent"]
    /\ StopWatching(l, "cancelling")
    /\ UNCHANGED <<storeVars, cur, artifacts, claims, mails>>

\* Mutant of SeeCancel: the signal is taken, and the child goes on.
SeeCancelTooWeak(l) ==
    /\ pc[l] = "watching"
    /\ ClearCancelRequest(cur[l])
    /\ Goto(l, "guard")
    /\ UNCHANGED <<clock, jobVars, cache, cur, late, child, artifacts, claims, mails>>

SeeCancel(l) ==
    /\ pc[l] = "watching"
    /\ cur[l] \in cancelReq
    /\ child' = [child EXCEPT ![cur[l]] = "silent"]
    /\ StopWatching(l, "cancelling")
    /\ UNCHANGED <<storeVars, cur, artifacts, claims, mails>>

KillOverdue(l) ==
    /\ pc[l] = "guard"
    /\ child[cur[l]] = "alive"
    /\ late[l]
    /\ child' = [child EXCEPT ![cur[l]] = "silent"]
    /\ StopWatching(l, "overdue")
    /\ UNCHANGED <<storeVars, cur, artifacts, claims, mails>>

LeaveWatch(l) ==
    /\ pc[l] = "guard"
    /\ child[cur[l]] # "alive"
    /\ StopWatching(l, "drained")
    /\ UNCHANGED <<storeVars, cur, child, artifacts, claims, mails>>

-----------------------------------------------------------------------------
(* The verdict. *)

ClearSignal(l) ==
    /\ pc[l] = "cancelling"
    /\ ClearCancelRequest(cur[l])
    /\ Goto(l, "cleared")
    /\ UNCHANGED <<clock, jobVars, cache, cur, late, child, artifacts, claims, mails>>

\* Mutant of FailVerdict: no notice of a failure.
FailWithoutNotice(l) ==
    /\ \/ pc[l] = "cleared" /\ MarkFailed(cur[l], "cancelled")
       \/ pc[l] = "overdue" /\ MarkFailed(cur[l], "other")
       \/ /\ pc[l] = "drained" /\ child[cur[l]] \in {"silent", "fail"}
          /\ MarkFailed(cur[l], "other")
    /\ child' = [child EXCEPT ![cur[l]] = "none"]
    /\ Return(l)
    /\ UNCHANGED <<clock, cancelReq, cache, late, artifacts, claims, mails>>

\* A failure verdict: of a cancelled child, of one killed at the wall, of one
\* that died without a result, of one that reported an error.
FailVerdict(l) ==
    /\ \/ pc[l] = "cleared" /\ MarkFailed(cur[l], "cancelled")
       \/ pc[l] = "overdue" /\ MarkFailed(cur[l], "other")
       \/ /\ pc[l] = "drained" /\ child[cur[l]] = "silent"
          /\ MarkFailed(cur[l], "other")
       \/ /\ pc[l] = "drained" /\ child[cur[l]] = "fail"
          /\ MarkFailed(cur[l], "other")
    /\ child' = [child EXCEPT ![cur[l]] = "none"]
    /\ Goto(l, "notify")
    /\ UNCHANGED <<clock, cancelReq, cache, cur, late, artifacts, claims, mails>>

\* Mutant of DoneVerdict: the tail comes before the verdict.
TailFirst(l) ==
    /\ pc[l] = "drained"
    /\ child[cur[l]] = "ok"
    /\ child' = [child EXCEPT ![cur[l]] = "none"]
    /\ Goto(l, "record")
    /\ UNCHANGED <<storeVars, cur, late, artifacts, claims, mails>>

DoneVerdict(l) ==
    /\ pc[l] = "drained"
    /\ child[cur[l]] = "ok"
    /\ MarkDone(cur[l])
    /\ child' = [child EXCEPT ![cur[l]] = "none"]
    /\ Goto(l, "record")
    /\ UNCHANGED <<clock, cancelReq, cache, cur, late, artifacts, claims, mails>>

\* Mutant of TickFails: no verdict is written.
TickFailsUnmarked(l, place) ==
    /\ Working(l)
    /\ StopWatching(l, place)
    /\ cur' = [cur EXCEPT ![l] = IF place = "idle" THEN NoJob ELSE @]
    /\ UNCHANGED <<storeVars, child, artifacts, claims, mails>>

\* Mutant of TickFails: `marked' is not looked at.
TickFailsTwice(l, place) ==
    /\ Working(l) \/ pc[l] = "mailed"
    /\ MarkFailed(cur[l], "other")
    /\ StopWatching(l, place)
    /\ cur' = [cur EXCEPT ![l] = IF place = "idle" THEN NoJob ELSE @]
    /\ UNCHANGED <<clock, cancelReq, cache, child, artifacts, claims, mails>>

\* An exception: before a verdict the except clause marks the job failed; after
\* it (`marked') the row is left alone.  In the tail only the deletion of the
\* address can raise.  No mail is sent, and the caller resumes at `place'.
TickFails(l, place) ==
    /\ \/ Working(l) /\ MarkFailed(cur[l], "other")
       \/ pc[l] = "mailed" /\ UNCHANGED jobVars
    /\ StopWatching(l, place)
    /\ cur' = [cur EXCEPT ![l] = IF place = "idle" THEN NoJob ELSE @]
    /\ UNCHANGED <<clock, cancelReq, cache, child, artifacts, claims, mails>>

\* The loop's process is gone, wherever it stood; its child is not.
LoopVanishes(l) ==
    /\ pc[l] # "gone"
    /\ pc'   = [pc EXCEPT ![l] = "gone"]
    /\ cur'  = [cur EXCEPT ![l] = NoJob]
    /\ late' = [late EXCEPT ![l] = FALSE]
    /\ UNCHANGED <<child, artifacts, claims, mails>>

\* Every process of the worker ends at once, children included.
AllVanish ==
    /\ pc'    = [l \in Loops |-> "gone"]
    /\ cur'   = [l \in Loops |-> NoJob]
    /\ late'  = [l \in Loops |-> FALSE]
    /\ child' = [j \in Jobs |-> "none"]
    /\ UNCHANGED <<artifacts, claims, mails>>

-----------------------------------------------------------------------------
(* The tail. *)

\* A failing cache write is swallowed: the result is already saved.
RecordCache(l) ==
    /\ pc[l] = "record"
    /\ CachePut(cur[l]) \/ UNCHANGED cache
    /\ Goto(l, "notify")
    /\ UNCHANGED <<clock, jobVars, cancelReq, cur, late, child, artifacts, claims, mails>>

HasAddress(j) == tier[j] = "big" /\ email[j]

SkipMail(l) ==
    /\ pc[l] = "notify"
    /\ ~HasAddress(cur[l])
    /\ Return(l)
    /\ UNCHANGED <<storeVars, late, child, artifacts, claims, mails>>

\* The mail is sent, or the relay refuses it and the failure is swallowed.
SendMail(l) ==
    /\ pc[l] = "notify"
    /\ HasAddress(cur[l])
    /\ \/ mails' = [mails EXCEPT ![cur[l]] = @ + 1]
       \/ UNCHANGED mails
    /\ Goto(l, "mailed")
    /\ UNCHANGED <<storeVars, cur, late, child, artifacts, claims>>

ForgetAddress(l) ==
    /\ pc[l] = "mailed"
    /\ ClearEmail(cur[l])
    /\ Return(l)
    /\ UNCHANGED <<clock, cancelReq, cache, late, child, artifacts, claims, mails>>

\* Every step run_one_job takes by itself after the claim.
RunStep(l) ==
    \/ StartChild(l)   \/ KeepWatching(l) \/ SeeNoCancel(l) \/ SeeCancel(l)
    \/ KillOverdue(l)  \/ LeaveWatch(l)   \/ ClearSignal(l) \/ FailVerdict(l)
    \/ DoneVerdict(l)  \/ RecordCache(l)  \/ SkipMail(l)    \/ SendMail(l)
    \/ ForgetAddress(l)
=============================================================================
