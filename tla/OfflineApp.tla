----------------------------- MODULE OfflineApp -----------------------------
(***************************************************************************)
(* The offline desktop app (src/webapp/server/offline.py): a web server    *)
(* and one embedded worker loop in one process, over a job store in the    *)
(* user's home.  Jobs run without a wall cap; the user may cancel the      *)
(* active job, quit the app, and launch the app again, also while another  *)
(* copy of it is still open (src/desktop/launcher.py picks a free port).   *)
(* Loop c is the worker of copy c; the copies share the store.             *)
(***************************************************************************)
EXTENDS Sweeper

CONSTANTS MaxFaults,   \* bound: sudden deaths of a copy, and exceptions in a tick or
                       \* in the adoption
          MaxLaunches  \* bound: launches of a copy

ASSUME OfflineAssumption ==
    /\ ~WallCapped
    /\ MaxFaults \in Nat /\ MaxLaunches \in Nat

VARIABLES app,      \* each copy: "down", "up" or "quitting"
          stopped,  \* the stop event of each copy
          adopted,  \* the requeued ids a starting loop has still to mark failed
          brood,    \* the jobs whose child is a child of the copy's process
          told,     \* the jobs reported to the caller as cancelled
          dropped,  \* history: how often the adoption of a job was cut short
          kills, errors, launches

Faults  == kills + errors
appVars == <<app, stopped, adopted, brood, told, dropped, kills, errors, launches>>
vars == <<storeVars, workVars, sweepVars, appVars>>

TypeOK ==
    /\ StoreTypeOK /\ WorkTypeOK /\ SweepTypeOK
    /\ app     \in [Loops -> {"down", "up", "quitting"}]
    /\ stopped \in [Loops -> BOOLEAN]
    /\ adopted \in [Loops -> SUBSET Jobs]
    /\ brood   \in [Loops -> SUBSET Jobs]
    /\ told    \in SUBSET Jobs
    /\ dropped \in [Jobs -> Nat]
    /\ kills \in Nat /\ errors \in Nat /\ launches \in Nat

Init ==
    /\ StoreInit /\ WorkInit /\ SweepInit
    /\ app     = [c \in Loops |-> "down"]
    /\ stopped = [c \in Loops |-> FALSE]
    /\ adopted = [c \in Loops |-> {}]
    /\ brood   = [c \in Loops |-> {}]
    /\ told    = {}
    /\ dropped = [j \in Jobs |-> 0]
    /\ kills = 0 /\ errors = 0 /\ launches = 0

-----------------------------------------------------------------------------
(* The user, through the web server of a copy. *)

Submit(c, j) ==
    /\ app[c] = "up"
    /\ CreateJob(j, "anonymous")
    /\ UNCHANGED <<clock, cancelReq, cache, workVars, sweepVars, appVars>>

\* POST /api/cancel-running: every job of the store is the local caller's.
CancelRunning(c, j) ==
    /\ app[c] = "up"
    /\ RequestCancel(j, Jobs)
    /\ told' = told \cup {j}
    /\ UNCHANGED <<clock, cache, workVars, sweepVars, app, stopped, adopted, brood,
                   dropped, kills, errors, launches>>

Tick ==
    /\ clock < MaxClock
    /\ \A c \in Loops : InTail(c) => clock < finished[cur[c]] + Retention
    /\ clock' = clock + 1
    /\ UNCHANGED <<jobVars, cancelReq, cache, workVars, sweepVars, appVars>>

-----------------------------------------------------------------------------
(* The worker thread: adopt what a previous session left, then poll. *)

Launch(c) ==
    /\ app[c] = "down"
    /\ launches < MaxLaunches
    /\ app'      = [app EXCEPT ![c] = "up"]
    /\ stopped'  = [stopped EXCEPT ![c] = FALSE]
    /\ launches' = launches + 1
    /\ Goto(c, "booting")
    /\ UNCHANGED <<storeVars, cur, late, child, artifacts, claims, mails, sweepVars,
                   adopted, brood, told, dropped, kills, errors>>

\* Mutant of Adopt: stranded jobs are left alone.
AdoptNothing(c) ==
    /\ pc[c] = "booting"
    /\ Goto(c, "adopting")
    /\ UNCHANGED <<storeVars, cur, late, child, artifacts, claims, mails, sweepVars,
                   appVars>>

\* Mutant of Adopt: as the fleet does, which runs them again.
AdoptAsFleet(c) ==
    /\ pc[c] = "booting"
    /\ RequeueStaleRunning
    /\ Goto(c, "adopting")
    /\ UNCHANGED <<clock, cancelReq, cache, cur, late, child, artifacts, claims,
                   mails, sweepVars, appVars>>

Adopt(c) ==
    /\ pc[c] = "booting"
    /\ RequeueStaleRunning
    /\ adopted' = [adopted EXCEPT ![c] = {j \in Jobs : status[j] = "running"}]
    /\ Goto(c, "adopting")
    /\ UNCHANGED <<clock, cancelReq, cache, cur, late, child, artifacts, claims,
                   mails, sweepVars, app, stopped, brood, told, dropped, kills,
                   errors, launches>>

FailAdopted(c) ==
    /\ pc[c] = "adopting"
    /\ \E j \in adopted[c] :
          /\ MarkFailed(j, "closed")
          /\ adopted' = [adopted EXCEPT ![c] = @ \ {j}]
    /\ UNCHANGED <<clock, cancelReq, cache, workVars, sweepVars, app, stopped, brood,
                   told, dropped, kills, errors, launches>>

EndAdoption(c) ==
    /\ pc[c] = "adopting"
    /\ adopted[c] = {}
    /\ Goto(c, "idle")
    /\ UNCHANGED <<storeVars, cur, late, child, artifacts, claims, mails, sweepVars,
                   appVars>>

\* The loop will not mark the jobs `lost'.
AdoptionCut(c, lost) ==
    /\ adopted' = [adopted EXCEPT ![c] = {}]
    /\ dropped' = [j \in Jobs |-> IF j \in lost THEN dropped[j] + 1 ELSE dropped[j]]

\* "Never let a startup hiccup kill the loop": the exception is swallowed.  Raised
\* by the requeue it leaves the rows running; raised by a mark, in the queue.
AdoptionFails(c) ==
    /\ Faults < MaxFaults
    /\ \/ /\ pc[c] = "booting"
          /\ AdoptionCut(c, {j \in Jobs : status[j] = "running"})
       \/ /\ pc[c] = "adopting"
          /\ AdoptionCut(c, adopted[c])
    /\ errors' = errors + 1
    /\ Goto(c, "idle")
    /\ UNCHANGED <<storeVars, cur, late, child, artifacts, claims, mails, sweepVars,
                   app, stopped, brood, told, kills, launches>>

LoopPolls(c) ==
    /\ BeginTick(c, stopped[c]) \/ Claim(c, {}) \/ NothingToClaim(c, {})
    /\ UNCHANGED <<sweepVars, appVars>>

\* A child started by the step belongs to the process of the copy.
LoopRuns(c) ==
    /\ RunStep(c)
    /\ brood' = [brood EXCEPT ![c] = @ \cup {cur[c]}]
    /\ UNCHANGED <<sweepVars, app, stopped, adopted, told, dropped, kills, errors,
                   launches>>

LoopSweeps(c) == Sweep(c) /\ UNCHANGED appVars

LoopExits(c) ==
    /\ pc[c] = "idle"
    /\ stopped[c]
    /\ Goto(c, "gone")
    /\ UNCHANGED <<storeVars, cur, late, child, artifacts, claims, mails, sweepVars,
                   appVars>>

\* The loop catches what a tick raises and goes on; nobody ends the child.
TickRaises(c) ==
    /\ Faults < MaxFaults
    /\ TickFails(c, "idle")
    /\ errors' = errors + 1
    /\ UNCHANGED <<sweepVars, app, stopped, adopted, brood, told, dropped, kills,
                   launches>>

-----------------------------------------------------------------------------
(* The end of a copy. *)

Interrupted(c) == [j \in Jobs |-> IF j \in brood[c] /\ child[j] = "alive"
                                 THEN "silent" ELSE child[j]]

\* The web server returns after an interrupt.  Typed at a terminal, the
\* interrupt also ends the children of the process.
Quit(c) ==
    /\ app[c] = "up"
    /\ app'     = [app EXCEPT ![c] = "quitting"]
    /\ stopped' = [stopped EXCEPT ![c] = TRUE]
    /\ child' \in {child, Interrupted(c)}
    /\ UNCHANGED <<storeVars, pc, cur, late, artifacts, claims, mails, sweepVars,
                   adopted, brood, told, dropped, kills, errors, launches>>

\* The copy's process is gone and its thread with it.
ProcessEnds(c) ==
    /\ AdoptionCut(c, adopted[c])
    /\ app'     = [app EXCEPT ![c] = "down"]
    /\ brood'   = [brood EXCEPT ![c] = {}]
    /\ pc'      = [pc EXCEPT ![c] = "gone"]
    /\ cur'     = [cur EXCEPT ![c] = NoJob]
    /\ late'    = [late EXCEPT ![c] = FALSE]
    /\ SweepForgotten({c})
    /\ UNCHANGED <<storeVars, child, artifacts, claims, mails, stopped, told, errors,
                   launches>>

\* After the grace of 5 seconds the interpreter ends; it first joins the
\* children of the process, and only then does the worker thread stop.
Leave(c) ==
    /\ app[c] = "quitting"
    /\ \A j \in brood[c] : child[j] # "alive"
    /\ ProcessEnds(c)
    /\ UNCHANGED kills

\* The process is killed; its children live on.
KillApp(c) ==
    /\ Faults < MaxFaults
    /\ app[c] # "down"
    /\ ProcessEnds(c)
    /\ kills' = kills + 1

-----------------------------------------------------------------------------
LoopStep(c) ==
    \/ Adopt(c) \/ FailAdopted(c) \/ EndAdoption(c)
    \/ LoopPolls(c) \/ LoopRuns(c) \/ LoopExits(c)

Next ==
    \/ \E c \in Loops, j \in Jobs : Submit(c, j) \/ CancelRunning(c, j)
    \/ Tick
    \/ \E c \in Loops : \/ LoopStep(c) \/ LoopSweeps(c)
                        \/ AdoptionFails(c) \/ TickRaises(c)
                        \/ Launch(c) \/ Quit(c) \/ Leave(c) \/ KillApp(c)
    \/ \E j \in Jobs : ChildExits(j) /\ UNCHANGED <<sweepVars, appVars>>

Spec == Init /\ [][Next]_vars

\* The threads of a running copy are scheduled; whether the user launches a copy
\* again, and whether a child ever ends, is open.
Fairness ==
    \A c \in Loops : WF_vars(LoopStep(c)) /\ WF_vars(LoopSweeps(c)) /\ WF_vars(Leave(c))

FairSpec == Spec /\ Fairness

-----------------------------------------------------------------------------
(* Properties of one copy. *)

\* What the GUI shows as running is running: a `running' row belongs to a loop at
\* work on it, or its copy is down or has yet to adopt it, or failed to.
RunningIsLive ==
    \A j \in Jobs : status[j] = "running" =>
        \/ \E c \in Loops : Working(c) /\ cur[c] = j
        \/ \A c \in Loops : pc[c] \in {"gone", "booting"}
        \/ dropped[j] > 0

\* Only the job the caller was told about is ever cancelled: a signal that came
\* too late and was left behind never kills another job.
OnlyToldAreCancelled == \A j \in Jobs : error[j] = "cancelled" => j \in told

\* A cancel signal ends the run of its job although the child never ends by itself
\* and no wall cap applies, unless the app goes down first or failed to adopt the job.
CancelEndsTheJob ==
    \A j \in Jobs :
        status[j] = "running" /\ j \in cancelReq
            ~> \/ status[j] # "running" \/ dropped[j] > 0
               \/ \A c \in Loops : app[c] # "up"

\* "The child's late result can never overwrite the cancellation"
\* (store.py:298): a job that was reported as cancelled and has run once ends done
\* only when nobody has read the signal, as the child had ended before the worker
\* looked.
ReadCancelIsFinal ==
    \A j \in told : status[j] = "done" /\ claims[j] = 1 => j \in cancelReq

\* A job interrupted by closing the app is not run again (offline.py:267: "marked
\* FAILED, not requeued") unless its adoption was cut short, by an exception or by
\* the end of the copy, and then once more each time.
NeverRerun == \A j \in Jobs : claims[j] <= 1 + dropped[j]

-----------------------------------------------------------------------------
(* One copy implements the job lifecycle of the queue. *)

Held == [c \in Loops |-> IF Working(c) THEN cur[c] ELSE NoJob]

Life == INSTANCE JobLifecycle WITH Workers <- Loops, held <- Held

ImplementsLifecycle == Life!LifeSpec
=============================================================================
