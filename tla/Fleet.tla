-------------------------------- MODULE Fleet --------------------------------
(***************************************************************************)
(* The deployed worker service (src/webapp/worker/run_loop.py): FleetSize  *)
(* poll loops over one job store, their supervisor, which is PID 1 of the  *)
(* worker container, and the hourly sweep of loop 0                        *)
(* (src/webapp/worker/sweeper.py).  Crashes may happen at every step; a    *)
(* restart requeues what was running.                                      *)
(***************************************************************************)
EXTENDS Sweeper

CONSTANTS FleetSize,   \* the number of poll loops
          TiersOf,     \* the tiers each job may be requested at
          MaxKills,    \* bound: kills of a loop or of the container
          MaxErrors,   \* bound: exceptions out of run_one_job
          MaxCuts      \* bound: stops the operator asks for

ASSUME FleetAssumption ==
    /\ FleetSize \in Nat \ {0}
    /\ Loops = 0 .. FleetSize - 1
    /\ WallCapped
    /\ TiersOf \in [Jobs -> SUBSET Tiers]
    /\ MaxKills \in Nat /\ MaxErrors \in Nat /\ MaxCuts \in Nat

VARIABLES sup,        \* the supervisor, run_loop.main
          stop,       \* the shared stop event
          kills, errors,
          cuts        \* how often the fleet has been stopped

fleetVars == <<sup, stop, kills, errors, cuts>>
vars == <<storeVars, workVars, sweepVars, fleetVars>>

Phases == {"down", "adopted", "serving", "stopping", "reaping"}

TypeOK ==
    /\ StoreTypeOK
    /\ WorkTypeOK
    /\ SweepTypeOK
    /\ sup       \in Phases
    /\ stop      \in BOOLEAN
    /\ kills \in Nat /\ errors \in Nat /\ cuts \in Nat

Init ==
    /\ StoreInit
    /\ WorkInit
    /\ SweepInit
    /\ sup = "down" /\ stop = FALSE
    /\ kills = 0 /\ errors = 0 /\ cuts = 0

-----------------------------------------------------------------------------
(* The web tier, and time. *)

\* A request that was accepted (api_compute, or a clicked big-job link).
Submit(j, t) ==
    /\ CreateJob(j, t)
    /\ UNCHANGED <<clock, cancelReq, cache, workVars, sweepVars, fleetVars>>

\* One unit is the hour between two sweeps.  No tail lasts a retention period.
Tick ==
    /\ clock < MaxClock
    /\ \A l \in Loops : InTail(l) => clock < finished[cur[l]] + Retention
    /\ clock' = clock + 1
    /\ UNCHANGED <<jobVars, cancelReq, cache, workVars, sweepVars, fleetVars>>

-----------------------------------------------------------------------------
(* The poll loops. *)

ExcludeNothing(l) == {}

\* Loop 0 refuses the big tier when another loop can run it.
ExcludeTiersFor(l) == IF l = 0 /\ FleetSize >= 2 THEN {"big"} ELSE {}

LoopPolls(l) ==
    /\ \/ BeginTick(l, stop)
       \/ Claim(l, ExcludeTiersFor(l))
       \/ NothingToClaim(l, ExcludeTiersFor(l))
    /\ UNCHANGED <<sweepVars, fleetVars>>

LoopRuns(l) == RunStep(l) /\ UNCHANGED <<sweepVars, fleetVars>>

\* Loop 0 sweeps, one loop is enough.
SweepHourly == Sweep(0) /\ UNCHANGED fleetVars

LoopExits(l) ==
    /\ pc[l] = "idle"
    /\ stop
    /\ Goto(l, "gone")
    /\ UNCHANGED <<storeVars, cur, late, child, artifacts, claims, mails, sweepVars, fleetVars>>

\* An exception ends the loop's function, but the dying process first joins its
\* child, which is not a daemon.
LoopFails(l) ==
    /\ errors < MaxErrors
    /\ TickFails(l, "raising")
    /\ errors' = errors + 1
    /\ UNCHANGED <<sup, stop, sweepVars, kills, cuts>>

LoopDies(l) ==
    /\ pc[l] = "raising"
    /\ child[cur[l]] # "alive"
    /\ Goto(l, "gone")
    /\ cur' = [cur EXCEPT ![l] = NoJob]
    /\ UNCHANGED <<storeVars, late, child, artifacts, claims, mails, sweepVars, fleetVars>>

-----------------------------------------------------------------------------
(* The supervisor. *)

Boot ==
    /\ sup = "down"
    /\ RequeueStaleRunning
    /\ sup' = "adopted"
    /\ UNCHANGED <<clock, cancelReq, cache, workVars, stop, sweepVars,
                   kills, errors, cuts>>

StartWorkers ==
    /\ sup = "adopted"
    /\ sup' = "serving"
    /\ stop' = FALSE
    /\ pc' = [l \in Loops |-> "idle"]
    /\ SweepForgotten(Loops)
    /\ UNCHANGED <<storeVars, cur, late, child, artifacts, claims, mails,
                   kills, errors, cuts>>

SigTerm ==
    /\ sup = "serving"
    /\ ~stop
    /\ cuts < MaxCuts
    /\ stop' = TRUE
    /\ UNCHANGED <<storeVars, workVars, sup, sweepVars, kills, errors, cuts>>

\* Mutant of BeginStop: nobody looks for dead loops.
BeginStopWhenAsked ==
    /\ sup = "serving"
    /\ stop
    /\ sup' = "stopping"
    /\ cuts' = cuts + 1
    /\ UNCHANGED <<storeVars, workVars, sweepVars, stop, kills, errors>>

\* A stop was asked for, or a loop is dead.
BeginStop ==
    /\ sup = "serving"
    /\ stop \/ \E l \in Loops : pc[l] = "gone"
    /\ sup' = "stopping"
    /\ stop' = TRUE
    /\ cuts' = cuts + 1
    /\ UNCHANGED <<storeVars, workVars, sweepVars, kills, errors>>

\* Mutants of GraceExpires: a grace shorter than the wall; a join without a timeout.
GraceTooShort ==
    /\ sup = "stopping"
    /\ \E l \in Loops : pc[l] # "gone"
    /\ sup' = "reaping"
    /\ UNCHANGED <<storeVars, workVars, stop, sweepVars, kills, errors, cuts>>

GraceUnbounded ==
    /\ sup = "stopping"
    /\ \A l \in Loops : pc[l] = "gone"
    /\ sup' = "reaping"
    /\ UNCHANGED <<storeVars, workVars, stop, sweepVars, kills, errors, cuts>>

\* The grace is the wall cap of an anonymous job and 20 seconds; such a job ends
\* within its wall, 5 seconds of slack and 10 of escalation.  So when the grace
\* is over, no loop is still at an anonymous job.
GraceExpires ==
    /\ sup = "stopping"
    /\ \E l \in Loops : pc[l] # "gone"
    /\ \A l \in Loops : Working(l) \/ InTail(l) => tier[cur[l]] = "big"
    /\ \A l \in Loops : pc[l] \notin {"idle", "polling"}
    /\ sup' = "reaping"
    /\ UNCHANGED <<storeVars, workVars, stop, sweepVars, kills, errors, cuts>>

\* SIGTERM kills a loop where it stands.
TerminateStraggler(l) ==
    /\ sup = "reaping"
    /\ LoopVanishes(l)
    /\ SweepForgotten({l})
    /\ UNCHANGED <<storeVars, sup, stop, kills, errors, cuts>>

\* Mutant of Exit: the loops are not joined.
ExitUnjoined ==
    /\ sup \in {"stopping", "reaping"}
    /\ sup' = "down"
    /\ child' = [j \in Jobs |-> "none"]
    /\ UNCHANGED <<storeVars, pc, cur, late, artifacts, claims, mails, stop, sweepVars,
                   kills, errors, cuts>>

\* Every loop is joined; the container ends and with it every child left.
Exit ==
    /\ sup \in {"stopping", "reaping"}
    /\ \A l \in Loops : pc[l] = "gone"
    /\ sup' = "down"
    /\ child' = [j \in Jobs |-> "none"]
    /\ UNCHANGED <<storeVars, pc, cur, late, artifacts, claims, mails, stop, sweepVars,
                   kills, errors, cuts>>

-----------------------------------------------------------------------------
(* Crashes. *)

\* A loop is killed (out of memory); its child outlives it.
KillLoop(l) ==
    /\ kills < MaxKills
    /\ LoopVanishes(l)
    /\ SweepForgotten({l})
    /\ kills' = kills + 1
    /\ UNCHANGED <<storeVars, sup, stop, errors, cuts>>

\* The container is killed (docker compose kill, reboot): every process ends.
KillFleet ==
    /\ kills < MaxKills
    /\ sup # "down"
    /\ sup' = "down"
    /\ AllVanish
    /\ SweepForgotten(Loops)
    /\ kills' = kills + 1
    /\ UNCHANGED <<storeVars, stop, errors, cuts>>

-----------------------------------------------------------------------------
LoopStep(l) == LoopPolls(l) \/ LoopRuns(l) \/ LoopExits(l) \/ LoopDies(l)

Supervise == Boot \/ StartWorkers \/ BeginStop \/ GraceExpires \/ Exit

Next ==
    \/ \E j \in Jobs : \E t \in TiersOf[j] : Submit(j, t)
    \/ Tick
    \/ \E l \in Loops : \/ LoopStep(l) \/ LoopFails(l)
                        \/ TerminateStraggler(l) \/ KillLoop(l)
    \/ \E j \in Jobs : ChildExits(j) /\ UNCHANGED <<sweepVars, fleetVars>>
    \/ \E l \in Loops : DeadlinePasses(l) /\ UNCHANGED <<sweepVars, fleetVars>>
    \/ SweepHourly
    \/ Supervise
    \/ SigTerm
    \/ KillFleet

Spec == Init /\ [][Next]_vars

\* Loops and supervisor are processes the kernel schedules, each its own steps in
\* its own order; `restart: unless-stopped' (or the operator) boots the fleet again.
\* Nothing makes a child end; only a deadline that passes is certain, for the tiers
\* given.
Fairness(tiers) ==
    /\ \A l \in Loops :
          /\ WF_vars(LoopStep(l) \/ (l = 0 /\ SweepHourly))
          /\ WF_vars(/\ DeadlinePasses(l) /\ UNCHANGED <<sweepVars, fleetVars>>
                     /\ tier[cur[l]] \in tiers)
    /\ WF_vars(Supervise \/ \E l \in Loops : TerminateStraggler(l))

\* The 24 hours of a big job count as forever: its deadline never comes.
SpecBigForever == Spec /\ Fairness({"anonymous"})

\* Every deadline comes.
SpecCapped == Spec /\ Fairness(Tiers)

-----------------------------------------------------------------------------
(* Safety. *)

\* "Multiple worker processes never double-claim" (store.py): no two loops are
\* at work on one job, and the row of a job that a loop works on is `running',
\* so that no other process finds it pending or already finished.
SingleOwner ==
    \A l \in Loops : Working(l) =>
        /\ status[cur[l]] = "running"
        /\ \A m \in Loops \ {l} : Working(m) => cur[m] # cur[l]

\* A `running' row that no loop works on is an orphan of a crash, and the fleet
\* is then on its way to the restart that requeues it: a loop is gone (which the
\* supervisor takes for a death), or the fleet is already stopping or down.
OrphanMeansRestart ==
    \A j \in Jobs :
        status[j] = "running" /\ (\A l \in Loops : Working(l) => cur[l] # j) =>
            \/ sup \in {"down", "stopping", "reaping"}
            \/ \E l \in Loops : pc[l] = "gone"

\* The tier reservation: with two loops or more, at least one of them is not
\* held by a big job.
OneLoopFreeOfBig ==
    FleetSize >= 2 =>
        \E l \in Loops : ~((Working(l) \/ InTail(l)) /\ tier[cur[l]] = "big")

\* First come, first served, across crashes and requeues: while a job waits for
\* its first claim no job submitted later has been claimed, except that the
\* reserved loop may take an anonymous job before an older big one.
FirstComeFirstServed ==
    \A i, j \in Jobs :
        /\ status[i] = "pending" /\ claims[i] = 0
        /\ status[j] # "new" /\ created[i] < created[j]
        /\ ~(tier[i] = "big" /\ tier[j] = "anonymous")
        => claims[j] = 0

\* A job is claimed again only because a crash or a stop cut it: a kill can cut
\* any job, a stop only a big one (the grace outlasts an anonymous job).
RerunsAreCuts ==
    \A j \in Jobs :
        claims[j] <= 1 + kills + (IF tier[j] = "big" THEN cuts ELSE 0)

\* A requester gets at most one completion mail, whatever crashes between the
\* verdict, the mail and the deletion of the address; and no mail goes out
\* before the verdict it announces is in the store.
AtMostOneMail ==
    \A j \in Jobs : mails[j] <= 1 /\ (mails[j] = 1 => ~Active(j))

\* A cache row always replays a finished job whose artifacts are on disk: the
\* defensive branch of cache_get is never taken.
CacheReplaysDone ==
    \A k \in Rows : /\ status[cache[k]] = "done"
                    /\ cache[k] \in artifacts
                    /\ KeyOf[cache[k]] = k

\* A verdict is final: the only thing that ever happens to a finished row is
\* its deletion, and only a finished row is deleted.
VerdictIsFinal ==
    [][\A j \in Jobs :
          /\ Terminal(j) => status'[j] \in {status[j], "purged"}
          /\ status'[j] = "purged" => Terminal(j) \/ status[j] = "purged"
          /\ status'[j] = "done" => status[j] \in {"running", "done"}]_vars

\* "The plaintext email ... is deleted right after the completion notice"
\* (bigjobs.py:9): a finished job keeps its address without a loop that is about
\* to send the notice, or has just sent it, only when an exception, a crash or a
\* stop has cut its loop; each exception does so for one job at most.
LeftAddresses ==
    {j \in Jobs : Terminal(j) /\ email[j] /\ \A l \in Loops : InTail(l) => cur[l] # j}

AddressOnlyUntilNotice ==
    Cardinality(LeftAddresses) <= errors + FleetSize * (kills + cuts)

-----------------------------------------------------------------------------
(* Liveness. *)

\* A loop that an exception ends joins a child that nobody will end: the exit of
\* its process waits without a deadline, so the supervisor never sees it dead.
Stranded(l) == pc[l] = "raising" /\ child[cur[l]] = "alive"

\* The M1 guarantee: big jobs can not freeze the anonymous queue.  With two
\* loops or more every anonymous job ends, although big jobs may never end,
\* across a kill at any step and the stop it causes; only a loop stranded by an
\* exception may hold it up.
AnonymousServed ==
    \A j \in {i \in Jobs : "anonymous" \in TiersOf[i]} :
        status[j] = "pending" /\ tier[j] = "anonymous"
            ~> ~Active(j) \/ \E l \in Loops : Stranded(l)

\* Every accepted job gets a verdict, across kills, exceptions and stops, although
\* its child may be wedged, unless a loop is stranded: loop 0 refuses big jobs, so
\* a stranded loop may be the only one for them.
EveryJobEnds ==
    \A j \in Jobs :
        status[j] = "pending" ~> ~Active(j) \/ \E l \in Loops : Stranded(l)

\* A stop completes, even while a job outlives the grace or a loop is stranded.
StopCompletes == sup = "stopping" ~> sup = "down"

-----------------------------------------------------------------------------
(* The fleet implements the job lifecycle: a worker holds the job of its loop *)
(* from the claim to the verdict.                                             *)

Held == [l \in Loops |-> IF Working(l) THEN cur[l] ELSE NoJob]

Life == INSTANCE JobLifecycle WITH Workers <- Loops, held <- Held

ImplementsLifecycle == Life!LifeSpec
=============================================================================
