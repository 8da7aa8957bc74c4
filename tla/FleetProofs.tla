----------------------------- MODULE FleetProofs -----------------------------
(***************************************************************************)
(* Proofs about Fleet, for every number of loops, jobs, cache keys and     *)
(* every bound: who owns a job, that a verdict stands, the lifecycle that  *)
(* the fleet implements; then how often and in which order jobs are        *)
(* claimed, what the cache may replay, whose addresses are left behind.    *)
(***************************************************************************)
EXTENDS Fleet, FiniteSetTheorems, TLAPS

\* Loop 0, the one that sweeps, is one of the loops.
LEMMA LoopZero == 0 \in Loops
BY FleetAssumption

-----------------------------------------------------------------------------
(* Type correctness, one step per action of Next. *)

\* A loop that has claimed a job knows which.  The type invariant needs it: what
\* a loop does to `its' job is typed only if there is one.
Attached ==
    \A l \in Loops : Working(l) \/ InTail(l) \/ pc[l] = "raising" => cur[l] \in Jobs

TypeInv == TypeOK /\ Attached

LEMMA TypeInit == Init => TypeInv
<1> SUFFICES ASSUME Init PROVE TypeInv
    OBVIOUS
<1>1. StoreTypeOK
  BY DEF Init, StoreInit, StoreTypeOK, Statuses, Tiers, Errors, Null
<1>2. WorkTypeOK
  BY DEF Init, WorkInit, WorkTypeOK, Places, ChildStates
<1>3. SweepTypeOK
  BY DEF Init, SweepInit, SweepTypeOK, Null
<1>4. Attached
  BY DEF Init, WorkInit, Attached, Working, InTail, WorkingPlaces, TailPlaces
<1> QED
  BY <1>1, <1>2, <1>3, <1>4 DEF Init, TypeInv, TypeOK, Phases

LEMMA TypeStep == TypeInv /\ [Next]_vars => TypeInv'
<1> SUFFICES ASSUME TypeInv, [Next]_vars PROVE TypeInv'
    OBVIOUS
<1> USE DEF TypeInv, TypeOK, Attached, Working, InTail, StoreTypeOK, WorkTypeOK,
            SweepTypeOK, Statuses, Tiers, Errors, Places, WorkingPlaces, TailPlaces, SweepPlaces, ChildStates, Phases,
            storeVars, jobVars, workVars, sweepVars, fleetVars
<1>1. ASSUME NEW j \in Jobs, NEW t \in TiersOf[j], Submit(j, t) PROVE TypeInv'
  BY <1>1, FleetAssumption DEF Submit, CreateJob
<1>2. CASE Tick
  BY <1>2 DEF Tick
<1>3. ASSUME NEW l \in Loops, LoopPolls(l) PROVE TypeInv'
  <2>1. CASE BeginTick(l, stop)
    BY <1>3, <2>1 DEF LoopPolls, BeginTick, Goto
  <2>2. CASE Claim(l, ExcludeTiersFor(l))
    BY <1>3, <2>2 DEF LoopPolls, Claim, ClaimNext, Goto
  <2>3. CASE NothingToClaim(l, ExcludeTiersFor(l))
    BY <1>3, <2>3 DEF LoopPolls, NothingToClaim, Goto
  <2> QED
    BY <1>3, <2>1, <2>2, <2>3 DEF LoopPolls

<1>4. ASSUME NEW l \in Loops, LoopRuns(l) PROVE TypeInv'
  <2>1. CASE StartChild(l)
    BY <1>4, <2>1 DEF LoopRuns, StartChild, MarkRunning, Goto
  <2>2. CASE KeepWatching(l)
    BY <1>4, <2>2 DEF LoopRuns, KeepWatching, Goto
  <2>3. CASE SeeNoCancel(l)
    BY <1>4, <2>3 DEF LoopRuns, SeeNoCancel, Goto
  <2>4. CASE SeeCancel(l)
    BY <1>4, <2>4 DEF LoopRuns, SeeCancel, StopWatching, Goto
  <2>5. CASE KillOverdue(l)
    BY <1>4, <2>5 DEF LoopRuns, KillOverdue, StopWatching, Goto
  <2>6. CASE LeaveWatch(l)
    BY <1>4, <2>6 DEF LoopRuns, LeaveWatch, StopWatching, Goto
  <2>7. CASE ClearSignal(l)
    BY <1>4, <2>7 DEF LoopRuns, ClearSignal, ClearCancelRequest, Goto
  <2>8. CASE FailVerdict(l)
    BY <1>4, <2>8 DEF LoopRuns, FailVerdict, MarkFailed, Goto
  <2>9. CASE DoneVerdict(l)
    BY <1>4, <2>9 DEF LoopRuns, DoneVerdict, MarkDone, Goto
  <2>10. CASE RecordCache(l)
    BY <1>4, <2>10 DEF LoopRuns, RecordCache, CachePut, Goto
  <2>11. CASE SkipMail(l)
    BY <1>4, <2>11 DEF LoopRuns, SkipMail, Return, Goto
  <2>12. CASE SendMail(l)
    BY <1>4, <2>12 DEF LoopRuns, SendMail, Goto
  <2>13. CASE ForgetAddress(l)
    BY <1>4, <2>13 DEF LoopRuns, ForgetAddress, ClearEmail, Return, Goto
  <2> QED
    BY <1>4, <2>1, <2>2, <2>3, <2>4, <2>5, <2>6, <2>7, <2>8, <2>9, <2>10, <2>11, <2>12, <2>13
       DEF LoopRuns, RunStep
<1>5. ASSUME NEW l \in Loops, LoopExits(l) PROVE TypeInv'
  BY <1>5 DEF LoopExits, Goto
<1>6. ASSUME NEW l \in Loops, LoopDies(l) PROVE TypeInv'
  BY <1>6 DEF LoopDies, Goto
<1>7. ASSUME NEW l \in Loops, LoopFails(l) PROVE TypeInv'
  BY <1>7 DEF LoopFails, TickFails, MarkFailed, StopWatching, Goto, Working
<1>8. ASSUME NEW l \in Loops, TerminateStraggler(l) PROVE TypeInv'
  BY <1>8 DEF TerminateStraggler, LoopVanishes, SweepForgotten, Null
<1>9. ASSUME NEW l \in Loops, KillLoop(l) PROVE TypeInv'
  BY <1>9 DEF KillLoop, LoopVanishes, SweepForgotten, Null
<1>10. ASSUME NEW j \in Jobs, ChildExits(j), UNCHANGED <<sweepVars, fleetVars>> PROVE TypeInv'
  BY <1>10 DEF ChildExits
<1>11. ASSUME NEW l \in Loops, DeadlinePasses(l), UNCHANGED <<sweepVars, fleetVars>>
       PROVE TypeInv'
  BY <1>11 DEF DeadlinePasses
<1>12. CASE SweepHourly
  <2>1. CASE EvictRows(0)
    BY <1>12, <2>1, LoopZero DEF SweepHourly, EvictRows, CacheSweep, Goto
  <2>2. CASE SelectPurgeable(0)
    BY <1>12, <2>2, LoopZero DEF SweepHourly, SelectPurgeable, Purgeable, Goto
  <2>3. CASE DeleteRows(0)
    BY <1>12, <2>3, LoopZero DEF SweepHourly, DeleteRows, DeletePurgeable, Goto
  <2>4. CASE RemoveDirs(0)
    BY <1>12, <2>4, LoopZero DEF SweepHourly, RemoveDirs, Goto
  <2> QED
    BY <1>12, <2>1, <2>2, <2>3, <2>4 DEF SweepHourly, Sweep
<1>13. CASE Supervise
  <2>1. CASE Boot
    BY <2>1 DEF Boot, RequeueStaleRunning
  <2>2. CASE StartWorkers
    <3>1. StoreTypeOK' /\ WorkTypeOK' /\ Attached'
      BY <2>2 DEF StartWorkers
    <3>2. SweepTypeOK'
      BY <2>2 DEF StartWorkers, SweepForgotten, Null
    <3>3. stop' = FALSE
      BY <2>2 DEF StartWorkers
    <3> QED
      BY <2>2, <3>1, <3>2, <3>3 DEF StartWorkers
  <2>3. CASE BeginStop
    BY <2>3 DEF BeginStop
  <2>4. CASE GraceExpires
    BY <2>4 DEF GraceExpires
  <2>5. CASE Exit
    BY <2>5 DEF Exit
  <2> QED
    BY <1>13, <2>1, <2>2, <2>3, <2>4, <2>5 DEF Supervise
<1>14. CASE SigTerm
  BY <1>14 DEF SigTerm
<1>15. CASE KillFleet
  BY <1>15 DEF KillFleet, AllVanish, SweepForgotten, Null
<1>16. CASE UNCHANGED vars
  BY <1>16 DEF vars
<1> QED
  BY <1>1, <1>2, <1>3, <1>4, <1>5, <1>6, <1>7, <1>8, <1>9, <1>10, <1>11, <1>12, <1>13,
     <1>14, <1>15, <1>16
     DEF Next, LoopStep

\* Every variable of the fleet keeps its type: the columns of the store, the
\* places of the loops, the children, the supervisor (Spec => []TypeOK).
THEOREM TypeCorrect == Spec => []TypeOK
<1>1. TypeInv => TypeOK
  BY DEF TypeInv
<1> QED
  BY <1>1, TypeInit, TypeStep, PTL DEF Spec

-----------------------------------------------------------------------------
(* Ownership.  The inductive invariant ties the place of each loop to the row *)
(* of its job, and the phase of the supervisor to the rows nobody works on.   *)

Busy(l) == Working(l) \/ InTail(l)

\* A row is `running' from the claim to the verdict and finished in the tail, and
\* no two loops have the same job.
Owned ==
    /\ \A l \in Loops : Working(l) => status[cur[l]] = "running"
    /\ \A l \in Loops : InTail(l) => status[cur[l]] \in {"done", "failed", "purged"}
    /\ \A l, m \in Loops : l # m /\ Busy(l) /\ Busy(m) => cur[l] # cur[m]

\* The supervisor requeues only when every loop is gone, and starts the loops only
\* when no row is running.
Parked ==
    /\ sup \in {"down", "adopted"} => \A l \in Loops : pc[l] = "gone"
    /\ sup = "adopted" => \A j \in Jobs : status[j] # "running"

\* Only a verdict sets finished_at.
Unfinished == \A j \in Jobs : status[j] \in {"new", "pending", "running"} => finished[j] = Null

\* Loop 0 of a larger fleet never has a big job.
Reserved == FleetSize >= 2 /\ Busy(0) => tier[cur[0]] # "big"

\* No mail was sent for a job without a verdict, nor for one whose loop has not
\* come to the mail.
Unmailed ==
    /\ \A j \in Jobs : mails[j] <= 1
    /\ \A j \in Jobs : status[j] \in {"new", "pending", "running"} => mails[j] = 0
    /\ \A l \in Loops : pc[l] \in {"record", "notify"} => mails[cur[l]] = 0

OwnInv == Owned /\ Parked /\ Unfinished /\ Reserved /\ Unmailed /\ OrphanMeansRestart

LEMMA OwnInit == Init => OwnInv
BY LoopZero
   DEF Init, StoreInit, WorkInit, OwnInv, Owned, Parked, Unfinished, Reserved, Unmailed,
       OrphanMeansRestart, Busy, Working, InTail, WorkingPlaces, TailPlaces

LEMMA OwnStep == TypeInv /\ OwnInv /\ [Next]_vars => OwnInv'
<1> SUFFICES ASSUME TypeInv, OwnInv, [Next]_vars PROVE OwnInv'
    OBVIOUS
<1> USE LoopZero DEF TypeInv, TypeOK, Attached, StoreTypeOK, WorkTypeOK, SweepTypeOK,
            OwnInv, Owned, Parked, Unfinished, Reserved, Unmailed, OrphanMeansRestart,
            Busy, Working, InTail, WorkingPlaces, TailPlaces, Null,
            storeVars, jobVars, workVars, sweepVars, fleetVars
<1>1. ASSUME NEW j \in Jobs, NEW t \in TiersOf[j], Submit(j, t) PROVE OwnInv'
  <2>1. Owned' /\ Parked' /\ Unfinished' /\ Unmailed' /\ OrphanMeansRestart'
    BY <1>1 DEF Submit, CreateJob
  <2>2. Reserved'
    BY <1>1 DEF Submit, CreateJob
  <2> QED
    BY <2>1, <2>2
<1>2. CASE Tick
  BY <1>2 DEF Tick
<1>3. ASSUME NEW l \in Loops, LoopPolls(l) PROVE OwnInv'
  <2>1. CASE BeginTick(l, stop)
    BY <1>3, <2>1 DEF LoopPolls, BeginTick, Goto
  <2>2. CASE Claim(l, ExcludeTiersFor(l))
    <3>1. PICK j \in Jobs :
             /\ status[j] = "pending" /\ tier[j] \notin ExcludeTiersFor(l)
             /\ status' = [status EXCEPT ![j] = "running"]
             /\ cur' = [cur EXCEPT ![l] = j]
             /\ pc' = [pc EXCEPT ![l] = "claimed"]
             /\ UNCHANGED <<tier, finished, mails, sup>>
      BY <1>3, <2>2 DEF LoopPolls, Claim, ClaimNext, Oldest, Eligible, Goto
    <3>2. Owned' /\ Parked' /\ Unfinished' /\ Unmailed'
      BY <1>3, <2>2, <3>1 DEF Claim
    <3>3. Reserved'
      BY <3>1 DEF ExcludeTiersFor
    <3>4. OrphanMeansRestart'
      BY <2>2, <3>1 DEF Claim
    <3> QED
      BY <3>2, <3>3, <3>4
  <2>3. CASE NothingToClaim(l, ExcludeTiersFor(l))
    BY <1>3, <2>3 DEF LoopPolls, NothingToClaim, Goto
  <2> QED
    BY <1>3, <2>1, <2>2, <2>3 DEF LoopPolls

<1>4. ASSUME NEW l \in Loops, LoopRuns(l) PROVE OwnInv'
  <2>1. CASE StartChild(l)
    BY <1>4, <2>1 DEF LoopRuns, StartChild, MarkRunning, Goto
  <2>2. CASE KeepWatching(l)
    BY <1>4, <2>2 DEF LoopRuns, KeepWatching, Goto
  <2>3. CASE SeeNoCancel(l)
    BY <1>4, <2>3 DEF LoopRuns, SeeNoCancel, Goto
  <2>4. CASE SeeCancel(l)
    BY <1>4, <2>4 DEF LoopRuns, SeeCancel, StopWatching, Goto
  <2>5. CASE KillOverdue(l)
    BY <1>4, <2>5 DEF LoopRuns, KillOverdue, StopWatching, Goto
  <2>6. CASE LeaveWatch(l)
    BY <1>4, <2>6 DEF LoopRuns, LeaveWatch, StopWatching, Goto
  <2>7. CASE ClearSignal(l)
    BY <1>4, <2>7 DEF LoopRuns, ClearSignal, ClearCancelRequest, Goto
  <2>8. CASE FailVerdict(l)
    <3>1. /\ pc[l] \in {"cleared", "overdue", "drained"} /\ cur[l] \in Jobs
          /\ pc' = [pc EXCEPT ![l] = "notify"]
          /\ status' = [status EXCEPT ![cur[l]] = "failed"]
          /\ finished' = [finished EXCEPT ![cur[l]] = clock]
          /\ UNCHANGED <<tier, cur, mails, sup>>
      BY <1>4, <2>8 DEF LoopRuns, FailVerdict, MarkFailed, Goto
    <3>2. UNCHANGED fleetVars
      BY <1>4 DEF LoopRuns
    <3>3. Owned' /\ Parked'
      BY <3>1
    <3>4. Unfinished' /\ Reserved' /\ Unmailed'
      BY <3>1
    <3>5. OrphanMeansRestart'
      BY <3>1, <3>2
    <3> QED
      BY <3>3, <3>4, <3>5
  <2>9. CASE DoneVerdict(l)
    BY <1>4, <2>9 DEF LoopRuns, DoneVerdict, MarkDone, Goto
  <2>10. CASE RecordCache(l)
    BY <1>4, <2>10 DEF LoopRuns, RecordCache, CachePut, Goto
  <2>11. CASE SkipMail(l)
    BY <1>4, <2>11 DEF LoopRuns, SkipMail, Return, Goto
  <2>12. CASE SendMail(l)
    BY <1>4, <2>12 DEF LoopRuns, SendMail, Goto
  <2>13. CASE ForgetAddress(l)
    BY <1>4, <2>13, SMTT(40) DEF LoopRuns, ForgetAddress, ClearEmail, Return, Goto
  <2> QED
    BY <1>4, <2>1, <2>2, <2>3, <2>4, <2>5, <2>6, <2>7, <2>8, <2>9, <2>10, <2>11, <2>12, <2>13
       DEF LoopRuns, RunStep
<1>5. ASSUME NEW l \in Loops, LoopExits(l) PROVE OwnInv'
  BY <1>5 DEF LoopExits, Goto
<1>6. ASSUME NEW l \in Loops, LoopDies(l) PROVE OwnInv'
  BY <1>6 DEF LoopDies, Goto
<1>7. ASSUME NEW l \in Loops, LoopFails(l) PROVE OwnInv'
  BY <1>7, SMTT(40) DEF LoopFails, TickFails, MarkFailed, StopWatching, Goto, Working
<1>8. ASSUME NEW l \in Loops, TerminateStraggler(l) PROVE OwnInv'
  BY <1>8 DEF TerminateStraggler, LoopVanishes, SweepForgotten
<1>9. ASSUME NEW l \in Loops, KillLoop(l) PROVE OwnInv'
  BY <1>9 DEF KillLoop, LoopVanishes, SweepForgotten
<1>10. ASSUME NEW j \in Jobs, ChildExits(j), UNCHANGED <<sweepVars, fleetVars>> PROVE OwnInv'
  BY <1>10 DEF ChildExits
<1>11. ASSUME NEW l \in Loops, DeadlinePasses(l), UNCHANGED <<sweepVars, fleetVars>>
       PROVE OwnInv'
  BY <1>11 DEF DeadlinePasses
<1>12. CASE SweepHourly
  <2>1. CASE EvictRows(0)
    BY <1>12, <2>1 DEF SweepHourly, EvictRows, CacheSweep, Goto
  <2>2. CASE SelectPurgeable(0)
    BY <1>12, <2>2 DEF SweepHourly, SelectPurgeable, Purgeable, Goto
  <2>3. CASE DeleteRows(0)
    BY <1>12, <2>3 DEF SweepHourly, DeleteRows, DeletePurgeable,
                     Purgeable, Statuses, SweepPlaces, Goto
  <2>4. CASE RemoveDirs(0)
    BY <1>12, <2>4 DEF SweepHourly, RemoveDirs, Goto
  <2> QED
    BY <1>12, <2>1, <2>2, <2>3, <2>4 DEF SweepHourly, Sweep
<1>13. CASE Supervise
  <2>1. CASE Boot
    BY <2>1 DEF Boot, RequeueStaleRunning
  <2>2. CASE StartWorkers
    BY <2>2 DEF StartWorkers
  <2>3. CASE BeginStop
    BY <2>3 DEF BeginStop
  <2>4. CASE GraceExpires
    BY <2>4 DEF GraceExpires
  <2>5. CASE Exit
    BY <2>5 DEF Exit
  <2> QED
    BY <1>13, <2>1, <2>2, <2>3, <2>4, <2>5 DEF Supervise
<1>14. CASE SigTerm
  BY <1>14 DEF SigTerm
<1>15. CASE KillFleet
  BY <1>15 DEF KillFleet, AllVanish, SweepForgotten
<1>16. CASE UNCHANGED vars
  BY <1>16 DEF vars
<1> QED
  BY <1>1, <1>2, <1>3, <1>4, <1>5, <1>6, <1>7, <1>8, <1>9, <1>10, <1>11, <1>12, <1>13,
     <1>14, <1>15, <1>16
     DEF Next, LoopStep

LEMMA Invariance == Spec => [](TypeInv /\ OwnInv)
<1>1. Init => TypeInv /\ OwnInv
  BY TypeInit, OwnInit
<1>2. TypeInv /\ OwnInv /\ [Next]_vars => (TypeInv /\ OwnInv)'
  BY TypeStep, OwnStep
<1> QED
  BY <1>1, <1>2, PTL DEF Spec

\* No two loops work on one job, and the row of a job that a loop works on is
\* `running': claim_next's "never double-claim", across crashes and requeues.
THEOREM OwnershipHolds == Spec => []SingleOwner
<1>1. OwnInv => SingleOwner
  BY DEF OwnInv, Owned, SingleOwner, Busy
<1> QED
  BY <1>1, Invariance, PTL

\* A `running' row without a loop is always followed by a restart of the fleet:
\* run_loop.main stops when a loop is dead and requeues when it boots.
THEOREM OrphansAreAdopted == Spec => []OrphanMeansRestart
<1>1. OwnInv => OrphanMeansRestart
  BY DEF OwnInv
<1> QED
  BY <1>1, Invariance, PTL

\* With two loops or more one of them never has a big job (exclude_tiers_for).
THEOREM ReservationHolds == Spec => []OneLoopFreeOfBig
<1>1. OwnInv => OneLoopFreeOfBig
  BY LoopZero DEF OwnInv, Reserved, Busy, OneLoopFreeOfBig
<1> QED
  BY <1>1, Invariance, PTL

\* A requester gets at most one completion mail, and none before the verdict,
\* wherever _notify_if_big is cut.
THEOREM OneMail == Spec => []AtMostOneMail
<1>1. TypeInv /\ OwnInv => AtMostOneMail
  BY DEF TypeInv, TypeOK, WorkTypeOK, OwnInv, Unmailed, AtMostOneMail, Active
<1> QED
  BY <1>1, Invariance, PTL

-----------------------------------------------------------------------------
(* A verdict is final.  The marks of JobStore are updates by id whatever the  *)
(* status is, so this rests on who may call them: only the owner of a row.    *)

VerdictStep ==
    \A j \in Jobs :
        /\ Terminal(j) => status'[j] \in {status[j], "purged"}
        /\ status'[j] = "purged" => Terminal(j) \/ status[j] = "purged"
        /\ status'[j] = "done" => status[j] \in {"running", "done"}

LEMMA VerdictKept == TypeInv /\ OwnInv /\ [Next]_vars => [VerdictStep]_vars
<1> SUFFICES ASSUME TypeInv, OwnInv, Next PROVE VerdictStep
    BY DEF vars
<1> USE LoopZero DEF TypeInv, TypeOK, Attached, StoreTypeOK, WorkTypeOK,
            OwnInv, Owned, Unfinished, VerdictStep, Terminal, Statuses,
            Working, InTail, WorkingPlaces, TailPlaces, Null,
            storeVars, jobVars, workVars, sweepVars, fleetVars
<1>1. ASSUME NEW j \in Jobs, NEW t \in TiersOf[j], Submit(j, t) PROVE VerdictStep
  BY <1>1 DEF Submit, CreateJob
<1>2. CASE Tick
  BY <1>2 DEF Tick
<1>3. ASSUME NEW l \in Loops, LoopPolls(l) PROVE VerdictStep
  <2>1. CASE BeginTick(l, stop)
    BY <1>3, <2>1 DEF LoopPolls, BeginTick
  <2>2. CASE Claim(l, ExcludeTiersFor(l))
    BY <1>3, <2>2 DEF LoopPolls, Claim, ClaimNext, Oldest, Eligible
  <2>3. CASE NothingToClaim(l, ExcludeTiersFor(l))
    BY <1>3, <2>3 DEF LoopPolls, NothingToClaim
  <2> QED
    BY <1>3, <2>1, <2>2, <2>3 DEF LoopPolls

<1>4. ASSUME NEW l \in Loops, LoopRuns(l) PROVE VerdictStep
  <2>1. CASE StartChild(l)
    BY <1>4, <2>1 DEF LoopRuns, StartChild, MarkRunning
  <2>2. CASE KeepWatching(l)
    BY <1>4, <2>2 DEF LoopRuns, KeepWatching
  <2>3. CASE SeeNoCancel(l)
    BY <1>4, <2>3 DEF LoopRuns, SeeNoCancel
  <2>4. CASE SeeCancel(l)
    BY <1>4, <2>4 DEF LoopRuns, SeeCancel, StopWatching
  <2>5. CASE KillOverdue(l)
    BY <1>4, <2>5 DEF LoopRuns, KillOverdue, StopWatching
  <2>6. CASE LeaveWatch(l)
    BY <1>4, <2>6 DEF LoopRuns, LeaveWatch, StopWatching
  <2>7. CASE ClearSignal(l)
    BY <1>4, <2>7 DEF LoopRuns, ClearSignal, ClearCancelRequest
  <2>8. CASE FailVerdict(l)
    BY <1>4, <2>8 DEF LoopRuns, FailVerdict, MarkFailed
  <2>9. CASE DoneVerdict(l)
    BY <1>4, <2>9 DEF LoopRuns, DoneVerdict, MarkDone
  <2>10. CASE RecordCache(l)
    BY <1>4, <2>10 DEF LoopRuns, RecordCache, CachePut
  <2>11. CASE SkipMail(l)
    BY <1>4, <2>11 DEF LoopRuns, SkipMail, Return
  <2>12. CASE SendMail(l)
    BY <1>4, <2>12 DEF LoopRuns, SendMail
  <2>13. CASE ForgetAddress(l)
    BY <1>4, <2>13 DEF LoopRuns, ForgetAddress, ClearEmail, Return
  <2> QED
    BY <1>4, <2>1, <2>2, <2>3, <2>4, <2>5, <2>6, <2>7, <2>8, <2>9, <2>10, <2>11, <2>12, <2>13
       DEF LoopRuns, RunStep
<1>5. ASSUME NEW l \in Loops, LoopExits(l) PROVE VerdictStep
  BY <1>5 DEF LoopExits
<1>6. ASSUME NEW l \in Loops, LoopDies(l) PROVE VerdictStep
  BY <1>6 DEF LoopDies
<1>7. ASSUME NEW l \in Loops, LoopFails(l) PROVE VerdictStep
  BY <1>7 DEF LoopFails, TickFails, MarkFailed, StopWatching, Working
<1>8. ASSUME NEW l \in Loops, TerminateStraggler(l) PROVE VerdictStep
  BY <1>8 DEF TerminateStraggler, LoopVanishes, SweepForgotten
<1>9. ASSUME NEW l \in Loops, KillLoop(l) PROVE VerdictStep
  BY <1>9 DEF KillLoop, LoopVanishes, SweepForgotten
<1>10. ASSUME NEW j \in Jobs, ChildExits(j), UNCHANGED <<sweepVars, fleetVars>> PROVE VerdictStep
  BY <1>10 DEF ChildExits
<1>11. ASSUME NEW l \in Loops, DeadlinePasses(l), UNCHANGED <<sweepVars, fleetVars>>
       PROVE VerdictStep
  BY <1>11 DEF DeadlinePasses
<1>12. CASE SweepHourly
  <2>1. CASE EvictRows(0)
    BY <1>12, <2>1 DEF SweepHourly, EvictRows, CacheSweep
  <2>2. CASE SelectPurgeable(0)
    BY <1>12, <2>2 DEF SweepHourly, SelectPurgeable, Purgeable
  <2>3. CASE DeleteRows(0)
    BY <1>12, <2>3 DEF SweepHourly, DeleteRows, DeletePurgeable,
                     Purgeable, Statuses
  <2>4. CASE RemoveDirs(0)
    BY <1>12, <2>4 DEF SweepHourly, RemoveDirs
  <2> QED
    BY <1>12, <2>1, <2>2, <2>3, <2>4 DEF SweepHourly, Sweep
<1>13. CASE Supervise
  <2>1. CASE Boot
    BY <2>1 DEF Boot, RequeueStaleRunning
  <2>2. CASE StartWorkers
    BY <2>2 DEF StartWorkers
  <2>3. CASE BeginStop
    BY <2>3 DEF BeginStop
  <2>4. CASE GraceExpires
    BY <2>4 DEF GraceExpires
  <2>5. CASE Exit
    BY <2>5 DEF Exit
  <2> QED
    BY <1>13, <2>1, <2>2, <2>3, <2>4, <2>5 DEF Supervise
<1>14. CASE SigTerm
  BY <1>14 DEF SigTerm
<1>15. CASE KillFleet
  BY <1>15 DEF KillFleet, AllVanish, SweepForgotten
<1> QED
  BY <1>1, <1>2, <1>3, <1>4, <1>5, <1>6, <1>7, <1>8, <1>9, <1>10, <1>11, <1>12, <1>13,
     <1>14, <1>15
     DEF Next, LoopStep

\* A finished row never changes its status but by retention, which deletes only
\* finished rows, and `done' comes only from `running'.
THEOREM VerdictsAreFinal == Spec => VerdictIsFinal
<1>1. Spec => [][VerdictStep]_vars
  BY VerdictKept, Invariance, PTL DEF Spec
<1> QED
  BY <1>1 DEF VerdictIsFinal, VerdictStep

-----------------------------------------------------------------------------
(* The fleet implements the job lifecycle. *)

LEMMA LifeStarts == Init => Life!LifeInit
BY DEF Init, StoreInit, WorkInit, Life!LifeInit, Held, Working, WorkingPlaces

LifeStep == [Life!LifeNext]_(Life!lifeVars)

LEMMA LifeKept == TypeInv /\ OwnInv /\ [Next]_vars => LifeStep
<1> SUFFICES ASSUME TypeInv, OwnInv, [Next]_vars PROVE LifeStep
    OBVIOUS
<1> USE LoopZero DEF TypeInv, TypeOK, Attached, StoreTypeOK, WorkTypeOK,
            OwnInv, Owned, Parked, Unfinished, Held, Working, WorkingPlaces, TailPlaces,
            storeVars, jobVars, workVars, sweepVars, fleetVars
\* A step that neither changes a row's status nor a loop's part in a job.
<1>q. ASSUME status' = status,
             \A l \in Loops : Working(l)' = Working(l) /\ (Working(l) => cur'[l] = cur[l])
      PROVE LifeStep
  BY <1>q DEF LifeStep, Life!lifeVars
\* A verdict of a loop.
<1>v. ASSUME NEW l \in Loops, NEW v \in {"done", "failed"}, Working(l), ~Working(l)',
             status' = [status EXCEPT ![cur[l]] = v],
             \A m \in Loops \ {l} : pc'[m] = pc[m] /\ cur'[m] = cur[m]
      PROVE LifeStep
  <2>1. Held[l] = cur[l] /\ cur[l] # NoJob
    BY <1>v, StoreAssumption
  <2>2. Held' = [Held EXCEPT ![l] = NoJob]
    BY <1>v
  <2>3. Life!Finish(l, v)
    BY <1>v, <2>1, <2>2 DEF Life!Finish
  <2> QED
    BY <2>3 DEF LifeStep, Life!LifeNext
\* Loops that are lost.
<1>a. ASSUME NEW dead \in SUBSET Loops, status' = status, \A l \in dead : pc'[l] = "gone",
             \A l \in Loops \ dead : pc'[l] = pc[l] /\ cur'[l] = cur[l]
      PROVE LifeStep
  <2>1. Life!Abandon(dead)
    BY <1>a DEF Life!Abandon
  <2> QED
    BY <2>1 DEF LifeStep, Life!LifeNext
<1>1. ASSUME NEW j \in Jobs, NEW t \in TiersOf[j], Submit(j, t) PROVE LifeStep
  <2>1. Life!Enqueue(j)
    BY <1>1 DEF Submit, CreateJob, Life!Enqueue
  <2> QED
    BY <2>1 DEF LifeStep, Life!LifeNext
<1>2. CASE Tick
  BY <1>2, <1>q DEF Tick
<1>3. ASSUME NEW l \in Loops, LoopPolls(l) PROVE LifeStep
  <2>1. CASE BeginTick(l, stop)
    BY <1>3, <2>1, <1>q DEF LoopPolls, BeginTick, Goto
  <2>2. CASE Claim(l, ExcludeTiersFor(l))
    <3>1. PICK j \in Jobs : /\ status[j] = "pending"
                            /\ status' = [status EXCEPT ![j] = "running"]
                            /\ cur' = [cur EXCEPT ![l] = j]
      BY <1>3, <2>2 DEF Claim, ClaimNext, Oldest, Eligible
    <3>2. pc[l] = "polling" /\ pc' = [pc EXCEPT ![l] = "claimed"]
      BY <2>2 DEF Claim, Goto
    <3>3. Life!Take(l, j)
      BY <3>1, <3>2 DEF Life!Take
    <3> QED
      BY <3>3 DEF LifeStep, Life!LifeNext
  <2>3. CASE NothingToClaim(l, ExcludeTiersFor(l))
    BY <1>3, <2>3, <1>q DEF LoopPolls, NothingToClaim, Goto
  <2> QED
    BY <1>3, <2>1, <2>2, <2>3 DEF LoopPolls
<1>4. ASSUME NEW l \in Loops, LoopRuns(l) PROVE LifeStep
  <2>1. CASE StartChild(l)
    BY <1>4, <2>1, <1>q DEF LoopRuns, StartChild, MarkRunning, Goto
  <2>2. CASE KeepWatching(l)
    BY <1>4, <2>2, <1>q DEF LoopRuns, KeepWatching, Goto
  <2>3. CASE SeeNoCancel(l)
    BY <1>4, <2>3, <1>q DEF LoopRuns, SeeNoCancel, Goto
  <2>4. CASE SeeCancel(l)
    BY <1>4, <2>4, <1>q DEF LoopRuns, SeeCancel, StopWatching, Goto
  <2>5. CASE KillOverdue(l)
    BY <1>4, <2>5, <1>q DEF LoopRuns, KillOverdue, StopWatching, Goto
  <2>6. CASE LeaveWatch(l)
    BY <1>4, <2>6, <1>q DEF LoopRuns, LeaveWatch, StopWatching, Goto
  <2>7. CASE ClearSignal(l)
    BY <1>4, <2>7, <1>q DEF LoopRuns, ClearSignal, Goto
  <2>8. CASE FailVerdict(l)
    BY <1>4, <2>8, <1>v DEF LoopRuns, FailVerdict, MarkFailed, Goto
  <2>9. CASE DoneVerdict(l)
    BY <1>4, <2>9, <1>v DEF LoopRuns, DoneVerdict, MarkDone, Goto
  <2>10. CASE RecordCache(l)
    BY <1>4, <2>10, <1>q DEF LoopRuns, RecordCache, Goto
  <2>11. CASE SkipMail(l)
    BY <1>4, <2>11, <1>q DEF LoopRuns, SkipMail, Return, Goto
  <2>12. CASE SendMail(l)
    BY <1>4, <2>12, <1>q DEF LoopRuns, SendMail, Goto
  <2>13. CASE ForgetAddress(l)
    BY <1>4, <2>13, <1>q DEF LoopRuns, ForgetAddress, ClearEmail, Return, Goto
  <2> QED
    BY <1>4, <2>1, <2>2, <2>3, <2>4, <2>5, <2>6, <2>7, <2>8, <2>9, <2>10, <2>11, <2>12, <2>13
       DEF LoopRuns, RunStep
<1>5. ASSUME NEW l \in Loops, LoopExits(l) PROVE LifeStep
  BY <1>5, <1>q DEF LoopExits, Goto
<1>6. ASSUME NEW l \in Loops, LoopDies(l) PROVE LifeStep
  BY <1>6, <1>q DEF LoopDies, Goto
<1>7. ASSUME NEW l \in Loops, LoopFails(l) PROVE LifeStep
  <2>1. pc' = [pc EXCEPT ![l] = "raising"]
    BY <1>7 DEF LoopFails, TickFails, StopWatching, Goto
  <2>2. CASE Working(l) /\ MarkFailed(cur[l], "other")
    BY <1>7, <2>1, <2>2, <1>v DEF LoopFails, TickFails, MarkFailed
  <2>3. CASE pc[l] = "mailed" /\ UNCHANGED jobVars
    BY <1>7, <2>1, <2>3, <1>q DEF LoopFails, TickFails
  <2> QED
    BY <1>7, <2>2, <2>3 DEF LoopFails, TickFails
<1>8. ASSUME NEW l \in Loops, TerminateStraggler(l) PROVE LifeStep
  <2>1. status' = status /\ pc' = [pc EXCEPT ![l] = "gone"] /\ cur' = [cur EXCEPT ![l] = NoJob]
    BY <1>8 DEF TerminateStraggler, LoopVanishes
  <2>2. /\ {l} \in SUBSET Loops
        /\ \A k \in {l} : pc'[k] = "gone"
        /\ \A k \in Loops \ {l} : pc'[k] = pc[k] /\ cur'[k] = cur[k]
    BY <2>1
  <2> QED
    BY <2>1, <2>2, <1>a
<1>9. ASSUME NEW l \in Loops, KillLoop(l) PROVE LifeStep
  <2>1. status' = status /\ pc' = [pc EXCEPT ![l] = "gone"] /\ cur' = [cur EXCEPT ![l] = NoJob]
    BY <1>9 DEF KillLoop, LoopVanishes
  <2>2. /\ {l} \in SUBSET Loops
        /\ \A k \in {l} : pc'[k] = "gone"
        /\ \A k \in Loops \ {l} : pc'[k] = pc[k] /\ cur'[k] = cur[k]
    BY <2>1
  <2> QED
    BY <2>1, <2>2, <1>a
<1>10. ASSUME NEW j \in Jobs, ChildExits(j) PROVE LifeStep
  BY <1>10, <1>q DEF ChildExits
<1>11. ASSUME NEW l \in Loops, DeadlinePasses(l) PROVE LifeStep
  BY <1>11, <1>q DEF DeadlinePasses
<1>12. CASE SweepHourly
  <2>1. CASE EvictRows(0)
    BY <2>1, <1>q DEF EvictRows, Goto
  <2>2. CASE SelectPurgeable(0)
    BY <2>2, <1>q DEF SelectPurgeable, Goto
  <2>3. CASE DeleteRows(0)
    <3>1. status' = [j \in Jobs |-> IF j \in Purgeable THEN "purged" ELSE status[j]]
      BY <2>3 DEF DeleteRows, DeletePurgeable
    <3>2. \A j \in Purgeable : j \in Jobs /\ status[j] \in {"done", "failed"}
      BY DEF Purgeable, Statuses
    <3>3. Held' = Held
      BY <2>3 DEF DeleteRows, Goto
    <3>4. Life!Forget(Purgeable)
      BY <3>1, <3>2, <3>3 DEF Life!Forget
    <3> QED
      BY <3>2, <3>4 DEF LifeStep, Life!LifeNext
  <2>4. CASE RemoveDirs(0)
    BY <2>4, <1>q DEF RemoveDirs, Goto
  <2> QED
    BY <1>12, <2>1, <2>2, <2>3, <2>4 DEF SweepHourly, Sweep
<1>13. CASE Supervise
  <2>1. CASE Boot
    <3>1. Life!Requeue
      BY <2>1 DEF Boot, RequeueStaleRunning, Life!Requeue
    <3> QED
      BY <3>1 DEF LifeStep, Life!LifeNext
  <2>2. CASE StartWorkers
    BY <2>2, <1>q DEF StartWorkers
  <2>3. CASE BeginStop
    BY <2>3, <1>q DEF BeginStop
  <2>4. CASE GraceExpires
    BY <2>4, <1>q DEF GraceExpires
  <2>5. CASE Exit
    BY <2>5, <1>q DEF Exit
  <2> QED
    BY <1>13, <2>1, <2>2, <2>3, <2>4, <2>5 DEF Supervise
<1>14. CASE SigTerm
  BY <1>14, <1>q DEF SigTerm
<1>15. CASE KillFleet
  BY <1>15, <1>a DEF KillFleet, AllVanish
<1>16. CASE UNCHANGED vars
  BY <1>16, <1>q DEF vars
<1> QED
  BY <1>1, <1>2, <1>3, <1>4, <1>5, <1>6, <1>7, <1>8, <1>9, <1>10, <1>11, <1>12, <1>13,
     <1>14, <1>15, <1>16
     DEF Next, LoopStep

\* The fleet implements the abstract lifecycle of a job: held by one worker from
\* the claim to the verdict, abandoned by a crash, requeued while nobody works.
THEOREM FleetImplementsLifecycle == Spec => ImplementsLifecycle
<1>1. Spec => [][LifeStep]_(Life!lifeVars)
  BY Invariance, LifeKept, PTL DEF Spec, LifeStep
<1> QED
  BY <1>1, LifeStarts, PTL DEF ImplementsLifecycle, Life!LifeSpec, LifeStep, Spec

-----------------------------------------------------------------------------
(* The order of the queue. *)

\* Rows are stamped in the order in which they come, and a job that runs was
\* claimed.
Stamped ==
    /\ \A j \in Jobs : created[j] <= clock
    /\ \A j \in Jobs : status[j] = "new" => claims[j] = 0
    /\ \A j \in Jobs : status[j] = "running" => claims[j] > 0

OrderInv == Stamped /\ FirstComeFirstServed

LEMMA OrderInit == Init => OrderInv
BY DEF Init, StoreInit, WorkInit, OrderInv, Stamped, FirstComeFirstServed

LEMMA OrderStep == TypeInv /\ OwnInv /\ OrderInv /\ [Next]_vars => OrderInv'
<1> SUFFICES ASSUME TypeInv, OwnInv, OrderInv, [Next]_vars PROVE OrderInv'
    OBVIOUS
<1> USE LoopZero DEF TypeInv, TypeOK, Attached, StoreTypeOK, WorkTypeOK, SweepTypeOK,
            OwnInv, Owned, Parked, Unfinished, Busy, Working, InTail,
            WorkingPlaces, TailPlaces, OrderInv, Stamped, FirstComeFirstServed,
            storeVars, jobVars, workVars, sweepVars, fleetVars
<1>1. ASSUME NEW j \in Jobs, NEW t \in TiersOf[j], Submit(j, t) PROVE OrderInv'
  BY <1>1 DEF Submit, CreateJob
<1>2. CASE Tick
  BY <1>2 DEF Tick
<1>3. ASSUME NEW l \in Loops, LoopPolls(l) PROVE OrderInv'
  <2>1. CASE BeginTick(l, stop)
    BY <1>3, <2>1 DEF LoopPolls, BeginTick, Goto
  <2>2. CASE Claim(l, ExcludeTiersFor(l))
    BY <1>3, <2>2 DEF LoopPolls, Claim, ClaimNext, Oldest, Eligible, ExcludeTiersFor, Tiers, Goto
  <2>3. CASE NothingToClaim(l, ExcludeTiersFor(l))
    BY <1>3, <2>3 DEF LoopPolls, NothingToClaim, Goto
  <2> QED
    BY <1>3, <2>1, <2>2, <2>3
       DEF LoopPolls
<1>4. ASSUME NEW l \in Loops, LoopRuns(l) PROVE OrderInv'
  <2>1. CASE StartChild(l)
    BY <1>4, <2>1 DEF LoopRuns, StartChild, MarkRunning, Goto
  <2>2. CASE KeepWatching(l)
    BY <1>4, <2>2 DEF LoopRuns, KeepWatching, Goto
  <2>3. CASE SeeNoCancel(l)
    BY <1>4, <2>3 DEF LoopRuns, SeeNoCancel, Goto
  <2>4. CASE SeeCancel(l)
    BY <1>4, <2>4 DEF LoopRuns, SeeCancel, StopWatching, Goto
  <2>5. CASE KillOverdue(l)
    BY <1>4, <2>5 DEF LoopRuns, KillOverdue, StopWatching, Goto
  <2>6. CASE LeaveWatch(l)
    BY <1>4, <2>6 DEF LoopRuns, LeaveWatch, StopWatching, Goto
  <2>7. CASE ClearSignal(l)
    BY <1>4, <2>7 DEF LoopRuns, ClearSignal, ClearCancelRequest, Goto
  <2>8. CASE FailVerdict(l)
    BY <1>4, <2>8 DEF LoopRuns, FailVerdict, MarkFailed, Goto
  <2>9. CASE DoneVerdict(l)
    BY <1>4, <2>9 DEF LoopRuns, DoneVerdict, MarkDone, Goto
  <2>10. CASE RecordCache(l)
    BY <1>4, <2>10 DEF LoopRuns, RecordCache, CachePut, Goto
  <2>11. CASE SkipMail(l)
    BY <1>4, <2>11 DEF LoopRuns, SkipMail, Return, Goto
  <2>12. CASE SendMail(l)
    BY <1>4, <2>12 DEF LoopRuns, SendMail, Goto
  <2>13. CASE ForgetAddress(l)
    BY <1>4, <2>13 DEF LoopRuns, ForgetAddress, ClearEmail, Return, Goto
  <2> QED
    BY <1>4, <2>1, <2>2, <2>3, <2>4, <2>5, <2>6, <2>7, <2>8, <2>9, <2>10, <2>11, <2>12, <2>13
       DEF LoopRuns, RunStep
<1>5. ASSUME NEW l \in Loops, LoopExits(l) PROVE OrderInv'
  BY <1>5 DEF LoopExits, Goto
<1>6. ASSUME NEW l \in Loops, LoopDies(l) PROVE OrderInv'
  BY <1>6 DEF LoopDies, Goto
<1>7. ASSUME NEW l \in Loops, LoopFails(l) PROVE OrderInv'
  BY <1>7 DEF LoopFails, TickFails, MarkFailed, StopWatching, Goto
<1>8. ASSUME NEW l \in Loops, TerminateStraggler(l) PROVE OrderInv'
  BY <1>8 DEF TerminateStraggler, LoopVanishes, SweepForgotten
<1>9. ASSUME NEW l \in Loops, KillLoop(l) PROVE OrderInv'
  BY <1>9 DEF KillLoop, LoopVanishes, SweepForgotten
<1>10. ASSUME NEW j \in Jobs, ChildExits(j), UNCHANGED <<sweepVars, fleetVars>> PROVE OrderInv'
  BY <1>10 DEF ChildExits
<1>11. ASSUME NEW l \in Loops, DeadlinePasses(l), UNCHANGED <<sweepVars, fleetVars>> PROVE OrderInv'
  BY <1>11 DEF DeadlinePasses
<1>12. CASE SweepHourly
  <2>1. CASE EvictRows(0)
    BY <1>12, <2>1 DEF SweepHourly, EvictRows, CacheSweep, Goto
  <2>2. CASE SelectPurgeable(0)
    BY <1>12, <2>2 DEF SweepHourly, SelectPurgeable, Goto
  <2>3. CASE DeleteRows(0)
    BY <1>12, <2>3 DEF SweepHourly, DeleteRows, DeletePurgeable, Goto
  <2>4. CASE RemoveDirs(0)
    BY <1>12, <2>4 DEF SweepHourly, RemoveDirs, Goto
  <2> QED
    BY <1>12, <2>1, <2>2, <2>3, <2>4
       DEF SweepHourly, Sweep
<1>13. CASE Supervise
  <2>1. CASE Boot
    BY <1>13, <2>1 DEF Boot, RequeueStaleRunning
  <2>2. CASE StartWorkers
    BY <1>13, <2>2 DEF StartWorkers, SweepForgotten
  <2>3. CASE BeginStop
    BY <1>13, <2>3 DEF BeginStop
  <2>4. CASE GraceExpires
    BY <1>13, <2>4 DEF GraceExpires
  <2>5. CASE Exit
    BY <1>13, <2>5 DEF Exit
  <2> QED
    BY <1>13, <2>1, <2>2, <2>3, <2>4, <2>5
       DEF Supervise
<1>14. CASE SigTerm
  BY <1>14 DEF SigTerm
<1>15. CASE KillFleet
  BY <1>15 DEF KillFleet, AllVanish, SweepForgotten
<1>16. CASE UNCHANGED vars
  BY <1>16 DEF vars
<1> QED
  BY <1>1, <1>2, <1>3, <1>4, <1>5, <1>6, <1>7, <1>8, <1>9, <1>10, <1>11, <1>12, <1>13,
     <1>14, <1>15, <1>16
     DEF Next, LoopStep

\* While a job waits for its first claim, no job submitted later is claimed before
\* it, except an anonymous one before a big one: claim_next's ORDER BY created_at,
\* across crashes, requeues and cancels.
THEOREM QueueIsFair == Spec => []FirstComeFirstServed
<1>1. OrderInv => FirstComeFirstServed
  BY DEF OrderInv
<1> QED
  BY <1>1, OrderInit, OrderStep, Invariance, PTL DEF Spec

-----------------------------------------------------------------------------
(* Reruns.  A job that waits has used up what the kills and stops allow, less  *)
(* the stop that is going on; a job that runs has one claim more; and a job    *)
(* that lost its loop has been cut.                                            *)

Stopping == sup \in {"stopping", "reaping"}

Cuts(j) == IF tier[j] = "big" THEN cuts ELSE 0

\* The stop that is going on may still cut the job.
Ahead(j) == IF tier[j] = "big" /\ Stopping THEN 1 ELSE 0

\* A loop starts nothing once the stop is under way, and those that outlast the
\* grace have big jobs.
StopIsOrderly ==
    /\ Stopping => stop /\ cuts > 0
    /\ sup = "reaping" =>
          \A l \in Loops : pc[l] # "polling" /\ (Working(l) => tier[cur[l]] = "big")

ClaimsInv ==
    /\ RerunsAreCuts
    /\ \A j \in Jobs : status[j] = "new" => claims[j] = 0
    /\ \A j \in Jobs : status[j] = "pending" => claims[j] + Ahead(j) <= kills + Cuts(j)
    /\ \A l \in Loops : Working(l) => claims[cur[l]] + Ahead(cur[l]) <= 1 + kills + Cuts(cur[l])
    /\ \A j \in Jobs :
          status[j] = "running" /\ (\A l \in Loops : Working(l) => cur[l] # j)
             => claims[j] <= kills + Cuts(j)

RerunInv == StopIsOrderly /\ ClaimsInv

LEMMA RerunInit == Init => RerunInv
BY DEF Init, StoreInit, WorkInit, RerunInv, StopIsOrderly, ClaimsInv, RerunsAreCuts, Stopping,
       Cuts, Ahead, Working, WorkingPlaces

LEMMA NoneToReap ==
  ASSUME RerunInv, NEW l \in Loops, pc[l] = "polling" PROVE sup # "reaping"
BY DEF RerunInv, StopIsOrderly

LEMMA RerunStep == TypeInv /\ OwnInv /\ RerunInv /\ [Next]_vars => RerunInv'
<1> SUFFICES ASSUME TypeInv, OwnInv, RerunInv, [Next]_vars PROVE RerunInv'
    OBVIOUS
<1> USE LoopZero DEF TypeInv, TypeOK, Attached, StoreTypeOK, WorkTypeOK, SweepTypeOK,
            OwnInv, Owned, Parked, Unfinished, Busy, Working, InTail,
            WorkingPlaces, TailPlaces, RerunInv, StopIsOrderly, ClaimsInv,
            RerunsAreCuts, Stopping, Cuts, Ahead,
            storeVars, jobVars, workVars, sweepVars, fleetVars
<1>1. ASSUME NEW j \in Jobs, NEW t \in TiersOf[j], Submit(j, t) PROVE RerunInv'
  BY <1>1 DEF Submit, CreateJob
<1>2. CASE Tick
  BY <1>2 DEF Tick
<1>3. ASSUME NEW l \in Loops, LoopPolls(l) PROVE RerunInv'
  <2>1. CASE BeginTick(l, stop)
    BY <1>3, <2>1 DEF LoopPolls, BeginTick, Goto
  <2>2. CASE Claim(l, ExcludeTiersFor(l))
    <3>1. PICK j \in Jobs :
             /\ status[j] = "pending"
             /\ status' = [status EXCEPT ![j] = "running"]
             /\ cur' = [cur EXCEPT ![l] = j]
             /\ claims' = [claims EXCEPT ![j] = @ + 1]
             /\ pc' = [pc EXCEPT ![l] = "claimed"]
             /\ pc[l] = "polling"
             /\ UNCHANGED <<tier, sup, stop, kills, cuts>>
      BY <1>3, <2>2 DEF LoopPolls, Claim, ClaimNext, Oldest, Eligible, Goto
    <3>a. sup # "reaping"
      BY <1>3, <3>1, NoneToReap
    <3>2. StopIsOrderly'
      BY <3>1, <3>a
    <3>3. ClaimsInv'
      BY <3>1
    <3> QED
      BY <3>2, <3>3
  <2>3. CASE NothingToClaim(l, ExcludeTiersFor(l))
    BY <1>3, <2>3 DEF LoopPolls, NothingToClaim, Goto
  <2> QED
    BY <1>3, <2>1, <2>2, <2>3
       DEF LoopPolls
<1>4. ASSUME NEW l \in Loops, LoopRuns(l) PROVE RerunInv'
  <2>1. CASE StartChild(l)
    BY <1>4, <2>1 DEF LoopRuns, StartChild, MarkRunning, Goto
  <2>2. CASE KeepWatching(l)
    BY <1>4, <2>2 DEF LoopRuns, KeepWatching, Goto
  <2>3. CASE SeeNoCancel(l)
    BY <1>4, <2>3 DEF LoopRuns, SeeNoCancel, Goto
  <2>4. CASE SeeCancel(l)
    BY <1>4, <2>4 DEF LoopRuns, SeeCancel, StopWatching, Goto
  <2>5. CASE KillOverdue(l)
    BY <1>4, <2>5 DEF LoopRuns, KillOverdue, StopWatching, Goto
  <2>6. CASE LeaveWatch(l)
    BY <1>4, <2>6 DEF LoopRuns, LeaveWatch, StopWatching, Goto
  <2>7. CASE ClearSignal(l)
    BY <1>4, <2>7 DEF LoopRuns, ClearSignal, ClearCancelRequest, Goto
  <2>8. CASE FailVerdict(l)
    BY <1>4, <2>8 DEF LoopRuns, FailVerdict, MarkFailed, Goto
  <2>9. CASE DoneVerdict(l)
    BY <1>4, <2>9 DEF LoopRuns, DoneVerdict, MarkDone, Goto
  <2>10. CASE RecordCache(l)
    BY <1>4, <2>10 DEF LoopRuns, RecordCache, CachePut, Goto
  <2>11. CASE SkipMail(l)
    BY <1>4, <2>11 DEF LoopRuns, SkipMail, Return, Goto
  <2>12. CASE SendMail(l)
    BY <1>4, <2>12 DEF LoopRuns, SendMail, Goto
  <2>13. CASE ForgetAddress(l)
    BY <1>4, <2>13 DEF LoopRuns, ForgetAddress, ClearEmail, Return, Goto
  <2> QED
    BY <1>4, <2>1, <2>2, <2>3, <2>4, <2>5, <2>6, <2>7, <2>8, <2>9, <2>10, <2>11, <2>12, <2>13
       DEF LoopRuns, RunStep
<1>5. ASSUME NEW l \in Loops, LoopExits(l) PROVE RerunInv'
  BY <1>5 DEF LoopExits, Goto
<1>6. ASSUME NEW l \in Loops, LoopDies(l) PROVE RerunInv'
  BY <1>6 DEF LoopDies, Goto
<1>7. ASSUME NEW l \in Loops, LoopFails(l) PROVE RerunInv'
  BY <1>7 DEF LoopFails, TickFails, MarkFailed, StopWatching, Goto
<1>8. ASSUME NEW l \in Loops, TerminateStraggler(l) PROVE RerunInv'
  BY <1>8 DEF TerminateStraggler, LoopVanishes, SweepForgotten
<1>9. ASSUME NEW l \in Loops, KillLoop(l) PROVE RerunInv'
  BY <1>9 DEF KillLoop, LoopVanishes, SweepForgotten
<1>10. ASSUME NEW j \in Jobs, ChildExits(j), UNCHANGED <<sweepVars, fleetVars>> PROVE RerunInv'
  BY <1>10 DEF ChildExits
<1>11. ASSUME NEW l \in Loops, DeadlinePasses(l), UNCHANGED <<sweepVars, fleetVars>> PROVE RerunInv'
  BY <1>11 DEF DeadlinePasses
<1>12. CASE SweepHourly
  <2>1. CASE EvictRows(0)
    BY <1>12, <2>1 DEF SweepHourly, EvictRows, CacheSweep, Goto
  <2>2. CASE SelectPurgeable(0)
    BY <1>12, <2>2 DEF SweepHourly, SelectPurgeable, Goto
  <2>3. CASE DeleteRows(0)
    BY <1>12, <2>3 DEF SweepHourly, DeleteRows, DeletePurgeable, Goto
  <2>4. CASE RemoveDirs(0)
    BY <1>12, <2>4 DEF SweepHourly, RemoveDirs, Goto
  <2> QED
    BY <1>12, <2>1, <2>2, <2>3, <2>4
       DEF SweepHourly, Sweep
<1>13. CASE Supervise
  <2>1. CASE Boot
    BY <1>13, <2>1 DEF Boot, RequeueStaleRunning
  <2>2. CASE StartWorkers
    BY <1>13, <2>2 DEF StartWorkers, SweepForgotten
  <2>3. CASE BeginStop
    BY <1>13, <2>3 DEF BeginStop
  <2>4. CASE GraceExpires
    BY <1>13, <2>4 DEF GraceExpires
  <2>5. CASE Exit
    BY <1>13, <2>5 DEF Exit
  <2> QED
    BY <1>13, <2>1, <2>2, <2>3, <2>4, <2>5
       DEF Supervise
<1>14. CASE SigTerm
  BY <1>14 DEF SigTerm
<1>15. CASE KillFleet
  BY <1>15 DEF KillFleet, AllVanish, SweepForgotten
<1>16. CASE UNCHANGED vars
  BY <1>16 DEF vars
<1> QED
  BY <1>1, <1>2, <1>3, <1>4, <1>5, <1>6, <1>7, <1>8, <1>9, <1>10, <1>11, <1>12, <1>13,
     <1>14, <1>15, <1>16
     DEF Next, LoopStep

\* A job is claimed at most once, and once more for each kill and, if it is big, for
\* each stop: a stop does not cut an anonymous job, and an exception reruns nothing.
THEOREM OnlyCutJobsRerun == Spec => []RerunsAreCuts
<1>1. RerunInv => RerunsAreCuts
  BY DEF RerunInv, ClaimsInv
<1> QED
  BY <1>1, RerunInit, RerunStep, Invariance, PTL DEF Spec

-----------------------------------------------------------------------------
(* The cache.  Retention works in four steps while loops go on. *)

\* What is selected for removal is finished, old, and of no use to the cache.
DoomedAreOld ==
    \A l \in Loops : \A j \in doomed[l] :
        /\ status[j] \in {"done", "failed", "purged"}
        /\ finished[j] + Retention < clock
        /\ j \notin Pinned

\* A loop that is about to record a job has its result on disk, and a job in the
\* tail is too young to be selected.
ReadyToRecord ==
    /\ \A l \in Loops : pc[l] = "record" => status[cur[l]] = "done"
    /\ \A l \in Loops : InTail(l) => clock <= finished[cur[l]] + Retention
    /\ \A l \in Loops :
          pc[l] = "record" \/ (Working(l) /\ pc[l] # "claimed") => cur[l] \in artifacts

CacheInv == CacheReplaysDone /\ DoomedAreOld /\ ReadyToRecord

LEMMA CacheInit == Init => CacheInv
BY DEF Init, StoreInit, WorkInit, SweepInit, CacheInv, CacheReplaysDone, DoomedAreOld, ReadyToRecord,
       Rows, Pinned, Working, InTail, WorkingPlaces, TailPlaces

LEMMA CacheStep == TypeInv /\ OwnInv /\ CacheInv /\ [Next]_vars => CacheInv'
<1> SUFFICES ASSUME TypeInv, OwnInv, CacheInv, [Next]_vars PROVE CacheInv'
    OBVIOUS
<1> USE LoopZero, StoreAssumption DEF TypeInv, TypeOK, Attached, StoreTypeOK, WorkTypeOK, SweepTypeOK,
            OwnInv, Owned, Parked, Unfinished, Busy, Working, InTail,
            WorkingPlaces, TailPlaces, CacheInv, CacheReplaysDone,
            DoomedAreOld, ReadyToRecord, Rows, Pinned,
            storeVars, jobVars, workVars, sweepVars, fleetVars
<1>1. ASSUME NEW j \in Jobs, NEW t \in TiersOf[j], Submit(j, t) PROVE CacheInv'
  BY <1>1 DEF Submit, CreateJob
<1>2. CASE Tick
  BY <1>2 DEF Tick
<1>3. ASSUME NEW l \in Loops, LoopPolls(l) PROVE CacheInv'
  <2>1. CASE BeginTick(l, stop)
    BY <1>3, <2>1 DEF LoopPolls, BeginTick, Goto
  <2>2. CASE Claim(l, ExcludeTiersFor(l))
    <3>1. PICK j \in Jobs :
             /\ status[j] = "pending"
             /\ status' = [status EXCEPT ![j] = "running"]
             /\ cur' = [cur EXCEPT ![l] = j]
             /\ pc' = [pc EXCEPT ![l] = "claimed"]
             /\ UNCHANGED <<clock, finished, cache, artifacts, doomed>>
      BY <1>3, <2>2 DEF LoopPolls, Claim, ClaimNext, Oldest, Eligible, Goto
    <3> QED
      BY <3>1
  <2>3. CASE NothingToClaim(l, ExcludeTiersFor(l))
    BY <1>3, <2>3 DEF LoopPolls, NothingToClaim, Goto
  <2> QED
    BY <1>3, <2>1, <2>2, <2>3
       DEF LoopPolls
<1>4. ASSUME NEW l \in Loops, LoopRuns(l) PROVE CacheInv'
  <2>1. CASE StartChild(l)
    BY <1>4, <2>1 DEF LoopRuns, StartChild, MarkRunning, Goto
  <2>2. CASE KeepWatching(l)
    BY <1>4, <2>2 DEF LoopRuns, KeepWatching, Goto
  <2>3. CASE SeeNoCancel(l)
    BY <1>4, <2>3 DEF LoopRuns, SeeNoCancel, Goto
  <2>4. CASE SeeCancel(l)
    BY <1>4, <2>4 DEF LoopRuns, SeeCancel, StopWatching, Goto
  <2>5. CASE KillOverdue(l)
    BY <1>4, <2>5 DEF LoopRuns, KillOverdue, StopWatching, Goto
  <2>6. CASE LeaveWatch(l)
    BY <1>4, <2>6 DEF LoopRuns, LeaveWatch, StopWatching, Goto
  <2>7. CASE ClearSignal(l)
    BY <1>4, <2>7 DEF LoopRuns, ClearSignal, ClearCancelRequest, Goto
  <2>8. CASE FailVerdict(l)
    BY <1>4, <2>8 DEF LoopRuns, FailVerdict, MarkFailed, Goto
  <2>9. CASE DoneVerdict(l)
    BY <1>4, <2>9 DEF LoopRuns, DoneVerdict, MarkDone, Goto
  <2>10. CASE RecordCache(l)
    BY <1>4, <2>10 DEF LoopRuns, RecordCache, CachePut, Goto
  <2>11. CASE SkipMail(l)
    BY <1>4, <2>11 DEF LoopRuns, SkipMail, Return, Goto
  <2>12. CASE SendMail(l)
    BY <1>4, <2>12 DEF LoopRuns, SendMail, Goto
  <2>13. CASE ForgetAddress(l)
    BY <1>4, <2>13 DEF LoopRuns, ForgetAddress, ClearEmail, Return, Goto
  <2> QED
    BY <1>4, <2>1, <2>2, <2>3, <2>4, <2>5, <2>6, <2>7, <2>8, <2>9, <2>10, <2>11, <2>12, <2>13
       DEF LoopRuns, RunStep
<1>5. ASSUME NEW l \in Loops, LoopExits(l) PROVE CacheInv'
  BY <1>5 DEF LoopExits, Goto
<1>6. ASSUME NEW l \in Loops, LoopDies(l) PROVE CacheInv'
  BY <1>6 DEF LoopDies, Goto
<1>7. ASSUME NEW l \in Loops, LoopFails(l) PROVE CacheInv'
  BY <1>7, SMTT(40) DEF LoopFails, TickFails, MarkFailed, StopWatching, Goto
<1>8. ASSUME NEW l \in Loops, TerminateStraggler(l) PROVE CacheInv'
  BY <1>8 DEF TerminateStraggler, LoopVanishes, SweepForgotten
<1>9. ASSUME NEW l \in Loops, KillLoop(l) PROVE CacheInv'
  BY <1>9 DEF KillLoop, LoopVanishes, SweepForgotten
<1>10. ASSUME NEW j \in Jobs, ChildExits(j), UNCHANGED <<sweepVars, fleetVars>> PROVE CacheInv'
  BY <1>10 DEF ChildExits
<1>11. ASSUME NEW l \in Loops, DeadlinePasses(l), UNCHANGED <<sweepVars, fleetVars>> PROVE CacheInv'
  BY <1>11 DEF DeadlinePasses
<1>12. CASE SweepHourly
  <2>1. CASE EvictRows(0)
    BY <1>12, <2>1 DEF SweepHourly, EvictRows, CacheSweep, Goto
  <2>2. CASE SelectPurgeable(0)
    BY <1>12, <2>2 DEF SweepHourly, SelectPurgeable, Purgeable, Statuses, SweepPlaces, Goto
  <2>3. CASE DeleteRows(0)
    BY <1>12, <2>3 DEF SweepHourly, DeleteRows, DeletePurgeable, Purgeable, Statuses,
                     SweepPlaces, Goto
  <2>4. CASE RemoveDirs(0)
    BY <1>12, <2>4 DEF SweepHourly, RemoveDirs, Goto
  <2> QED
    BY <1>12, <2>1, <2>2, <2>3, <2>4
       DEF SweepHourly, Sweep
<1>13. CASE Supervise
  <2>1. CASE Boot
    BY <1>13, <2>1 DEF Boot, RequeueStaleRunning
  <2>2. CASE StartWorkers
    BY <1>13, <2>2 DEF StartWorkers, SweepForgotten
  <2>3. CASE BeginStop
    BY <1>13, <2>3 DEF BeginStop
  <2>4. CASE GraceExpires
    BY <1>13, <2>4 DEF GraceExpires
  <2>5. CASE Exit
    BY <1>13, <2>5 DEF Exit
  <2> QED
    BY <1>13, <2>1, <2>2, <2>3, <2>4, <2>5
       DEF Supervise
<1>14. CASE SigTerm
  BY <1>14 DEF SigTerm
<1>15. CASE KillFleet
  BY <1>15 DEF KillFleet, AllVanish, SweepForgotten
<1>16. CASE UNCHANGED vars
  BY <1>16 DEF vars
<1> QED
  BY <1>1, <1>2, <1>3, <1>4, <1>5, <1>6, <1>7, <1>8, <1>9, <1>10, <1>11, <1>12, <1>13,
     <1>14, <1>15, <1>16
     DEF Next, LoopStep

\* A cache row always leads to a finished job whose artifacts are there: eviction,
\* selection, deletion and the removal of directories never meet a new row.
THEOREM CacheIsSound == Spec => []CacheReplaysDone
<1>1. CacheInv => CacheReplaysDone
  BY DEF CacheInv
<1> QED
  BY <1>1, CacheInit, CacheStep, Invariance, PTL DEF Spec

-----------------------------------------------------------------------------
(* Addresses.  Each exception leaves one behind, each kill one per loop; a stop *)
(* may leave one for each loop that is still there.                             *)

Out    == {l \in Loops : pc[l] # "gone"}
Budget == errors + FleetSize * (kills + cuts)

\* Only a big job has an address.
AddressIsBig == \A j \in Jobs : email[j] => tier[j] = "big"

\* How a step may change the addresses left behind, the loops that a stop waits
\* for, and the budget.
Quiet ==
    /\ LeftAddresses' \subseteq LeftAddresses
    /\ Stopping' => Stopping /\ Out' \subseteq Out
    /\ UNCHANGED <<kills, cuts, errors>>

LosesOne ==
    /\ \E j \in Jobs \cup {NoJob} : LeftAddresses' \subseteq LeftAddresses \cup {j}
    /\ Stopping' => Stopping /\ Out' \subseteq Out
    /\ \/ errors' = errors + 1 /\ UNCHANGED <<kills, cuts>>
       \/ kills' = kills + 1 /\ UNCHANGED <<errors, cuts>>

Terminates ==
    /\ Stopping
    /\ \E l \in Out : LeftAddresses' \subseteq LeftAddresses \cup {cur[l]} /\ Out' = Out \ {l}
    /\ UNCHANGED <<kills, cuts, errors>>

LosesAll ==
    /\ LeftAddresses' \subseteq LeftAddresses \cup {cur[l] : l \in Loops}
    /\ ~Stopping'
    /\ kills' = kills + 1 /\ UNCHANGED <<errors, cuts>>

Stops ==
    /\ LeftAddresses' \subseteq LeftAddresses
    /\ ~Stopping
    /\ cuts' = cuts + 1 /\ UNCHANGED <<errors, kills>>

AddressMove == Quiet \/ LosesOne \/ Terminates \/ LosesAll \/ Stops

LEMMA BigStep == TypeInv /\ AddressIsBig /\ [Next]_vars => AddressIsBig'
<1> SUFFICES ASSUME TypeInv, AddressIsBig, [Next]_vars PROVE AddressIsBig'
    OBVIOUS
<1> USE LoopZero DEF TypeInv, TypeOK, StoreTypeOK, AddressIsBig,
            storeVars, jobVars, workVars, sweepVars, fleetVars
<1>1. ASSUME NEW j \in Jobs, NEW t \in TiersOf[j], Submit(j, t) PROVE AddressIsBig'
  BY <1>1 DEF Submit, CreateJob
<1>2. CASE Tick
  BY <1>2 DEF Tick
<1>3. ASSUME NEW l \in Loops, LoopPolls(l) PROVE AddressIsBig'
  <2>1. CASE BeginTick(l, stop)
    BY <1>3, <2>1 DEF LoopPolls, BeginTick, Goto
  <2>2. CASE Claim(l, ExcludeTiersFor(l))
    BY <1>3, <2>2 DEF LoopPolls, Claim, ClaimNext, Goto
  <2>3. CASE NothingToClaim(l, ExcludeTiersFor(l))
    BY <1>3, <2>3 DEF LoopPolls, NothingToClaim, Goto
  <2> QED
    BY <1>3, <2>1, <2>2, <2>3
       DEF LoopPolls
<1>4. ASSUME NEW l \in Loops, LoopRuns(l) PROVE AddressIsBig'
  <2>1. CASE StartChild(l)
    BY <1>4, <2>1 DEF LoopRuns, StartChild, MarkRunning, Goto
  <2>2. CASE KeepWatching(l)
    BY <1>4, <2>2 DEF LoopRuns, KeepWatching, Goto
  <2>3. CASE SeeNoCancel(l)
    BY <1>4, <2>3 DEF LoopRuns, SeeNoCancel, Goto
  <2>4. CASE SeeCancel(l)
    BY <1>4, <2>4 DEF LoopRuns, SeeCancel, StopWatching, Goto
  <2>5. CASE KillOverdue(l)
    BY <1>4, <2>5 DEF LoopRuns, KillOverdue, StopWatching, Goto
  <2>6. CASE LeaveWatch(l)
    BY <1>4, <2>6 DEF LoopRuns, LeaveWatch, StopWatching, Goto
  <2>7. CASE ClearSignal(l)
    BY <1>4, <2>7 DEF LoopRuns, ClearSignal, ClearCancelRequest, Goto
  <2>8. CASE FailVerdict(l)
    BY <1>4, <2>8 DEF LoopRuns, FailVerdict, MarkFailed, Goto
  <2>9. CASE DoneVerdict(l)
    BY <1>4, <2>9 DEF LoopRuns, DoneVerdict, MarkDone, Goto
  <2>10. CASE RecordCache(l)
    BY <1>4, <2>10 DEF LoopRuns, RecordCache, CachePut, Goto
  <2>11. CASE SkipMail(l)
    BY <1>4, <2>11 DEF LoopRuns, SkipMail, Return, Goto
  <2>12. CASE SendMail(l)
    BY <1>4, <2>12 DEF LoopRuns, SendMail, Goto
  <2>13. CASE ForgetAddress(l)
    BY <1>4, <2>13 DEF LoopRuns, ForgetAddress, ClearEmail, Return, Goto
  <2> QED
    BY <1>4, <2>1, <2>2, <2>3, <2>4, <2>5, <2>6, <2>7, <2>8, <2>9, <2>10, <2>11, <2>12, <2>13
       DEF LoopRuns, RunStep
<1>5. ASSUME NEW l \in Loops, LoopExits(l) PROVE AddressIsBig'
  BY <1>5 DEF LoopExits, Goto
<1>6. ASSUME NEW l \in Loops, LoopDies(l) PROVE AddressIsBig'
  BY <1>6 DEF LoopDies, Goto
<1>7. ASSUME NEW l \in Loops, LoopFails(l) PROVE AddressIsBig'
  BY <1>7 DEF LoopFails, TickFails, MarkFailed, StopWatching, Goto
<1>8. ASSUME NEW l \in Loops, TerminateStraggler(l) PROVE AddressIsBig'
  BY <1>8 DEF TerminateStraggler, LoopVanishes, SweepForgotten
<1>9. ASSUME NEW l \in Loops, KillLoop(l) PROVE AddressIsBig'
  BY <1>9 DEF KillLoop, LoopVanishes, SweepForgotten
<1>10. ASSUME NEW j \in Jobs, ChildExits(j), UNCHANGED <<sweepVars, fleetVars>> PROVE AddressIsBig'
  BY <1>10 DEF ChildExits
<1>11. ASSUME NEW l \in Loops, DeadlinePasses(l), UNCHANGED <<sweepVars, fleetVars>> PROVE AddressIsBig'
  BY <1>11 DEF DeadlinePasses
<1>12. CASE SweepHourly
  <2>1. CASE EvictRows(0)
    BY <1>12, <2>1 DEF SweepHourly, EvictRows, CacheSweep, Goto
  <2>2. CASE SelectPurgeable(0)
    BY <1>12, <2>2 DEF SweepHourly, SelectPurgeable, Goto
  <2>3. CASE DeleteRows(0)
    BY <1>12, <2>3 DEF SweepHourly, DeleteRows, DeletePurgeable, Goto
  <2>4. CASE RemoveDirs(0)
    BY <1>12, <2>4 DEF SweepHourly, RemoveDirs, Goto
  <2> QED
    BY <1>12, <2>1, <2>2, <2>3, <2>4
       DEF SweepHourly, Sweep
<1>13. CASE Supervise
  <2>1. CASE Boot
    BY <1>13, <2>1 DEF Boot, RequeueStaleRunning
  <2>2. CASE StartWorkers
    BY <1>13, <2>2 DEF StartWorkers, SweepForgotten
  <2>3. CASE BeginStop
    BY <1>13, <2>3 DEF BeginStop
  <2>4. CASE GraceExpires
    BY <1>13, <2>4 DEF GraceExpires
  <2>5. CASE Exit
    BY <1>13, <2>5 DEF Exit
  <2> QED
    BY <1>13, <2>1, <2>2, <2>3, <2>4, <2>5
       DEF Supervise
<1>14. CASE SigTerm
  BY <1>14 DEF SigTerm
<1>15. CASE KillFleet
  BY <1>15 DEF KillFleet, AllVanish, SweepForgotten
<1>16. CASE UNCHANGED vars
  BY <1>16 DEF vars
<1> QED
  BY <1>1, <1>2, <1>3, <1>4, <1>5, <1>6, <1>7, <1>8, <1>9, <1>10, <1>11, <1>12, <1>13,
     <1>14, <1>15, <1>16
     DEF Next, LoopStep

LEMMA AddressMoves == TypeInv /\ OwnInv /\ AddressIsBig /\ [Next]_vars => AddressMove
<1> SUFFICES ASSUME TypeInv, OwnInv, AddressIsBig, [Next]_vars PROVE AddressMove
    OBVIOUS
<1> USE LoopZero DEF TypeInv, TypeOK, Attached, StoreTypeOK, WorkTypeOK, AddressIsBig,
            LeftAddresses, Terminal, Working, InTail, WorkingPlaces, TailPlaces, Stopping, Out, Quiet,
            storeVars, jobVars, workVars, sweepVars, fleetVars
<1>1. ASSUME NEW j \in Jobs, NEW t \in TiersOf[j], Submit(j, t) PROVE AddressMove
  BY <1>1 DEF AddressMove, Submit, CreateJob
<1>2. CASE Tick
  BY <1>2 DEF AddressMove, Tick
<1>3. ASSUME NEW l \in Loops, LoopPolls(l) PROVE AddressMove
  <2>1. CASE BeginTick(l, stop)
    BY <1>3, <2>1 DEF AddressMove, LoopPolls, BeginTick, Goto
  <2>2. CASE Claim(l, ExcludeTiersFor(l))
    BY <1>3, <2>2 DEF AddressMove, LoopPolls, Claim, ClaimNext, Goto
  <2>3. CASE NothingToClaim(l, ExcludeTiersFor(l))
    BY <1>3, <2>3 DEF AddressMove, LoopPolls, NothingToClaim, Goto
  <2> QED
    BY <1>3, <2>1, <2>2, <2>3
       DEF AddressMove, LoopPolls
<1>4. ASSUME NEW l \in Loops, LoopRuns(l) PROVE AddressMove
  <2>1. CASE StartChild(l)
    BY <1>4, <2>1 DEF AddressMove, LoopRuns, StartChild, MarkRunning, Goto
  <2>2. CASE KeepWatching(l)
    BY <1>4, <2>2 DEF AddressMove, LoopRuns, KeepWatching, Goto
  <2>3. CASE SeeNoCancel(l)
    BY <1>4, <2>3 DEF AddressMove, LoopRuns, SeeNoCancel, Goto
  <2>4. CASE SeeCancel(l)
    BY <1>4, <2>4 DEF AddressMove, LoopRuns, SeeCancel, StopWatching, Goto
  <2>5. CASE KillOverdue(l)
    BY <1>4, <2>5 DEF AddressMove, LoopRuns, KillOverdue, StopWatching, Goto
  <2>6. CASE LeaveWatch(l)
    BY <1>4, <2>6 DEF AddressMove, LoopRuns, LeaveWatch, StopWatching, Goto
  <2>7. CASE ClearSignal(l)
    BY <1>4, <2>7 DEF AddressMove, LoopRuns, ClearSignal, ClearCancelRequest, Goto
  <2>8. CASE FailVerdict(l)
    BY <1>4, <2>8 DEF AddressMove, LoopRuns, FailVerdict, MarkFailed, Goto
  <2>9. CASE DoneVerdict(l)
    BY <1>4, <2>9 DEF AddressMove, LoopRuns, DoneVerdict, MarkDone, Goto
  <2>10. CASE RecordCache(l)
    BY <1>4, <2>10 DEF AddressMove, LoopRuns, RecordCache, CachePut, Goto
  <2>11. CASE SkipMail(l)
    BY <1>4, <2>11 DEF AddressMove, LoopRuns, SkipMail, HasAddress, Tiers, Return, Goto
  <2>12. CASE SendMail(l)
    BY <1>4, <2>12 DEF AddressMove, LoopRuns, SendMail, Goto
  <2>13. CASE ForgetAddress(l)
    BY <1>4, <2>13 DEF AddressMove, LoopRuns, ForgetAddress, ClearEmail, Return, Goto
  <2> QED
    BY <1>4, <2>1, <2>2, <2>3, <2>4, <2>5, <2>6, <2>7, <2>8, <2>9, <2>10, <2>11, <2>12, <2>13
       DEF AddressMove, LoopRuns, RunStep
<1>5. ASSUME NEW l \in Loops, LoopExits(l) PROVE AddressMove
  BY <1>5 DEF AddressMove, LoopExits, Goto
<1>6. ASSUME NEW l \in Loops, LoopDies(l) PROVE AddressMove
  BY <1>6 DEF AddressMove, LoopDies, Goto
<1>7. ASSUME NEW l \in Loops, LoopFails(l) PROVE AddressMove
  <2>1. /\ Working(l) \/ pc[l] = "mailed"
        /\ cur[l] \in Jobs /\ l \in Out /\ UNCHANGED email
        /\ status' = status \/ status' = [status EXCEPT ![cur[l]] = "failed"]
        /\ pc' = [pc EXCEPT ![l] = "raising"]
        /\ cur' = [cur EXCEPT ![l] = cur[l]]
    BY <1>7 DEF AddressMove, LoopFails, TickFails, MarkFailed, StopWatching, Goto
  <2>2. LeftAddresses' \subseteq LeftAddresses \cup {cur[l]}
    BY <2>1
  <2>3. /\ Stopping' => Stopping /\ Out' \subseteq Out
        /\ errors' = errors + 1 /\ UNCHANGED <<kills, cuts>>
    BY <1>7, <2>1 DEF AddressMove, LoopFails
  <2> QED
    BY <2>1, <2>2, <2>3 DEF AddressMove, LosesOne
<1>8. ASSUME NEW l \in Loops, TerminateStraggler(l) PROVE AddressMove
  <2>1. /\ l \in Out /\ status' = status /\ email' = email
        /\ pc' = [pc EXCEPT ![l] = "gone"] /\ cur' = [cur EXCEPT ![l] = NoJob]
    BY <1>8 DEF AddressMove, TerminateStraggler, LoopVanishes
  <2>2. LeftAddresses' \subseteq LeftAddresses \cup {cur[l]}
    BY <2>1
  <2>3. Out' = Out \ {l}
    BY <2>1
  <2>4. Stopping /\ UNCHANGED <<kills, cuts, errors>>
    BY <1>8 DEF AddressMove, TerminateStraggler
  <2> QED
    BY <2>1, <2>2, <2>3, <2>4 DEF AddressMove, Terminates
<1>9. ASSUME NEW l \in Loops, KillLoop(l) PROVE AddressMove
  <2>1. /\ status' = status /\ email' = email
        /\ pc' = [pc EXCEPT ![l] = "gone"] /\ cur' = [cur EXCEPT ![l] = NoJob]
    BY <1>9 DEF AddressMove, KillLoop, LoopVanishes
  <2>2. LeftAddresses' \subseteq LeftAddresses \cup {cur[l]}
    BY <2>1
  <2>3. cur[l] \in Jobs \cup {NoJob}
    OBVIOUS
  <2>4. /\ Stopping' => Stopping /\ Out' \subseteq Out
        /\ kills' = kills + 1 /\ UNCHANGED <<errors, cuts>>
    BY <1>9, <2>1 DEF AddressMove, KillLoop
  <2> QED
    BY <2>2, <2>3, <2>4 DEF AddressMove, LosesOne
<1>10. ASSUME NEW j \in Jobs, ChildExits(j), UNCHANGED <<sweepVars, fleetVars>> PROVE AddressMove
  BY <1>10 DEF AddressMove, ChildExits
<1>11. ASSUME NEW l \in Loops, DeadlinePasses(l), UNCHANGED <<sweepVars, fleetVars>> PROVE AddressMove
  BY <1>11 DEF AddressMove, DeadlinePasses
<1>12. CASE SweepHourly
  <2>1. CASE EvictRows(0)
    BY <1>12, <2>1 DEF AddressMove, SweepHourly, EvictRows, CacheSweep, Goto
  <2>2. CASE SelectPurgeable(0)
    BY <1>12, <2>2 DEF AddressMove, SweepHourly, SelectPurgeable, Goto
  <2>3. CASE DeleteRows(0)
    BY <1>12, <2>3 DEF AddressMove, SweepHourly, DeleteRows, DeletePurgeable, Goto
  <2>4. CASE RemoveDirs(0)
    BY <1>12, <2>4 DEF AddressMove, SweepHourly, RemoveDirs, Goto
  <2> QED
    BY <1>12, <2>1, <2>2, <2>3, <2>4
       DEF AddressMove, SweepHourly, Sweep
<1>13. CASE Supervise
  <2>1. CASE Boot
    BY <1>13, <2>1 DEF AddressMove, Boot, RequeueStaleRunning
  <2>2. CASE StartWorkers
    <3>1. \A l \in Loops : pc[l] = "gone"
      BY <2>2 DEF AddressMove, StartWorkers, OwnInv, Parked
    <3>2. LeftAddresses' \subseteq LeftAddresses
      BY <2>2, <3>1 DEF AddressMove, StartWorkers
    <3> QED
      BY <2>2, <3>2 DEF AddressMove, StartWorkers
  <2>3. CASE BeginStop
    <3>1. LeftAddresses' \subseteq LeftAddresses
      BY <2>3 DEF AddressMove, BeginStop
    <3> QED
      BY <2>3, <3>1 DEF AddressMove, BeginStop, Stops
  <2>4. CASE GraceExpires
    BY <1>13, <2>4 DEF AddressMove, GraceExpires
  <2>5. CASE Exit
    BY <1>13, <2>5 DEF AddressMove, Exit
  <2> QED
    BY <1>13, <2>1, <2>2, <2>3, <2>4, <2>5
       DEF AddressMove, Supervise
<1>14. CASE SigTerm
  BY <1>14 DEF AddressMove, SigTerm
<1>15. CASE KillFleet
  <2>1. status' = status /\ email' = email
    BY <1>15 DEF AddressMove, KillFleet
  <2>2. LeftAddresses' \subseteq LeftAddresses \cup {cur[l] : l \in Loops}
    BY <2>1
  <2>3. ~Stopping' /\ kills' = kills + 1 /\ UNCHANGED <<errors, cuts>>
    BY <1>15 DEF AddressMove, KillFleet
  <2> QED
    BY <2>2, <2>3 DEF AddressMove, LosesAll
<1>16. CASE UNCHANGED vars
  BY <1>16 DEF AddressMove, vars
<1> QED
  BY <1>1, <1>2, <1>3, <1>4, <1>5, <1>6, <1>7, <1>8, <1>9, <1>10, <1>11, <1>12, <1>13,
     <1>14, <1>15, <1>16
     DEF AddressMove, Next, LoopStep

\* The addresses left, and the loops a stop may still cut, are within the budget.
AddressInv ==
    /\ IsFiniteSet(LeftAddresses)
    /\ Cardinality(LeftAddresses) + (IF Stopping THEN Cardinality(Out) ELSE 0) <= Budget

LEMMA LoopsCount == IsFiniteSet(Loops) /\ Cardinality(Loops) = FleetSize
<1>1. FleetSize \in Nat \ {0} /\ Loops = 0 .. FleetSize - 1
  BY FleetAssumption
<1>2. FleetSize - 1 \in Int /\ 0 \in Int
  BY <1>1
<1>3. /\ IsFiniteSet(0 .. FleetSize - 1)
      /\ Cardinality(0 .. FleetSize - 1) = IF 0 > FleetSize - 1 THEN 0 ELSE (FleetSize - 1) - 0 + 1
  BY <1>2, FS_Interval
<1> QED
  BY <1>1, <1>3

LEMMA SomeLoops ==
  ASSUME NEW S, S \subseteq Loops
  PROVE  IsFiniteSet(S) /\ Cardinality(S) \in Nat /\ Cardinality(S) <= FleetSize
<1>1. IsFiniteSet(S) /\ Cardinality(S) <= Cardinality(Loops)
  BY LoopsCount, FS_Subset
<1> QED
  BY <1>1, LoopsCount, FS_CardinalityType

LEMMA OneMore ==
  ASSUME NEW S, NEW R, NEW x, IsFiniteSet(S), R \subseteq S \cup {x}
  PROVE  IsFiniteSet(R) /\ Cardinality(R) \in Nat /\ Cardinality(R) <= Cardinality(S) + 1
<1>1. /\ IsFiniteSet(S \cup {x})
      /\ Cardinality(S \cup {x}) = IF x \in S THEN Cardinality(S) ELSE Cardinality(S) + 1
  BY FS_AddElement
<1>2. IsFiniteSet(R) /\ Cardinality(R) <= Cardinality(S \cup {x})
  BY <1>1, FS_Subset
<1>3. Cardinality(R) \in Nat /\ Cardinality(S) \in Nat
  BY <1>2, FS_CardinalityType
<1> QED
  BY <1>1, <1>2, <1>3

\* The jobs of all loops.
LEMMA JobsAtHand ==
  /\ IsFiniteSet({cur[l] : l \in Loops})
  /\ Cardinality({cur[l] : l \in Loops}) \in Nat
  /\ Cardinality({cur[l] : l \in Loops}) <= FleetSize
<1>1. IsFiniteSet(Loops) /\ Cardinality(Loops) = FleetSize
  BY LoopsCount
<1> DEFINE f == [l \in Loops |-> cur[l]]
<1>2. f \in Surjection(Loops, {cur[l] : l \in Loops})
  BY DEF Surjection
<1>3. /\ IsFiniteSet({cur[l] : l \in Loops})
      /\ Cardinality({cur[l] : l \in Loops}) <= Cardinality(Loops)
  BY <1>1, <1>2, FS_Surjection
<1> QED
  BY <1>1, <1>3, FS_CardinalityType

LEMMA BudgetGrows ==
  ASSUME NEW f \in Nat, NEW e \in Nat, NEW k \in Nat, NEW c \in Nat
  PROVE  /\ e + f * (k + c) \in Nat
         /\ (e + 1) + f * (k + c) = (e + f * (k + c)) + 1
         /\ e + f * ((k + 1) + c) = (e + f * (k + c)) + f
         /\ e + f * (k + (c + 1)) = (e + f * (k + c)) + f
<1>1. f * (k + c) \in Nat
  OBVIOUS
<1>2. f * ((k + 1) + c) = f * (k + c) + f /\ f * (k + (c + 1)) = f * (k + c) + f
  OBVIOUS
<1> QED
  BY <1>1, <1>2

LEMMA AddressCount ==
  ASSUME TypeInv, AddressInv, AddressMove PROVE AddressInv'
<1>1. /\ FleetSize \in Nat \ {0} /\ errors \in Nat /\ kills \in Nat /\ cuts \in Nat
      /\ Budget = errors + FleetSize * (kills + cuts)
      /\ Budget' = errors' + FleetSize * (kills' + cuts')
  BY FleetAssumption DEF TypeInv, TypeOK, Budget
<1>2. /\ Budget \in Nat
      /\ (errors' = errors + 1 /\ UNCHANGED <<kills, cuts>>) => Budget' = Budget + 1
      /\ (kills' = kills + 1 /\ UNCHANGED <<errors, cuts>>) => Budget' = Budget + FleetSize
      /\ (cuts' = cuts + 1 /\ UNCHANGED <<errors, kills>>) => Budget' = Budget + FleetSize
      /\ UNCHANGED <<kills, cuts, errors>> => Budget' = Budget
  BY <1>1, BudgetGrows
<1>3. Out \subseteq Loops /\ Out' \subseteq Loops
  BY DEF Out
<1>4. /\ IsFiniteSet(Out) /\ Cardinality(Out) \in Nat /\ Cardinality(Out) <= FleetSize
      /\ IsFiniteSet(Out') /\ Cardinality(Out') \in Nat /\ Cardinality(Out') <= FleetSize
  BY <1>3, SomeLoops
<1>5. /\ IsFiniteSet(LeftAddresses) /\ Cardinality(LeftAddresses) \in Nat
      /\ Cardinality(LeftAddresses) + (IF Stopping THEN Cardinality(Out) ELSE 0) <= Budget
  BY FS_CardinalityType DEF AddressInv
<1>6. ASSUME LeftAddresses' \subseteq LeftAddresses
      PROVE  /\ IsFiniteSet(LeftAddresses') /\ Cardinality(LeftAddresses') \in Nat
             /\ Cardinality(LeftAddresses') <= Cardinality(LeftAddresses)
  BY <1>5, <1>6, FS_Subset, FS_CardinalityType
<1>7. ASSUME Out' \subseteq Out PROVE Cardinality(Out') <= Cardinality(Out)
  BY <1>4, <1>7, FS_Subset
<1>8. SUFFICES /\ IsFiniteSet(LeftAddresses')
               /\ Cardinality(LeftAddresses') + (IF Stopping' THEN Cardinality(Out') ELSE 0) <= Budget'
  BY DEF AddressInv
<1>9. CASE Quiet
  BY <1>2, <1>4, <1>5, <1>6, <1>7, <1>9 DEF Quiet
<1>10. CASE LosesOne
  <2>1. PICK j \in Jobs \cup {NoJob} : LeftAddresses' \subseteq LeftAddresses \cup {j}
    BY <1>10 DEF LosesOne
  <2>2. /\ IsFiniteSet(LeftAddresses') /\ Cardinality(LeftAddresses') \in Nat
        /\ Cardinality(LeftAddresses') <= Cardinality(LeftAddresses) + 1
    BY <1>5, <2>1, OneMore
  <2>3. Budget' \in Nat /\ Budget + 1 <= Budget'
    BY <1>1, <1>2, <1>10 DEF LosesOne
  <2>4. Stopping' => Stopping /\ Cardinality(Out') <= Cardinality(Out)
    BY <1>7, <1>10 DEF LosesOne
  <2> QED
    BY <1>2, <1>4, <1>5, <2>2, <2>3, <2>4
<1>11. CASE Terminates
  <2>1. PICK l \in Out : LeftAddresses' \subseteq LeftAddresses \cup {cur[l]} /\ Out' = Out \ {l}
    BY <1>11 DEF Terminates
  <2>2. /\ IsFiniteSet(LeftAddresses') /\ Cardinality(LeftAddresses') \in Nat
        /\ Cardinality(LeftAddresses') <= Cardinality(LeftAddresses) + 1
    BY <1>5, <2>1, OneMore
  <2>3. Cardinality(Out \ {l}) = Cardinality(Out) - 1
    BY <1>4, <2>1, FS_RemoveElement
  <2>4. Stopping /\ Budget' = Budget
    BY <1>2, <1>11 DEF Terminates
  <2> QED
    BY <1>2, <1>4, <1>5, <2>1, <2>2, <2>3, <2>4
<1>12. CASE LosesAll
  <2>1. /\ LeftAddresses' \subseteq LeftAddresses \cup {cur[l] : l \in Loops}
        /\ ~Stopping' /\ Budget' = Budget + FleetSize
    BY <1>2, <1>12 DEF LosesAll
  <2>2. /\ IsFiniteSet(LeftAddresses \cup {cur[l] : l \in Loops})
        /\ Cardinality(LeftAddresses \cup {cur[l] : l \in Loops})
             <= Cardinality(LeftAddresses) + FleetSize
    <3>1. IsFiniteSet(LeftAddresses \cup {cur[l] : l \in Loops})
      BY <1>5, JobsAtHand, FS_Union
    <3>2. IsFiniteSet(LeftAddresses \cap {cur[l] : l \in Loops})
      BY <1>5, FS_Intersection
    <3>3. Cardinality(LeftAddresses \cap {cur[l] : l \in Loops}) \in Nat
      BY <3>2, FS_CardinalityType
    <3>4. Cardinality(LeftAddresses \cup {cur[l] : l \in Loops}) =
            Cardinality(LeftAddresses) + Cardinality({cur[l] : l \in Loops})
              - Cardinality(LeftAddresses \cap {cur[l] : l \in Loops})
      BY <1>5, JobsAtHand, FS_Union
    <3> QED
      BY <1>1, <1>5, <3>1, <3>3, <3>4, JobsAtHand
  <2>3. /\ IsFiniteSet(LeftAddresses')
        /\ Cardinality(LeftAddresses') <= Cardinality(LeftAddresses \cup {cur[l] : l \in Loops})
    BY <2>1, <2>2, FS_Subset
  <2>4. /\ Cardinality(LeftAddresses') \in Nat
        /\ Cardinality(LeftAddresses \cup {cur[l] : l \in Loops}) \in Nat
    BY <2>2, <2>3, FS_CardinalityType
  <2> QED
    BY <1>1, <1>2, <1>4, <1>5, <2>1, <2>2, <2>3, <2>4
<1>13. CASE Stops
  <2>1. LeftAddresses' \subseteq LeftAddresses /\ ~Stopping /\ Budget' = Budget + FleetSize
    BY <1>2, <1>13 DEF Stops
  <2>2. /\ IsFiniteSet(LeftAddresses') /\ Cardinality(LeftAddresses') \in Nat
        /\ Cardinality(LeftAddresses') <= Cardinality(LeftAddresses)
    BY <1>6, <2>1
  <2> QED
    BY <1>1, <1>2, <1>4, <1>5, <2>1, <2>2
<1> QED
  BY <1>9, <1>10, <1>11, <1>12, <1>13 DEF AddressMove

LEMMA AddressInit == Init => AddressIsBig /\ AddressInv
<1> SUFFICES ASSUME Init PROVE AddressIsBig /\ AddressInv
    OBVIOUS
<1>1. AddressIsBig
  BY DEF Init, StoreInit, AddressIsBig
<1>2. LeftAddresses = {} /\ ~Stopping /\ Budget = 0 + FleetSize * (0 + 0)
  BY DEF Init, StoreInit, LeftAddresses, Terminal, Stopping, Budget
<1>3. FleetSize * (0 + 0) = 0
  BY FleetAssumption
<1>4. IsFiniteSet({}) /\ Cardinality({}) = 0
  BY FS_EmptySet
<1> QED
  BY <1>1, <1>2, <1>3, <1>4 DEF AddressInv

\* Whatever exceptions, kills and stops come, the addresses that outlive their notice
\* are at most one for each exception and one per loop for each kill and stop.
THEOREM LeftAddressesAreBounded == Spec => []AddressOnlyUntilNotice
<1>1. TypeInv /\ OwnInv /\ AddressIsBig /\ AddressInv /\ [Next]_vars => (AddressIsBig /\ AddressInv)'
  BY AddressMoves, AddressCount, BigStep
<1>2. TypeInv /\ AddressInv => AddressOnlyUntilNotice
  <2> SUFFICES ASSUME TypeInv, AddressInv PROVE AddressOnlyUntilNotice
    OBVIOUS
  <2>1. Out \subseteq Loops
    BY DEF Out
  <2>2. Cardinality(Out) \in Nat /\ Cardinality(LeftAddresses) \in Nat
    BY <2>1, SomeLoops, FS_CardinalityType DEF AddressInv
  <2>3. Cardinality(LeftAddresses) + (IF Stopping THEN Cardinality(Out) ELSE 0) <= Budget
    BY DEF AddressInv
  <2>4. Budget \in Nat
    BY FleetAssumption, BudgetGrows DEF TypeInv, TypeOK, Budget
  <2>5. Cardinality(LeftAddresses) <= Budget
    BY <2>2, <2>3, <2>4
  <2> QED
    BY <2>5 DEF Budget, AddressOnlyUntilNotice
<1> QED
  BY <1>1, <1>2, AddressInit, Invariance, PTL DEF Spec

=============================================================================
