---------------------------- MODULE OfflineProofs ----------------------------
(***************************************************************************)
(* Proofs about OfflineApp, for any number of jobs and launches and every  *)
(* bound: first for any number of copies over one store, then for one.     *)
(***************************************************************************)
EXTENDS OfflineApp, TLAPS

-----------------------------------------------------------------------------
(* Type correctness, one step per action of Next. *)

\* A loop that has claimed a job knows which.
Attached == \A c \in Loops : Working(c) \/ InTail(c) => cur[c] \in Jobs

TypeInv == TypeOK /\ Attached

LEMMA TypeInit == Init => TypeInv
<1> SUFFICES ASSUME Init PROVE TypeInv
    OBVIOUS
<1>1. StoreTypeOK
  BY DEF Init, StoreInit, StoreTypeOK, Statuses, Tiers, Errors, Null
<1>2. WorkTypeOK
  BY DEF Init, WorkInit, WorkTypeOK, Places, ChildStates
<1>3. SweepTypeOK
  BY DEF Init, SweepInit, SweepTypeOK, Null
<1>4. Attached
  BY DEF Init, WorkInit, Attached, Working, InTail, WorkingPlaces, TailPlaces
<1> QED
  BY <1>1, <1>2, <1>3, <1>4 DEF Init, TypeInv, TypeOK

\* What a loop at work leaves of the types.
LEMMA RunTypes ==
    ASSUME StoreTypeOK, WorkTypeOK, Attached, NEW c \in Loops, RunStep(c)
    PROVE  StoreTypeOK' /\ WorkTypeOK' /\ Attached' /\ cur[c] \in Jobs
<1> USE DEF Attached, Working, InTail, StoreTypeOK, WorkTypeOK, Statuses, Errors, Places,
            WorkingPlaces, TailPlaces, ChildStates, storeVars, jobVars, Goto
<1>1. CASE StartChild(c)
  BY <1>1 DEF StartChild, MarkRunning
<1>2. CASE KeepWatching(c) \/ SeeNoCancel(c)
  BY <1>2 DEF KeepWatching, SeeNoCancel
<1>3. CASE SeeCancel(c)
  BY <1>3 DEF SeeCancel, StopWatching
<1>4. CASE KillOverdue(c)
  BY <1>4 DEF KillOverdue, StopWatching
<1>5. CASE LeaveWatch(c)
  BY <1>5 DEF LeaveWatch, StopWatching
<1>6. CASE ClearSignal(c)
  BY <1>6 DEF ClearSignal, ClearCancelRequest
<1>7. CASE FailVerdict(c)
  <2>1. /\ cur[c] \in Jobs /\ status' = [status EXCEPT ![cur[c]] = "failed"]
        /\ finished' = [finished EXCEPT ![cur[c]] = clock]
        /\ \E e \in {"cancelled", "other"} : error' = [error EXCEPT ![cur[c]] = e]
        /\ UNCHANGED <<tier, created, email>>
    BY <1>7 DEF FailVerdict, MarkFailed
  <2>2. /\ child' = [child EXCEPT ![cur[c]] = "none"] /\ pc' = [pc EXCEPT ![c] = "notify"]
        /\ UNCHANGED <<clock, cancelReq, cache, cur, late, artifacts, claims, mails>>
    BY <1>7 DEF FailVerdict
  <2>3. StoreTypeOK'
    BY <2>1, <2>2
  <2>4. WorkTypeOK' /\ Attached'
    BY <2>1, <2>2
  <2> QED
    BY <2>1, <2>3, <2>4
<1>8. CASE DoneVerdict(c)
  BY <1>8 DEF DoneVerdict, MarkDone
<1>9. CASE RecordCache(c)
  <2>1. /\ cur[c] \in Jobs /\ cache' \in [Keys -> Jobs \cup {NoJob}]
    BY <1>9, StoreAssumption DEF RecordCache, CachePut
  <2>2. /\ pc' = [pc EXCEPT ![c] = "notify"] /\ pc[c] = "record"
        /\ UNCHANGED <<clock, jobVars, cancelReq, cur, late, child, artifacts, claims, mails>>
    BY <1>9 DEF RecordCache
  <2> QED
    BY <2>1, <2>2
<1>10. CASE SkipMail(c)
  BY <1>10 DEF SkipMail, Return
<1>11. CASE SendMail(c)
  <2>1. /\ pc[c] = "notify" /\ pc' = [pc EXCEPT ![c] = "mailed"]
        /\ UNCHANGED <<storeVars, cur, late, child, artifacts, claims>>
    BY <1>11 DEF SendMail
  <2>2. cur[c] \in Jobs /\ mails' \in [Jobs -> Nat]
    BY <1>11, <2>1 DEF SendMail
  <2> QED
    BY <2>1, <2>2
<1>12. CASE ForgetAddress(c)
  BY <1>12 DEF ForgetAddress, ClearEmail, Return
<1> QED
  BY <1>1, <1>2, <1>3, <1>4, <1>5, <1>6, <1>7, <1>8, <1>9, <1>10, <1>11, <1>12 DEF RunStep

LEMMA TypeStep == TypeInv /\ [Next]_vars => TypeInv'
<1> SUFFICES ASSUME TypeInv, [Next]_vars PROVE TypeInv'
    OBVIOUS
<1> USE DEF TypeInv, TypeOK, Attached, Working, InTail, StoreTypeOK, WorkTypeOK,
            SweepTypeOK, Statuses, Tiers, Errors, Places, WorkingPlaces, TailPlaces,
            SweepPlaces, ChildStates, Null,
            storeVars, jobVars, workVars, sweepVars, appVars
<1>1. ASSUME NEW c \in Loops, NEW j \in Jobs, Submit(c, j) PROVE TypeInv'
  <2>1. StoreTypeOK'
    BY <1>1 DEF Submit, CreateJob
  <2>2. UNCHANGED <<workVars, sweepVars, appVars>>
    BY <1>1 DEF Submit
  <2> QED
    BY <2>1, <2>2
<1>2. ASSUME NEW c \in Loops, NEW j \in Jobs, CancelRunning(c, j) PROVE TypeInv'
  <2>1. /\ \/ status' = status \/ status' = [status EXCEPT ![j] = "failed"]
        /\ \/ finished' = finished \/ finished' = [finished EXCEPT ![j] = clock]
        /\ \/ error' = error \/ error' = [error EXCEPT ![j] = "cancelled"]
        /\ \/ cancelReq' = cancelReq \/ cancelReq' = cancelReq \cup {j}
        /\ UNCHANGED <<tier, created, email>>
    <3> HIDE DEF TypeInv
    <3> QED
      BY <1>2 DEF CancelRunning, RequestCancel, MarkFailed
  <2>2. StoreTypeOK'
    <3>1. UNCHANGED <<clock, cache>>
      BY <1>2 DEF CancelRunning
    <3> QED
      BY <2>1, <3>1
  <2>3. /\ told' = told \cup {j}
        /\ UNCHANGED <<clock, cache, workVars, sweepVars, app, stopped, adopted, brood,
                       dropped, kills, errors, launches>>
    BY <1>2 DEF CancelRunning
  <2> QED
    BY <2>1, <2>2, <2>3
<1>3. CASE Tick
  BY <1>3 DEF Tick
<1>4. ASSUME NEW c \in Loops, Launch(c) PROVE TypeInv'
  BY <1>4 DEF Launch, Goto
<1>5. ASSUME NEW c \in Loops, Adopt(c) PROVE TypeInv'
  BY <1>5 DEF Adopt, RequeueStaleRunning, Goto
<1>6. ASSUME NEW c \in Loops, FailAdopted(c) PROVE TypeInv'
  BY <1>6 DEF FailAdopted, MarkFailed
<1>7. ASSUME NEW c \in Loops, EndAdoption(c) PROVE TypeInv'
  BY <1>7 DEF EndAdoption, Goto
<1>8. ASSUME NEW c \in Loops, AdoptionFails(c) PROVE TypeInv'
  <2>1. StoreTypeOK' /\ WorkTypeOK' /\ SweepTypeOK' /\ Attached'
    BY <1>8 DEF AdoptionFails, Goto
  <2>2. adopted' \in [Loops -> SUBSET Jobs] /\ dropped' \in [Jobs -> Nat]
    BY <1>8 DEF AdoptionFails, AdoptionCut
  <2>3. /\ UNCHANGED <<app, stopped, brood, told, kills, launches>>
        /\ errors' = errors + 1
    BY <1>8 DEF AdoptionFails
  <2> QED
    BY <2>1, <2>2, <2>3
<1>9. ASSUME NEW c \in Loops, LoopPolls(c) PROVE TypeInv'
  <2>1. CASE BeginTick(c, stopped[c])
    BY <1>9, <2>1 DEF LoopPolls, BeginTick, Goto
  <2>2. CASE Claim(c, {})
    BY <1>9, <2>2 DEF LoopPolls, Claim, ClaimNext, Oldest, Eligible, Goto
  <2>3. CASE NothingToClaim(c, {})
    BY <1>9, <2>3 DEF LoopPolls, NothingToClaim, Goto
  <2> QED
    BY <1>9, <2>1, <2>2, <2>3 DEF LoopPolls
<1>10. ASSUME NEW c \in Loops, LoopRuns(c) PROVE TypeInv'
  <2>1. StoreTypeOK' /\ WorkTypeOK' /\ Attached' /\ cur[c] \in Jobs
    BY <1>10, RunTypes DEF LoopRuns, TypeInv, TypeOK
  <2> QED
    <3> HIDE DEF StoreTypeOK, WorkTypeOK, Attached
    <3> QED
      BY <1>10, <2>1 DEF LoopRuns
<1>11. ASSUME NEW c \in Loops, LoopSweeps(c) PROVE TypeInv'
  <2>1. CASE EvictRows(c)
    BY <1>11, <2>1 DEF LoopSweeps, EvictRows, CacheSweep, Goto
  <2>2. CASE SelectPurgeable(c)
    BY <1>11, <2>2 DEF LoopSweeps, SelectPurgeable, Purgeable, Goto
  <2>3. CASE DeleteRows(c)
    BY <1>11, <2>3 DEF LoopSweeps, DeleteRows, DeletePurgeable, Purgeable, Goto
  <2>4. CASE RemoveDirs(c)
    BY <1>11, <2>4 DEF LoopSweeps, RemoveDirs, Goto
  <2> QED
    BY <1>11, <2>1, <2>2, <2>3, <2>4 DEF LoopSweeps, Sweep
<1>12. ASSUME NEW c \in Loops, LoopExits(c) PROVE TypeInv'
  BY <1>12 DEF LoopExits, Goto
<1>13. ASSUME NEW c \in Loops, TickRaises(c) PROVE TypeInv'
  <2>1. /\ pc' = [pc EXCEPT ![c] = "idle"] /\ cur' = [cur EXCEPT ![c] = NoJob]
        /\ late' = [late EXCEPT ![c] = FALSE] /\ errors' = errors + 1
        /\ UNCHANGED <<clock, cancelReq, cache, child, artifacts, claims, mails, sweepVars,
                       app, stopped, adopted, brood, told, dropped, kills, launches>>
    BY <1>13 DEF TickRaises, TickFails, StopWatching, Goto
  <2>2. CASE Working(c) /\ MarkFailed(cur[c], "other")
    BY <2>1, <2>2 DEF MarkFailed
  <2>3. CASE UNCHANGED jobVars
    BY <2>1, <2>3
  <2> QED
    BY <1>13, <2>2, <2>3 DEF TickRaises, TickFails
<1>14. ASSUME NEW c \in Loops, Quit(c) PROVE TypeInv'
  BY <1>14 DEF Quit, Interrupted
<1>15. ASSUME NEW c \in Loops, ProcessEnds(c), UNCHANGED kills \/ kills' = kills + 1
      PROVE TypeInv'
  BY <1>15 DEF ProcessEnds, AdoptionCut, SweepForgotten
<1>16. ASSUME NEW j \in Jobs, ChildExits(j), UNCHANGED <<sweepVars, appVars>>
       PROVE TypeInv'
  BY <1>16 DEF ChildExits
<1>17. CASE UNCHANGED vars
  BY <1>17 DEF vars
<1> QED
  BY <1>1, <1>2, <1>3, <1>4, <1>5, <1>6, <1>7, <1>8, <1>9,
     <1>10, <1>11, <1>12, <1>13, <1>14, <1>15, <1>16, <1>17
     DEF Next, LoopStep, Leave, KillApp

\* Every variable of the app keeps its type, however many copies are open.
THEOREM TypeCorrect == Spec => []TypeOK
<1>1. TypeInv => TypeOK
  BY DEF TypeInv
<1> QED
  BY <1>1, TypeInit, TypeStep, PTL DEF Spec

-----------------------------------------------------------------------------
(* Who is cancelled.  A signal outlives the run it was meant for; what keeps it *)
(* harmless is that only a job the caller was told about ever has one.          *)

Announced ==
    /\ cancelReq \subseteq told
    /\ \A c \in Loops : pc[c] \in {"cancelling", "cleared"} => cur[c] \in told
    /\ OnlyToldAreCancelled

LEMMA AnnouncedInit == Init => Announced
BY DEF Init, StoreInit, WorkInit, Announced, OnlyToldAreCancelled

LEMMA AnnouncedStep == TypeInv /\ Announced /\ [Next]_vars => Announced'
<1> SUFFICES ASSUME TypeInv, Announced, [Next]_vars PROVE Announced'
    OBVIOUS
<1> USE DEF TypeInv, TypeOK, Attached, Working, InTail, StoreTypeOK, WorkTypeOK,
            WorkingPlaces, TailPlaces, Announced, OnlyToldAreCancelled,
            storeVars, jobVars, workVars, sweepVars, appVars
<1>1. ASSUME NEW c \in Loops, NEW j \in Jobs, Submit(c, j) PROVE Announced'
  BY <1>1 DEF Submit, CreateJob
<1>2. ASSUME NEW c \in Loops, NEW j \in Jobs, CancelRunning(c, j) PROVE Announced'
  BY <1>2 DEF CancelRunning, RequestCancel, MarkFailed, Oldest, Active
<1>3. CASE Tick
  BY <1>3 DEF Tick
<1>4. ASSUME NEW c \in Loops, Launch(c) PROVE Announced'
  BY <1>4 DEF Launch, Goto
<1>5. ASSUME NEW c \in Loops, Adopt(c) PROVE Announced'
  BY <1>5 DEF Adopt, RequeueStaleRunning, Goto
<1>6. ASSUME NEW c \in Loops, FailAdopted(c) PROVE Announced'
  BY <1>6 DEF FailAdopted, MarkFailed
<1>7. ASSUME NEW c \in Loops, EndAdoption(c) PROVE Announced'
  BY <1>7 DEF EndAdoption, Goto
<1>8. ASSUME NEW c \in Loops, AdoptionFails(c) PROVE Announced'
  BY <1>8 DEF AdoptionFails, AdoptionCut, Goto
<1>9. ASSUME NEW c \in Loops, LoopPolls(c) PROVE Announced'
  <2>1. CASE BeginTick(c, stopped[c])
    BY <1>9, <2>1 DEF LoopPolls, BeginTick, Goto
  <2>2. CASE Claim(c, {})
    BY <1>9, <2>2 DEF LoopPolls, Claim, ClaimNext, Oldest, Eligible, Goto
  <2>3. CASE NothingToClaim(c, {})
    BY <1>9, <2>3 DEF LoopPolls, NothingToClaim, Goto
  <2> QED
    BY <1>9, <2>1, <2>2, <2>3 DEF LoopPolls
<1>10. ASSUME NEW c \in Loops, LoopRuns(c) PROVE Announced'
  <2>1. CASE StartChild(c)
    BY <1>10, <2>1 DEF LoopRuns, StartChild, MarkRunning, Goto
  <2>2. CASE KeepWatching(c)
    BY <1>10, <2>2 DEF LoopRuns, KeepWatching, Goto
  <2>3. CASE SeeNoCancel(c)
    BY <1>10, <2>3 DEF LoopRuns, SeeNoCancel, Goto
  <2>4. CASE SeeCancel(c)
    BY <1>10, <2>4 DEF LoopRuns, SeeCancel, StopWatching, Goto
  <2>5. CASE KillOverdue(c)
    BY <1>10, <2>5 DEF LoopRuns, KillOverdue, StopWatching, Goto
  <2>6. CASE LeaveWatch(c)
    BY <1>10, <2>6 DEF LoopRuns, LeaveWatch, StopWatching, Goto
  <2>7. CASE ClearSignal(c)
    BY <1>10, <2>7 DEF LoopRuns, ClearSignal, ClearCancelRequest, Goto
  <2>8. CASE FailVerdict(c)
    BY <1>10, <2>8 DEF LoopRuns, FailVerdict, MarkFailed, Goto
  <2>9. CASE DoneVerdict(c)
    BY <1>10, <2>9 DEF LoopRuns, DoneVerdict, MarkDone, Goto
  <2>10. CASE RecordCache(c)
    BY <1>10, <2>10 DEF LoopRuns, RecordCache, CachePut, Goto
  <2>11. CASE SkipMail(c)
    BY <1>10, <2>11 DEF LoopRuns, SkipMail, Return, Goto
  <2>12. CASE SendMail(c)
    BY <1>10, <2>12 DEF LoopRuns, SendMail, Goto
  <2>13. CASE ForgetAddress(c)
    BY <1>10, <2>13 DEF LoopRuns, ForgetAddress, ClearEmail, Return, Goto
  <2> QED
    BY <1>10, <2>1, <2>2, <2>3, <2>4, <2>5, <2>6, <2>7, <2>8, <2>9, <2>10, <2>11, <2>12, <2>13
       DEF LoopRuns, RunStep
<1>11. ASSUME NEW c \in Loops, LoopSweeps(c) PROVE Announced'
  <2>1. CASE EvictRows(c)
    BY <1>11, <2>1 DEF LoopSweeps, EvictRows, CacheSweep, Goto
  <2>2. CASE SelectPurgeable(c)
    BY <1>11, <2>2 DEF LoopSweeps, SelectPurgeable, Purgeable, Goto
  <2>3. CASE DeleteRows(c)
    BY <1>11, <2>3 DEF LoopSweeps, DeleteRows, DeletePurgeable, Purgeable, Goto
  <2>4. CASE RemoveDirs(c)
    BY <1>11, <2>4 DEF LoopSweeps, RemoveDirs, Goto
  <2> QED
    BY <1>11, <2>1, <2>2, <2>3, <2>4 DEF LoopSweeps, Sweep
<1>12. ASSUME NEW c \in Loops, LoopExits(c) PROVE Announced'
  BY <1>12 DEF LoopExits, Goto
<1>13. ASSUME NEW c \in Loops, TickRaises(c) PROVE Announced'
  BY <1>13 DEF TickRaises, TickFails, MarkFailed, StopWatching, Goto
<1>14. ASSUME NEW c \in Loops, Quit(c) PROVE Announced'
  BY <1>14 DEF Quit, Interrupted
<1>15. ASSUME NEW c \in Loops, ProcessEnds(c), UNCHANGED kills \/ kills' = kills + 1
      PROVE Announced'
  BY <1>15 DEF ProcessEnds, AdoptionCut, SweepForgotten
<1>16. ASSUME NEW j \in Jobs, ChildExits(j), UNCHANGED <<sweepVars, appVars>>
       PROVE Announced'
  BY <1>16 DEF ChildExits
<1>17. CASE UNCHANGED vars
  BY <1>17 DEF vars
<1> QED
  BY <1>1, <1>2, <1>3, <1>4, <1>5, <1>6, <1>7, <1>8, <1>9,
     <1>10, <1>11, <1>12, <1>13, <1>14, <1>15, <1>16, <1>17
     DEF Next, LoopStep, Leave, KillApp

\* Only the job the caller was told about is ever cancelled, with any number of
\* copies of the app over one store.
THEOREM CancelsAreAnnounced == Spec => []OnlyToldAreCancelled
<1>1. Init => TypeInv /\ Announced
  BY TypeInit, AnnouncedInit
<1>2. TypeInv /\ Announced /\ [Next]_vars => (TypeInv /\ Announced)'
  BY TypeStep, AnnouncedStep
<1>3. Announced => OnlyToldAreCancelled
  BY DEF Announced
<1> QED
  BY <1>1, <1>2, <1>3, PTL DEF Spec

-----------------------------------------------------------------------------
(* One copy.  With a second one open the adoption of the first requeues rows   *)
(* the second is at work on, so each of the following needs it.                *)

OneCopy == \A c, d \in Loops : c = d

\* The row of the job at hand is `running', and a finished one is in the tail.
Owned ==
    /\ \A c \in Loops : Working(c) => status[cur[c]] = "running"
    /\ \A c \in Loops : InTail(c) => status[cur[c]] \in {"done", "failed", "purged"}

\* A copy that is down has no loop.
DownIsGone == \A c \in Loops : app[c] = "down" => pc[c] = "gone"

\* What is being adopted waits in the queue, or was cancelled there.
Adopting ==
    \A c \in Loops :
        /\ adopted[c] # {} => pc[c] = "adopting"
        /\ \A j \in adopted[c] : status[j] \in {"pending", "failed"}

\* Only a verdict sets finished_at.
Unfinished == \A j \in Jobs : status[j] \in {"new", "pending", "running"} => finished[j] = Null

\* A waiting row that no loop is adopting can be claimed once more only if an
\* adoption of it was cut short since it was claimed last.
Claimable ==
    \A j \in Jobs :
        /\ claims[j] <= 1 + dropped[j]
        /\ status[j] = "running" => claims[j] >= 1
        /\ status[j] \in {"new", "pending"} /\ (\A c \in Loops : j \notin adopted[c])
              => claims[j] <= dropped[j]

\* A job whose signal was read and that has run once does not come back: its row
\* is failed or about to be, or it runs in no loop, or it is back in the queue
\* with its one run behind it.
Cancelled ==
    \A j \in told :
        /\ claims[j] = 0 => status[j] \in {"failed", "purged"}
        /\ claims[j] = 1 /\ j \notin cancelReq =>
              \/ status[j] \in {"pending", "failed", "purged"}
              \/ status[j] = "running" /\ \A c \in Loops :
                     Working(c) /\ cur[c] = j => pc[c] = "cleared"

CopyInv ==
    /\ Owned /\ DownIsGone /\ Adopting /\ Unfinished /\ Claimable /\ Cancelled
    /\ RunningIsLive

LEMMA CopyInit == Init => CopyInv
BY DEF Init, StoreInit, WorkInit, CopyInv, Owned, DownIsGone, Adopting, Unfinished,
       Claimable, Cancelled, RunningIsLive, Working, InTail, WorkingPlaces, TailPlaces

\* The moves of the loop that neither start nor end its part in a job, read no
\* signal for good and adopt nothing.
QuietMoves ==
    {<<"idle", "polling">>, <<"polling", "idle">>, <<"guard", "watching">>,
     <<"watching", "guard">>, <<"watching", "cancelling">>, <<"guard", "overdue">>,
     <<"guard", "drained">>, <<"record", "notify">>, <<"notify", "mailed">>,
     <<"notify", "idle">>, <<"mailed", "idle">>, <<"idle", "evicted">>,
     <<"evicted", "selected">>, <<"deleted", "idle">>}

Quiet(c, from, to) ==
    /\ pc[c] = from
    /\ pc' = [pc EXCEPT ![c] = to]
    /\ to # "idle" => cur' = cur
    /\ UNCHANGED <<status, finished, cancelReq, claims, app, adopted, told, dropped>>

\* Loop c writes the verdict v on its job and goes on at `to'.
Verdict(c, v, to) ==
    /\ Working(c)
    /\ v = "done" => pc[c] # "cleared"
    /\ status'   = [status EXCEPT ![cur[c]] = v]
    /\ finished' = [finished EXCEPT ![cur[c]] = clock]
    /\ pc'       = [pc EXCEPT ![c] = to]
    /\ to # "idle" => cur' = cur
    /\ UNCHANGED <<cancelReq, claims, app, adopted, told, dropped>>

LEMMA CopyStep == ASSUME OneCopy PROVE TypeInv /\ CopyInv /\ [Next]_vars => CopyInv'
<1> SUFFICES ASSUME TypeInv, CopyInv, [Next]_vars PROVE CopyInv'
    OBVIOUS
<1> USE DEF OneCopy, TypeInv, TypeOK, Attached, Working, InTail, StoreTypeOK, WorkTypeOK,
            SweepTypeOK, WorkingPlaces, TailPlaces, Null, CopyInv, Owned, DownIsGone,
            Adopting, Unfinished, Claimable, Cancelled, RunningIsLive,
            storeVars, jobVars, workVars, sweepVars, appVars
<1>q. ASSUME NEW c \in Loops, NEW from, NEW to, <<from, to>> \in QuietMoves,
             Quiet(c, from, to)
      PROVE CopyInv'
  <2>1. /\ \A d \in Loops : d = c
        /\ pc[c] = from /\ pc'[c] = to
        /\ UNCHANGED <<status, finished, cancelReq, claims, app, adopted, told, dropped>>
        /\ to # "idle" => cur'[c] = cur[c]
    BY <1>q DEF Quiet
  <2>2. /\ from \notin {"gone", "booting", "adopting", "cleared"}
        /\ to \notin {"gone", "booting", "adopting", "cleared"}
        /\ (from \in WorkingPlaces) = (to \in WorkingPlaces)
        /\ to \in TailPlaces => from \in TailPlaces
        /\ to = "idle" => to \notin WorkingPlaces \cup TailPlaces
    BY <1>q DEF QuietMoves
  <2> HIDE DEF WorkingPlaces, TailPlaces
  <2>3. Owned'
    BY <2>1, <2>2
  <2>4. DownIsGone' /\ Adopting' /\ Unfinished'
    BY <2>1, <2>2
  <2>5. Claimable'
    BY <2>1
  <2>6. Cancelled'
    BY <2>1, <2>2
  <2>7. RunningIsLive'
    BY <2>1, <2>2
  <2> QED
    BY <2>3, <2>4, <2>5, <2>6, <2>7
<1>v. ASSUME NEW c \in Loops, NEW v \in {"done", "failed"},
             NEW to \in {"record", "notify", "idle"}, Verdict(c, v, to)
      PROVE CopyInv'
  <2>1. /\ \A d \in Loops : d = c
        /\ pc[c] \in WorkingPlaces /\ cur[c] \in Jobs /\ clock \in Nat
        /\ v = "done" => pc[c] # "cleared"
    BY <1>v DEF Verdict
  <2>2. /\ UNCHANGED <<cancelReq, claims, app, adopted, told, dropped>>
        /\ pc'[c] = to /\ to \notin WorkingPlaces
        /\ to # "idle" => cur'[c] = cur[c]
    BY <1>v DEF Verdict
  <2>3. /\ status'[cur[c]] = v
        /\ \A j \in Jobs \ {cur[c]} : status'[j] = status[j] /\ finished'[j] = finished[j]
    BY <1>v, <2>1 DEF Verdict
  <2>4. \A j \in Jobs : status[j] = "running" => dropped[j] > 0 \/ j = cur[c]
    BY <2>1
  <2> HIDE DEF WorkingPlaces
  <2>5. Owned'
    BY <2>1, <2>2, <2>3
  <2>6. DownIsGone'
    <3>1. app'[c] = app[c] /\ pc[c] # "gone"
      BY <2>1, <2>2 DEF WorkingPlaces
    <3> QED
      BY <2>1, <3>1
  <2>7. Adopting'
    <3>1. adopted[c] = {} /\ adopted' = adopted
      BY <2>1, <2>2 DEF WorkingPlaces
    <3> QED
      BY <2>1, <3>1
  <2>8. Unfinished'
    BY <2>1, <2>3
  <2>9. Claimable'
    BY <2>1, <2>2, <2>3
  <2>10. Cancelled'
    <3> SUFFICES ASSUME NEW j \in told
                 PROVE  /\ claims[j] = 0 => status'[j] \in {"failed", "purged"}
                        /\ claims[j] = 1 /\ j \notin cancelReq =>
                              \/ status'[j] \in {"pending", "failed", "purged"}
                              \/ status'[j] = "running" /\ ~(cur[c] = j)
      BY <2>1, <2>2
    <3>1. CASE j = cur[c]
      BY <2>1, <2>3, <3>1
    <3>2. CASE j # cur[c]
      BY <2>1, <2>3, <3>2
    <3> QED
      BY <3>1, <3>2
  <2>11. RunningIsLive'
    BY <2>2, <2>3, <2>4
  <2> QED
    BY <2>5, <2>6, <2>7, <2>8, <2>9, <2>10, <2>11
<1>1. ASSUME NEW c \in Loops, NEW j \in Jobs, Submit(c, j) PROVE CopyInv'
  <2>1. Owned'
    BY <1>1 DEF Submit, CreateJob
  <2>2. DownIsGone'
    BY <1>1 DEF Submit, CreateJob
  <2>3. Adopting'
    BY <1>1 DEF Submit, CreateJob
  <2>4. Unfinished'
    BY <1>1 DEF Submit, CreateJob
  <2>5. Claimable'
    BY <1>1 DEF Submit, CreateJob
  <2>6. Cancelled'
    BY <1>1 DEF Submit, CreateJob
  <2>7. RunningIsLive'
    <3>1. \A i \in Jobs : status'[i] = "running" => status[i] = "running"
      BY <1>1 DEF Submit, CreateJob
    <3>2. UNCHANGED <<pc, cur, dropped>>
      BY <1>1 DEF Submit
    <3> QED
      BY <3>1, <3>2
  <2> QED
    BY <2>1, <2>2, <2>3, <2>4, <2>5, <2>6, <2>7
<1>2. ASSUME NEW c \in Loops, NEW j \in Jobs, CancelRunning(c, j) PROVE CopyInv'
  <2>1. /\ told' = told \cup {j}
        /\ UNCHANGED <<pc, cur, claims, app, adopted, dropped>>
    BY <1>2 DEF CancelRunning
  <2>2. CASE status[j] = "pending"
    <3>1. /\ status' = [status EXCEPT ![j] = "failed"] /\ cancelReq' = cancelReq
          /\ finished' = [finished EXCEPT ![j] = clock]
      BY <1>2, <2>2 DEF CancelRunning, RequestCancel, MarkFailed
    <3>2. Owned' /\ DownIsGone' /\ Adopting'
      BY <2>1, <2>2, <3>1
    <3>3. Unfinished' /\ Claimable'
      BY <2>1, <2>2, <3>1
    <3>4. Cancelled'
      <4>1. status'[j] = "failed" /\ \A i \in Jobs \ {j} : status'[i] = status[i]
        BY <1>2, <3>1
      <4>2. UNCHANGED <<pc, cur, claims, cancelReq>>
        BY <2>1, <3>1
      <4> QED
        BY <2>1, <4>1, <4>2
    <3>5. RunningIsLive'
      <4>1. \A i \in Jobs : status'[i] = "running" => status[i] = "running"
        BY <3>1
      <4>2. UNCHANGED <<pc, cur, dropped>>
        BY <2>1
      <4> QED
        BY <4>1, <4>2
    <3> QED
      BY <3>2, <3>3, <3>4, <3>5
  <2>3. CASE status[j] # "pending"
    <3>1. /\ status[j] = "running" /\ cancelReq' = cancelReq \cup {j}
          /\ UNCHANGED <<status, finished>>
      BY <1>2, <2>3 DEF CancelRunning, RequestCancel, Oldest, Active
    <3>2. Owned' /\ DownIsGone' /\ Adopting' /\ Unfinished' /\ Claimable' /\ RunningIsLive'
      BY <2>1, <3>1, SMTT(40)
    <3>3. Cancelled'
      BY <2>1, <3>1
    <3> QED
      BY <3>2, <3>3
  <2> QED
    BY <2>2, <2>3
<1>3. CASE Tick
  BY <1>3 DEF Tick
<1>4. ASSUME NEW c \in Loops, Launch(c) PROVE CopyInv'
  BY <1>4 DEF Launch, Goto
<1>5. ASSUME NEW c \in Loops, Adopt(c) PROVE CopyInv'
  BY <1>5 DEF Adopt, RequeueStaleRunning, Goto
<1>6. ASSUME NEW c \in Loops, FailAdopted(c) PROVE CopyInv'
  <2>1. Owned'
    BY <1>6 DEF FailAdopted, MarkFailed
  <2>2. DownIsGone'
    BY <1>6 DEF FailAdopted, MarkFailed
  <2>3. Adopting'
    BY <1>6 DEF FailAdopted, MarkFailed
  <2>4. Unfinished'
    BY <1>6 DEF FailAdopted, MarkFailed
  <2>5. Claimable'
    BY <1>6 DEF FailAdopted, MarkFailed
  <2>6. Cancelled'
    BY <1>6 DEF FailAdopted, MarkFailed
  <2>7. RunningIsLive'
    BY <1>6 DEF FailAdopted, MarkFailed
  <2> QED
    BY <2>1, <2>2, <2>3, <2>4, <2>5, <2>6, <2>7
<1>7. ASSUME NEW c \in Loops, EndAdoption(c) PROVE CopyInv'
  BY <1>7, SMTT(40) DEF EndAdoption, Goto
<1>8. ASSUME NEW c \in Loops, AdoptionFails(c) PROVE CopyInv'
  <2>1. Owned'
    BY <1>8 DEF AdoptionFails, AdoptionCut, Goto
  <2>2. DownIsGone'
    BY <1>8 DEF AdoptionFails, AdoptionCut, Goto
  <2>3. Adopting'
    BY <1>8 DEF AdoptionFails, AdoptionCut, Goto
  <2>4. Unfinished'
    BY <1>8 DEF AdoptionFails, AdoptionCut, Goto
  <2>5. Claimable'
    BY <1>8 DEF AdoptionFails, AdoptionCut, Goto
  <2>6. Cancelled'
    BY <1>8 DEF AdoptionFails, AdoptionCut, Goto
  <2>7. RunningIsLive'
    <3>1. CASE pc[c] = "booting"
      <4>1. \A j \in Jobs : status'[j] = "running" => dropped'[j] > 0
        BY <1>8, <3>1 DEF AdoptionFails, AdoptionCut
      <4> QED
        BY <4>1
    <3>2. CASE pc[c] = "adopting"
      <4>1. \A j \in Jobs : dropped[j] > 0 => dropped'[j] > 0
        BY <1>8, <3>2 DEF AdoptionFails, AdoptionCut
      <4>2. \A j \in Jobs : status[j] = "running" => dropped[j] > 0
        BY <3>2
      <4>3. status' = status
        BY <1>8 DEF AdoptionFails
      <4> QED
        BY <4>1, <4>2, <4>3
    <3> QED
      BY <1>8, <3>1, <3>2 DEF AdoptionFails
  <2> QED
    BY <2>1, <2>2, <2>3, <2>4, <2>5, <2>6, <2>7
<1>9. ASSUME NEW c \in Loops, LoopPolls(c) PROVE CopyInv'
  <2>1. CASE BeginTick(c, stopped[c])
    <3>1. Quiet(c, "idle", "polling")
      BY <1>9, <2>1 DEF LoopPolls, BeginTick, Goto, Quiet
    <3> QED
      <4> HIDE DEF CopyInv
      <4> QED
        BY <1>q, <3>1 DEF QuietMoves
  <2>2. CASE Claim(c, {})
    <3>1. PICK j \in Jobs :
             /\ status[j] = "pending"
             /\ status' = [status EXCEPT ![j] = "running"]
             /\ cur' = [cur EXCEPT ![c] = j]
             /\ claims' = [claims EXCEPT ![j] = @ + 1]
      BY <1>9, <2>2 DEF Claim, ClaimNext, Oldest, Eligible
    <3>2. /\ pc[c] = "polling" /\ pc' = [pc EXCEPT ![c] = "claimed"]
          /\ UNCHANGED <<finished, cancelReq, app, adopted, told, dropped>>
      BY <1>9, <2>2 DEF LoopPolls, Claim, ClaimNext, Goto
    <3>3. \A d \in Loops : pc[d] = "polling" /\ adopted[d] = {}
      BY <3>2, SMTT(40)
    <3>4. claims[j] <= dropped[j]
      BY <3>1, <3>3
    <3>5. Owned' /\ DownIsGone' /\ Adopting' /\ Unfinished'
      BY <1>9, <3>1, <3>2, <3>3
    <3>6. Claimable'
      <4>1. \A i \in Jobs \ {j} : claims'[i] = claims[i] /\ status'[i] = status[i]
        BY <3>1
      <4>2. claims'[j] = claims[j] + 1 /\ status'[j] = "running"
        BY <3>1
      <4> QED
        BY <3>2, <3>4, <4>1, <4>2
    <3>7. Cancelled'
      BY <1>9, <3>1, <3>2, <3>3
    <3>8. RunningIsLive'
      <4>1. \A i \in Jobs \ {j} : status'[i] = status[i] /\ dropped'[i] = dropped[i]
        BY <3>1, <3>2
      <4>2. Working(c)' /\ cur'[c] = j
        BY <1>9, <3>1, <3>2
      <4>3. \A i \in Jobs : status[i] = "running" => dropped[i] > 0
        BY <3>3
      <4> QED
        BY <1>9, <4>1, <4>2, <4>3
    <3> QED
      BY <3>5, <3>6, <3>7, <3>8
  <2>3. CASE NothingToClaim(c, {})
    <3>1. Quiet(c, "polling", "idle")
      BY <1>9, <2>3 DEF LoopPolls, NothingToClaim, Goto, Quiet
    <3> QED
      <4> HIDE DEF CopyInv
      <4> QED
        BY <1>q, <3>1 DEF QuietMoves
  <2> QED
    BY <1>9, <2>1, <2>2, <2>3 DEF LoopPolls
<1>10. ASSUME NEW c \in Loops, LoopRuns(c) PROVE CopyInv'
  <2>1. CASE StartChild(c)
    <3>1. Owned'
      BY <1>10, <2>1 DEF LoopRuns, StartChild, MarkRunning, Goto
    <3>2. DownIsGone'
      BY <1>10, <2>1 DEF LoopRuns, StartChild, MarkRunning, Goto
    <3>3. Adopting'
      BY <1>10, <2>1 DEF LoopRuns, StartChild, MarkRunning, Goto
    <3>4. Unfinished'
      BY <1>10, <2>1 DEF LoopRuns, StartChild, MarkRunning, Goto
    <3>5. Claimable'
      BY <1>10, <2>1 DEF LoopRuns, StartChild, MarkRunning, Goto
    <3>6. Cancelled'
      BY <1>10, <2>1 DEF LoopRuns, StartChild, MarkRunning, Goto
    <3>7. RunningIsLive'
      BY <1>10, <2>1 DEF LoopRuns, StartChild, MarkRunning, Goto
    <3> QED
      BY <3>1, <3>2, <3>3, <3>4, <3>5, <3>6, <3>7
  <2>2. CASE KeepWatching(c)
    <3>1. Quiet(c, "guard", "watching")
      BY <1>10, <2>2 DEF LoopRuns, KeepWatching, Goto, Quiet
    <3> QED
      <4> HIDE DEF CopyInv
      <4> QED
        BY <1>q, <3>1 DEF QuietMoves
  <2>3. CASE SeeNoCancel(c)
    <3>1. Quiet(c, "watching", "guard")
      BY <1>10, <2>3 DEF LoopRuns, SeeNoCancel, Goto, Quiet
    <3> QED
      <4> HIDE DEF CopyInv
      <4> QED
        BY <1>q, <3>1 DEF QuietMoves
  <2>4. CASE SeeCancel(c)
    <3>1. Quiet(c, "watching", "cancelling")
      BY <1>10, <2>4 DEF LoopRuns, SeeCancel, StopWatching, Goto, Quiet
    <3> QED
      <4> HIDE DEF CopyInv
      <4> QED
        BY <1>q, <3>1 DEF QuietMoves
  <2>5. CASE KillOverdue(c)
    <3>1. Quiet(c, "guard", "overdue")
      BY <1>10, <2>5 DEF LoopRuns, KillOverdue, StopWatching, Goto, Quiet
    <3> QED
      <4> HIDE DEF CopyInv
      <4> QED
        BY <1>q, <3>1 DEF QuietMoves
  <2>6. CASE LeaveWatch(c)
    <3>1. Quiet(c, "guard", "drained")
      BY <1>10, <2>6 DEF LoopRuns, LeaveWatch, StopWatching, Goto, Quiet
    <3> QED
      <4> HIDE DEF CopyInv
      <4> QED
        BY <1>q, <3>1 DEF QuietMoves
  <2>7. CASE ClearSignal(c)
    <3>1. Owned'
      BY <1>10, <2>7 DEF LoopRuns, ClearSignal, ClearCancelRequest, Goto
    <3>2. DownIsGone'
      BY <1>10, <2>7 DEF LoopRuns, ClearSignal, ClearCancelRequest, Goto
    <3>3. Adopting'
      BY <1>10, <2>7 DEF LoopRuns, ClearSignal, ClearCancelRequest, Goto
    <3>4. Unfinished'
      BY <1>10, <2>7 DEF LoopRuns, ClearSignal, ClearCancelRequest, Goto
    <3>5. Claimable'
      BY <1>10, <2>7 DEF LoopRuns, ClearSignal, ClearCancelRequest, Goto
    <3>6. Cancelled'
      BY <1>10, <2>7 DEF LoopRuns, ClearSignal, ClearCancelRequest, Goto
    <3>7. RunningIsLive'
      BY <1>10, <2>7, SMTT(40) DEF LoopRuns, ClearSignal, ClearCancelRequest, Goto
    <3> QED
      BY <3>1, <3>2, <3>3, <3>4, <3>5, <3>6, <3>7
  <2>8. CASE FailVerdict(c)
    <3>1. Verdict(c, "failed", "notify")
      BY <1>10, <2>8 DEF LoopRuns, FailVerdict, MarkFailed, Goto, Verdict
    <3> QED
      <4> HIDE DEF CopyInv
      <4> QED
        BY <1>v, <3>1
  <2>9. CASE DoneVerdict(c)
    <3>1. Verdict(c, "done", "record")
      BY <1>10, <2>9 DEF LoopRuns, DoneVerdict, MarkDone, Goto, Verdict
    <3> QED
      <4> HIDE DEF CopyInv
      <4> QED
        BY <1>v, <3>1
  <2>10. CASE RecordCache(c)
    <3>1. Quiet(c, "record", "notify")
      BY <1>10, <2>10 DEF LoopRuns, RecordCache, Goto, Quiet
    <3> QED
      <4> HIDE DEF CopyInv
      <4> QED
        BY <1>q, <3>1 DEF QuietMoves
  <2>11. CASE SkipMail(c)
    <3>1. Quiet(c, "notify", "idle")
      BY <1>10, <2>11 DEF LoopRuns, SkipMail, Return, Goto, Quiet
    <3> QED
      <4> HIDE DEF CopyInv
      <4> QED
        BY <1>q, <3>1 DEF QuietMoves
  <2>12. CASE SendMail(c)
    <3>1. Quiet(c, "notify", "mailed")
      BY <1>10, <2>12 DEF LoopRuns, SendMail, Goto, Quiet
    <3> QED
      <4> HIDE DEF CopyInv
      <4> QED
        BY <1>q, <3>1 DEF QuietMoves
  <2>13. CASE ForgetAddress(c)
    <3>1. Quiet(c, "mailed", "idle")
      BY <1>10, <2>13 DEF LoopRuns, ForgetAddress, ClearEmail, Return, Goto, Quiet
    <3> QED
      <4> HIDE DEF CopyInv
      <4> QED
        BY <1>q, <3>1 DEF QuietMoves
  <2> QED
    BY <1>10, <2>1, <2>2, <2>3, <2>4, <2>5, <2>6, <2>7, <2>8, <2>9, <2>10, <2>11, <2>12, <2>13
       DEF LoopRuns, RunStep
<1>11. ASSUME NEW c \in Loops, LoopSweeps(c) PROVE CopyInv'
  <2>1. CASE EvictRows(c)
    <3>1. Quiet(c, "idle", "evicted")
      BY <1>11, <2>1 DEF LoopSweeps, EvictRows, Goto, appVars, Quiet
    <3> QED
      <4> HIDE DEF CopyInv
      <4> QED
        BY <1>q, <3>1 DEF QuietMoves
  <2>2. CASE SelectPurgeable(c)
    <3>1. Quiet(c, "evicted", "selected")
      BY <1>11, <2>2 DEF LoopSweeps, SelectPurgeable, Goto, appVars, Quiet
    <3> QED
      <4> HIDE DEF CopyInv
      <4> QED
        BY <1>q, <3>1 DEF QuietMoves
  <2>3. CASE DeleteRows(c)
    <3>1. Owned'
      BY <1>11, <2>3 DEF LoopSweeps, DeleteRows, DeletePurgeable, Purgeable, Goto
    <3>2. DownIsGone'
      BY <1>11, <2>3 DEF LoopSweeps, DeleteRows, DeletePurgeable, Purgeable, Goto
    <3>3. Adopting'
      BY <1>11, <2>3 DEF LoopSweeps, DeleteRows, DeletePurgeable, Purgeable, Goto
    <3>4. Unfinished'
      BY <1>11, <2>3 DEF LoopSweeps, DeleteRows, DeletePurgeable, Purgeable, Goto
    <3>5. Claimable'
      BY <1>11, <2>3 DEF LoopSweeps, DeleteRows, DeletePurgeable, Purgeable, Goto
    <3>6. Cancelled'
      BY <1>11, <2>3 DEF LoopSweeps, DeleteRows, DeletePurgeable, Purgeable, Goto
    <3>7. RunningIsLive'
      <4>1. /\ \A j \in Jobs : status'[j] = "running" => status[j] = "running"
            /\ UNCHANGED <<cur, dropped>>
            /\ pc' = [pc EXCEPT ![c] = "deleted"] /\ pc[c] = "selected"
        BY <1>11, <2>3 DEF LoopSweeps, DeleteRows, DeletePurgeable, Goto
      <4>2. \A d \in Loops : (Working(d) => Working(d)') /\ (pc'[d] # pc[d] => d = c)
        BY <4>1
      <4> QED
        BY <4>1, <4>2
    <3> QED
      BY <3>1, <3>2, <3>3, <3>4, <3>5, <3>6, <3>7
  <2>4. CASE RemoveDirs(c)
    <3>1. Quiet(c, "deleted", "idle")
      BY <1>11, <2>4 DEF LoopSweeps, RemoveDirs, Goto, Quiet
    <3> QED
      <4> HIDE DEF CopyInv
      <4> QED
        BY <1>q, <3>1 DEF QuietMoves
  <2> QED
    BY <1>11, <2>1, <2>2, <2>3, <2>4 DEF LoopSweeps, Sweep
<1>12. ASSUME NEW c \in Loops, LoopExits(c) PROVE CopyInv'
  BY <1>12 DEF LoopExits, Goto
<1>13. ASSUME NEW c \in Loops, TickRaises(c) PROVE CopyInv'
  <2>1. CASE Working(c) /\ MarkFailed(cur[c], "other")
    <3>1. Verdict(c, "failed", "idle")
      BY <1>13, <2>1 DEF TickRaises, TickFails, MarkFailed, StopWatching, Goto, Verdict
    <3> QED
      <4> HIDE DEF CopyInv
      <4> QED
        BY <1>v, <3>1
  <2>2. CASE pc[c] = "mailed" /\ UNCHANGED jobVars
    <3>1. Quiet(c, "mailed", "idle")
      BY <1>13, <2>2 DEF TickRaises, TickFails, StopWatching, Goto, Quiet
    <3> QED
      <4> HIDE DEF CopyInv
      <4> QED
        BY <1>q, <3>1 DEF QuietMoves
  <2> QED
    <3> HIDE DEF CopyInv
    <3> QED
      BY <1>13, <2>1, <2>2 DEF TickRaises, TickFails
<1>14. ASSUME NEW c \in Loops, Quit(c) PROVE CopyInv'
  <2>1. /\ app[c] = "up" /\ app' = [app EXCEPT ![c] = "quitting"]
        /\ UNCHANGED <<status, finished, cancelReq, claims, adopted, told, dropped, pc, cur>>
    BY <1>14 DEF Quit
  <2>2. DownIsGone'
    BY <2>1
  <2>3. Owned' /\ Adopting' /\ Unfinished' /\ Claimable'
    BY <2>1
  <2>4. Cancelled' /\ RunningIsLive'
    BY <2>1
  <2> QED
    BY <2>2, <2>3, <2>4
<1>15. ASSUME NEW c \in Loops, ProcessEnds(c), UNCHANGED kills \/ kills' = kills + 1
      PROVE CopyInv'
  BY <1>15 DEF ProcessEnds, AdoptionCut, SweepForgotten
<1>16. ASSUME NEW j \in Jobs, ChildExits(j), UNCHANGED <<sweepVars, appVars>>
       PROVE CopyInv'
  BY <1>16 DEF ChildExits
<1>17. CASE UNCHANGED vars
  BY <1>17 DEF vars
<1> QED
  BY <1>1, <1>2, <1>3, <1>4, <1>5, <1>6, <1>7, <1>8, <1>9,
     <1>10, <1>11, <1>12, <1>13, <1>14, <1>15, <1>16, <1>17
     DEF Next, LoopStep, Leave, KillApp

LEMMA CopyInvariance == ASSUME OneCopy PROVE Spec => [](TypeInv /\ CopyInv)
<1>1. Init => TypeInv /\ CopyInv
  BY TypeInit, CopyInit
<1>2. TypeInv /\ CopyInv /\ [Next]_vars => (TypeInv /\ CopyInv)'
  BY TypeStep, CopyStep
<1> QED
  BY <1>1, <1>2, PTL DEF Spec

\* With one copy, a row the pages show as running belongs to the loop, or the copy
\* is down or has yet to adopt it, or failed to (offline.py:263).
THEOREM ShownAsRunningRuns == ASSUME OneCopy PROVE Spec => []RunningIsLive
<1>1. CopyInv => RunningIsLive
  BY DEF CopyInv
<1> QED
  BY <1>1, CopyInvariance, PTL

\* With one copy, a job runs again only as often as an adoption of it was cut
\* short (offline.py:267).
THEOREM NothingIsRerun == ASSUME OneCopy PROVE Spec => []NeverRerun
<1>1. CopyInv => NeverRerun
  BY DEF CopyInv, Claimable, NeverRerun
<1> QED
  BY <1>1, CopyInvariance, PTL

\* With one copy, a cancellation that a worker has read is never overwritten by the
\* result of the run it ended (store.py:298).
THEOREM CancellationStands == ASSUME OneCopy PROVE Spec => []ReadCancelIsFinal
<1>1. TypeInv /\ CopyInv => ReadCancelIsFinal
  BY DEF TypeInv, TypeOK, CopyInv, Cancelled, ReadCancelIsFinal
<1> QED
  BY <1>1, CopyInvariance, PTL

-----------------------------------------------------------------------------
(* One copy implements the job lifecycle. *)

LEMMA LifeStarts == Init => Life!LifeInit
BY DEF Init, StoreInit, WorkInit, Life!LifeInit, Held, Working, WorkingPlaces

LifeStep == [Life!LifeNext]_(Life!lifeVars)

LEMMA LifeKept == ASSUME OneCopy PROVE TypeInv /\ CopyInv /\ [Next]_vars => LifeStep
<1> SUFFICES ASSUME TypeInv, CopyInv, [Next]_vars PROVE LifeStep
    OBVIOUS
<1> USE DEF OneCopy, TypeInv, TypeOK, Attached, StoreTypeOK, WorkTypeOK,
            CopyInv, Owned, DownIsGone, Adopting, Unfinished, Held, Working,
            WorkingPlaces, TailPlaces, storeVars, jobVars, workVars, sweepVars, appVars
\* A step that neither changes a row's status nor the loop's part in a job.
<1>q. ASSUME status' = status,
             \A c \in Loops : Working(c)' = Working(c) /\ (Working(c) => cur'[c] = cur[c])
      PROVE LifeStep
  BY <1>q DEF LifeStep, Life!lifeVars
\* A verdict of the loop.
<1>v. ASSUME NEW c \in Loops, NEW v \in {"done", "failed"}, Working(c), ~Working(c)',
             status' = [status EXCEPT ![cur[c]] = v]
      PROVE LifeStep
  <2>1. Held[c] = cur[c] /\ cur[c] # NoJob /\ Held' = [Held EXCEPT ![c] = NoJob]
    BY <1>v, StoreAssumption
  <2>2. Life!Finish(c, v)
    BY <1>v, <2>1 DEF Life!Finish
  <2> QED
    BY <2>2 DEF LifeStep, Life!LifeNext
\* A verdict on a job nobody holds, or the same verdict again.
<1>w. ASSUME NEW j \in Jobs, status[j] \in {"pending", "failed"},
             status' = [status EXCEPT ![j] = "failed"], Held' = Held
      PROVE LifeStep
  <2>1. CASE status[j] = "pending"
    <3>1. Life!Withdraw(j)
      BY <1>w, <2>1 DEF Life!Withdraw
    <3> QED
      BY <3>1 DEF LifeStep, Life!LifeNext
  <2>2. CASE status[j] = "failed"
    <3>1. status' = status
      BY <1>w, <2>2
    <3> QED
      BY <1>w, <3>1 DEF LifeStep, Life!lifeVars
  <2> QED
    BY <1>w, <2>1, <2>2
<1>1. ASSUME NEW c \in Loops, NEW j \in Jobs, Submit(c, j) PROVE LifeStep
  <2>1. Life!Enqueue(j)
    BY <1>1 DEF Submit, CreateJob, Life!Enqueue
  <2> QED
    BY <2>1 DEF LifeStep, Life!LifeNext
<1>2. ASSUME NEW c \in Loops, NEW j \in Jobs, CancelRunning(c, j) PROVE LifeStep
  <2>1. Held' = Held
    BY <1>2 DEF CancelRunning
  <2>2. CASE status[j] = "pending"
    BY <1>2, <2>1, <2>2, <1>w DEF CancelRunning, RequestCancel, MarkFailed
  <2>3. CASE status[j] # "pending"
    BY <1>2, <2>1, <2>3 DEF CancelRunning, RequestCancel, LifeStep, Life!lifeVars
  <2> QED
    BY <2>2, <2>3
<1>3. CASE Tick
  BY <1>3, <1>q DEF Tick
<1>4. ASSUME NEW c \in Loops, Launch(c) PROVE LifeStep
  BY <1>4, <1>q DEF Launch, Goto
<1>5. ASSUME NEW c \in Loops, Adopt(c) PROVE LifeStep
  <2>1. Life!Requeue
    BY <1>5 DEF Adopt, RequeueStaleRunning, Goto, Life!Requeue
  <2> QED
    BY <2>1 DEF LifeStep, Life!LifeNext
<1>6. ASSUME NEW c \in Loops, FailAdopted(c) PROVE LifeStep
  <2>1. PICK j \in adopted[c] : status' = [status EXCEPT ![j] = "failed"]
    BY <1>6 DEF FailAdopted, MarkFailed
  <2>2. j \in Jobs /\ status[j] \in {"pending", "failed"}
    BY <2>1
  <2>3. Held' = Held
    BY <1>6 DEF FailAdopted
  <2> QED
    BY <2>1, <2>2, <2>3, <1>w
<1>7. ASSUME NEW c \in Loops, EndAdoption(c) PROVE LifeStep
  BY <1>7, <1>q DEF EndAdoption, Goto
<1>8. ASSUME NEW c \in Loops, AdoptionFails(c) PROVE LifeStep
  BY <1>8, <1>q DEF AdoptionFails, Goto
<1>9. ASSUME NEW c \in Loops, LoopPolls(c) PROVE LifeStep
  <2>1. CASE BeginTick(c, stopped[c])
    BY <1>9, <2>1, <1>q DEF LoopPolls, BeginTick, Goto
  <2>2. CASE Claim(c, {})
    <3>1. PICK j \in Jobs : /\ status[j] = "pending"
                            /\ status' = [status EXCEPT ![j] = "running"]
                            /\ cur' = [cur EXCEPT ![c] = j]
      BY <1>9, <2>2 DEF Claim, ClaimNext, Oldest, Eligible
    <3>2. pc[c] = "polling" /\ pc' = [pc EXCEPT ![c] = "claimed"]
      BY <2>2 DEF Claim, Goto
    <3>3. Life!Take(c, j)
      BY <3>1, <3>2 DEF Life!Take
    <3> QED
      BY <3>3 DEF LifeStep, Life!LifeNext
  <2>3. CASE NothingToClaim(c, {})
    BY <1>9, <2>3, <1>q DEF LoopPolls, NothingToClaim, Goto
  <2> QED
    BY <1>9, <2>1, <2>2, <2>3 DEF LoopPolls
<1>10. ASSUME NEW c \in Loops, LoopRuns(c) PROVE LifeStep
  <2>1. CASE StartChild(c)
    BY <1>10, <2>1, <1>q DEF LoopRuns, StartChild, MarkRunning, Goto
  <2>2. CASE KeepWatching(c)
    BY <1>10, <2>2, <1>q DEF LoopRuns, KeepWatching, Goto
  <2>3. CASE SeeNoCancel(c)
    BY <1>10, <2>3, <1>q DEF LoopRuns, SeeNoCancel, Goto
  <2>4. CASE SeeCancel(c)
    BY <1>10, <2>4, <1>q DEF LoopRuns, SeeCancel, StopWatching, Goto
  <2>5. CASE KillOverdue(c)
    BY <1>10, <2>5, <1>q DEF LoopRuns, KillOverdue, StopWatching, Goto
  <2>6. CASE LeaveWatch(c)
    BY <1>10, <2>6, <1>q DEF LoopRuns, LeaveWatch, StopWatching, Goto
  <2>7. CASE ClearSignal(c)
    BY <1>10, <2>7, <1>q DEF LoopRuns, ClearSignal, ClearCancelRequest, Goto
  <2>8. CASE FailVerdict(c)
    BY <1>10, <2>8, <1>v DEF LoopRuns, FailVerdict, MarkFailed, Goto
  <2>9. CASE DoneVerdict(c)
    BY <1>10, <2>9, <1>v DEF LoopRuns, DoneVerdict, MarkDone, Goto
  <2>10. CASE RecordCache(c)
    BY <1>10, <2>10, <1>q DEF LoopRuns, RecordCache, CachePut, Goto
  <2>11. CASE SkipMail(c)
    BY <1>10, <2>11, <1>q DEF LoopRuns, SkipMail, Return, Goto
  <2>12. CASE SendMail(c)
    BY <1>10, <2>12, <1>q DEF LoopRuns, SendMail, Goto
  <2>13. CASE ForgetAddress(c)
    BY <1>10, <2>13, <1>q DEF LoopRuns, ForgetAddress, ClearEmail, Return, Goto
  <2> QED
    BY <1>10, <2>1, <2>2, <2>3, <2>4, <2>5, <2>6, <2>7, <2>8, <2>9, <2>10, <2>11, <2>12, <2>13
       DEF LoopRuns, RunStep
<1>11. ASSUME NEW c \in Loops, LoopSweeps(c) PROVE LifeStep
  <2>1. CASE EvictRows(c)
    BY <1>11, <2>1, <1>q DEF EvictRows, Goto
  <2>2. CASE SelectPurgeable(c)
    BY <1>11, <2>2, <1>q DEF SelectPurgeable, Goto
  <2>3. CASE DeleteRows(c)
    <3>1. status' = [j \in Jobs |-> IF j \in Purgeable THEN "purged" ELSE status[j]]
      BY <2>3 DEF DeleteRows, DeletePurgeable
    <3>2. \A j \in Purgeable : j \in Jobs /\ status[j] \in {"done", "failed"}
      BY DEF Purgeable, Statuses
    <3>3. Held' = Held
      BY <2>3 DEF DeleteRows, Goto
    <3>4. Life!Forget(Purgeable)
      BY <3>1, <3>2, <3>3 DEF Life!Forget
    <3> QED
      BY <3>2, <3>4 DEF LifeStep, Life!LifeNext
  <2>4. CASE RemoveDirs(c)
    BY <1>11, <2>4, <1>q DEF RemoveDirs, Goto
  <2> QED
    BY <1>11, <2>1, <2>2, <2>3, <2>4 DEF LoopSweeps, Sweep
<1>12. ASSUME NEW c \in Loops, LoopExits(c) PROVE LifeStep
  BY <1>12, <1>q DEF LoopExits, Goto
<1>13. ASSUME NEW c \in Loops, TickRaises(c) PROVE LifeStep
  <2>1. pc' = [pc EXCEPT ![c] = "idle"] /\ \A d \in Loops : d = c
    BY <1>13 DEF TickRaises, TickFails, StopWatching, Goto
  <2>2. CASE Working(c) /\ MarkFailed(cur[c], "other")
    BY <1>13, <2>1, <2>2, <1>v DEF TickRaises, TickFails, MarkFailed
  <2>3. CASE pc[c] = "mailed" /\ UNCHANGED jobVars
    BY <1>13, <2>1, <2>3, <1>q DEF TickRaises, TickFails
  <2> QED
    BY <1>13, <2>2, <2>3 DEF TickRaises, TickFails
<1>14. ASSUME NEW c \in Loops, Quit(c) PROVE LifeStep
  BY <1>14, <1>q DEF Quit
<1>15. ASSUME NEW c \in Loops, ProcessEnds(c), UNCHANGED kills \/ kills' = kills + 1
      PROVE LifeStep
  <2>1. status' = status /\ pc' = [pc EXCEPT ![c] = "gone"]
    BY <1>15 DEF ProcessEnds
  <2>2. Life!Abandon(Loops)
    BY <2>1 DEF Life!Abandon
  <2> QED
    BY <2>2 DEF LifeStep, Life!LifeNext
<1>16. ASSUME NEW j \in Jobs, ChildExits(j), UNCHANGED <<sweepVars, appVars>>
       PROVE LifeStep
  BY <1>16, <1>q DEF ChildExits
<1>17. CASE UNCHANGED vars
  BY <1>17, <1>q DEF vars
<1> QED
  BY <1>1, <1>2, <1>3, <1>4, <1>5, <1>6, <1>7, <1>8, <1>9,
     <1>10, <1>11, <1>12, <1>13, <1>14, <1>15, <1>16, <1>17
     DEF Next, LoopStep, Leave, KillApp

\* One copy of the app implements the abstract lifecycle of a job: adoption is the
\* requeue, taken while nobody works, and a cancelled or adopted job that waits is
\* withdrawn without a worker.
THEOREM OfflineImplementsLifecycle == ASSUME OneCopy PROVE Spec => ImplementsLifecycle
<1>1. Spec => [][LifeStep]_(Life!lifeVars)
  BY CopyInvariance, LifeKept, PTL DEF Spec, LifeStep
<1> QED
  BY <1>1, LifeStarts, PTL DEF ImplementsLifecycle, Life!LifeSpec, LifeStep, Spec
=============================================================================
