------------------------------ MODULE DrawProofs ------------------------------
(***************************************************************************)
(* Proofs about DrawPage, for any number of runs, edits, failures, misses  *)
(* and tries.                                                              *)
(***************************************************************************)
EXTENDS DrawPage, TLAPS

Flags == /\ empty \in BOOLEAN /\ timer \in BOOLEAN /\ ready \in BOOLEAN /\ calibrated \in BOOLEAN
         /\ busy \in BOOLEAN /\ disturbed \in BOOLEAN

Data == /\ drawing \in Versions /\ heard \in Versions /\ shown \in Versions \cup {Nothing}
        /\ probe \in Versions \cup {Nothing} /\ oldProbes \in SUBSET Versions
        /\ last \in Jobs /\ target \in [Runs -> Jobs]
        /\ place \in [Runs -> Places]
        /\ misses \in [Runs -> 0..(MaxMisses - 1)]
        /\ blocks \in SUBSET Runs /\ offered \in SUBSET Runs
        /\ retry \in [Runs -> {"none", "asking", "waiting"}] /\ tries \in [Runs -> 0..MaxTries]
        /\ job \in [Jobs -> JobStates]
        /\ faults \in 0..MaxFaults

LEMMA Numbers ==
    /\ MaxRuns \in Nat /\ MaxEdits \in Nat /\ MaxFaults \in Nat /\ MaxTries \in Nat
    /\ MaxMisses \in Nat /\ 0 \in 0..(MaxMisses - 1)
    /\ 0 \in Jobs /\ Runs \subseteq Jobs
    /\ 1 \in Versions
BY DrawAssumption DEF Jobs, Runs, Versions

LEMMA TypeInit == Init => TypeOK
<1> SUFFICES ASSUME Init PROVE TypeOK
  OBVIOUS
<1>1. Flags
  BY DEF Init, Flags
<1>2. Data
  BY Numbers DEF Init, Data, Nothing, Places, JobStates
<1> QED
  BY <1>1, <1>2 DEF TypeOK, Flags, Data

LEMMA FlagsStep == TypeOK /\ [Next]_vars => Flags'
<1> SUFFICES ASSUME TypeOK, [Next]_vars PROVE Flags'
  OBVIOUS
<1> USE DEF TypeOK, Flags, pageVars, probeVars, runVars, retryVars, SetBusy, Schedule, Goto, At, Dispatch, MayRun,
        RunOnly, Onward, Done, Failure, Retried
<1>1. CASE Edit
  BY <1>1, Zenon DEF Edit
<1>2. CASE TimerFires
  BY <1>2, Zenon DEF TimerFires
<1>3. CASE Cancel
  BY <1>3, Zenon DEF Cancel
<1>4. CASE SideFails
  BY <1>4, Zenon DEF SideFails
<1>5. ASSUME NEW r \in Runs, ClickCancelRunning(r) PROVE Flags'
  BY <1>5, Zenon DEF ClickCancelRunning
<1>6. ASSUME NEW r \in Runs, CancelAnswer(r) PROVE Flags'
  BY <1>6, Zenon DEF CancelAnswer
<1>7. ASSUME NEW r \in Runs, CancelFails(r) PROVE Flags'
  BY <1>7, Zenon DEF CancelFails
<1>8. ASSUME NEW r \in Runs, WaitTerminal(r) PROVE Flags'
  BY <1>8, Zenon DEF WaitTerminal
<1>9. CASE EngineReady
  BY <1>9, Zenon DEF EngineReady
<1>10. CASE EngineCalibrated
  BY <1>10, Zenon DEF EngineCalibrated
<1>11. CASE ProbeAnswer
  BY <1>11, Zenon DEF ProbeAnswer
<1>12. CASE OldProbeAnswer
  BY <1>12, Zenon DEF OldProbeAnswer
<1>13. ASSUME NEW r \in Runs, Compute(r) PROVE Flags'
  BY <1>13, Zenon DEF Compute
<1>14. ASSUME NEW r \in Runs, Build(r) PROVE Flags'
  BY <1>14, Zenon DEF Build
<1>15. ASSUME NEW r \in Runs, SubmitRun(r) PROVE Flags'
  BY <1>15, Zenon DEF SubmitRun
<1>16. ASSUME NEW r \in Runs, PollMisses(r) PROVE Flags'
  BY <1>16, Zenon DEF PollMisses
<1>17. ASSUME NEW r \in Runs, PollAnswers(r) PROVE Flags'
  BY <1>17, Zenon DEF PollAnswers
<1>18. ASSUME NEW r \in Runs, Report(r) PROVE Flags'
  BY <1>18, Zenon DEF Report
<1>19. ASSUME NEW r \in Runs, RunFails(r) PROVE Flags'
  BY <1>19, Zenon DEF RunFails
<1>20. ASSUME NEW r \in Runs, JobPurged(r) PROVE Flags'
  BY <1>20, Zenon DEF JobPurged
<1>21. ASSUME NEW j \in Jobs, JobEnds(j) PROVE Flags'
  BY <1>21, Zenon DEF JobEnds
<1>22. CASE UNCHANGED vars
  BY <1>22, Zenon DEF vars
<1>23. CASE QuietEdit
  BY <1>23, Zenon DEF QuietEdit
<1>24. CASE Clear
  BY <1>24, Zenon DEF Clear
<1> QED
  BY <1>1, <1>2, <1>3, <1>4, <1>5, <1>6, <1>7, <1>8, <1>9, <1>10, <1>11, <1>12, <1>13, <1>14, <1>15, <1>16, <1>17, <1>18, <1>19, <1>20, <1>21, <1>22, <1>23, <1>24
     DEF Next, WorkerSteps, RunStep

LEMMA DataStep == TypeOK /\ [Next]_vars => Data'
<1> SUFFICES ASSUME TypeOK, [Next]_vars PROVE Data'
  OBVIOUS
<1> USE Numbers
    DEF TypeOK, Data, Runs, Jobs, Versions, Nothing, Places, Live, JobStates,
        pageVars, probeVars, runVars, retryVars, SetBusy, Schedule, Goto, At, Dispatch, MayRun,
        RunOnly, Onward, Done, Failure, Retried
<1>1. CASE Edit
  BY <1>1 DEF Edit
<1>2. CASE TimerFires
  BY <1>2 DEF TimerFires
<1>3. CASE Cancel
  BY <1>3 DEF Cancel
<1>4. CASE SideFails
  <2>1. /\ probe' \in {probe, Nothing} /\ oldProbes' \subseteq oldProbes
        /\ faults' \in 0..MaxFaults /\ heard' = drawing
    BY <1>4 DEF SideFails
  <2>2. UNCHANGED <<drawing, shown, runVars, retryVars, job>>
    BY <1>4 DEF SideFails
  <2> QED
    BY <2>1, <2>2
<1>5. ASSUME NEW r \in Runs, ClickCancelRunning(r) PROVE Data'
  BY <1>5 DEF ClickCancelRunning
<1>6. ASSUME NEW r \in Runs, CancelAnswer(r) PROVE Data'
  <2>1. UNCHANGED <<drawing, shown, probe, oldProbes, faults, job>>
    BY <1>6 DEF CancelAnswer
  <2>2. /\ \E v \in {retry[r], "waiting", "none"} : retry' = [retry EXCEPT ![r] = v]
        /\ \E v \in 0..MaxTries : tries' = [tries EXCEPT ![r] = v]
        /\ \E v \in Jobs : target' = [target EXCEPT ![r] = v]
    BY <1>6, SMTT(30) DEF CancelAnswer
  <2>3. \/ UNCHANGED <<pageVars, runVars, offered>>
        \/ \E q \in Runs : Dispatch(q)
    BY <1>6 DEF CancelAnswer
  <2>4. /\ last' \in Jobs /\ place' \in [Runs -> Places] /\ blocks' \in SUBSET Runs
        /\ offered' \in SUBSET Runs /\ heard' \in Versions /\ misses' = misses
    BY <2>3
  <2>5. /\ retry' \in [Runs -> {"none", "asking", "waiting"}]
        /\ tries' \in [Runs -> 0..MaxTries] /\ target' \in [Runs -> Jobs]
    BY <2>2
  <2> QED
    BY <2>1, <2>4, <2>5
<1>7. ASSUME NEW r \in Runs, CancelFails(r) PROVE Data'
  BY <1>7, SMTT(30) DEF CancelFails
<1>8. ASSUME NEW r \in Runs, WaitTerminal(r) PROVE Data'
  <2>1. UNCHANGED <<drawing, shown, probe, oldProbes, faults, job>>
    BY <1>8 DEF WaitTerminal
  <2>2. \/ UNCHANGED <<pageVars, runVars, offered>>
        \/ \E q \in Runs : Dispatch(q)
    BY <1>8 DEF WaitTerminal
  <2>3. /\ last' \in Jobs /\ place' \in [Runs -> Places] /\ blocks' \in SUBSET Runs
        /\ offered' \in SUBSET Runs /\ heard' \in Versions /\ misses' = misses
    BY <2>2
  <2>4. /\ retry' \in [Runs -> {"none", "asking", "waiting"}]
        /\ tries' \in [Runs -> 0..MaxTries] /\ target' \in [Runs -> Jobs]
    <3>1. CASE Retried(r)
      BY <3>1, SMTT(30)
    <3>2. CASE tries[r] # 0 /\ tries' = [tries EXCEPT ![r] = @ - 1] /\ UNCHANGED <<retry, target>>
      <4>1. tries[r] - 1 \in 0..MaxTries
        BY <3>2
      <4> QED
        BY <3>2, <4>1
    <3> QED
      BY <1>8, <3>1, <3>2 DEF WaitTerminal
  <2> QED
    BY <2>1, <2>3, <2>4
<1>9. CASE EngineReady
  BY <1>9 DEF EngineReady
<1>10. CASE EngineCalibrated
  BY <1>10 DEF EngineCalibrated
<1>11. CASE ProbeAnswer
  BY <1>11 DEF ProbeAnswer
<1>12. CASE OldProbeAnswer
  BY <1>12 DEF OldProbeAnswer
<1>13. ASSUME NEW r \in Runs, Compute(r) PROVE Data'
  BY <1>13 DEF Compute
<1>14. ASSUME NEW r \in Runs, Build(r) PROVE Data'
  <2>1. /\ \E p \in {"submitting", "ended"} : place' = [place EXCEPT ![r] = p]
        /\ blocks' = blocks \cup {r} /\ offered' = offered
        /\ misses' = misses \/ misses' = [misses EXCEPT ![r] = 0]
        /\ heard' \in {heard, drawing}
    BY <1>14 DEF Build
  <2>2. UNCHANGED <<drawing, shown, probeVars, last, target, retry, tries, job, faults>>
    BY <1>14 DEF Build
  <2> QED
    BY <2>1, <2>2, ZenonT(40)
<1>15. ASSUME NEW r \in Runs, SubmitRun(r) PROVE Data'
  <2>1. /\ \E p \in {"reporting", "polling", "ended"} : place' = [place EXCEPT ![r] = p]
        /\ blocks' \in {blocks, blocks \cup {r}}
        /\ offered' \in {offered, offered \cup {r}}
        /\ misses' = misses \/ misses' = [misses EXCEPT ![r] = 0]
        /\ heard' \in {heard, drawing}
    BY <1>15 DEF SubmitRun
  <2>2. \/ job' = job
        \/ \E v \in {"done", "open"} : job' = [job EXCEPT ![r] = v]
    BY <1>15 DEF SubmitRun
  <2>3. UNCHANGED <<drawing, shown, probeVars, last, target, retry, tries, faults>>
    BY <1>15 DEF SubmitRun
  <2>4. job' \in [Jobs -> JobStates]
    BY <2>2
  <2>5. /\ place' \in [Runs -> Places] /\ blocks' \in SUBSET Runs
        /\ offered' \in SUBSET Runs /\ heard' \in Versions
    BY <2>1
  <2>6. misses' \in [Runs -> 0..(MaxMisses - 1)]
    BY <2>1
  <2> QED
    BY <2>3, <2>4, <2>5, <2>6
<1>16. ASSUME NEW r \in Runs, PollMisses(r) PROVE Data'
  <2>1. /\ \/ misses' = [misses EXCEPT ![r] = 0]
           \/ misses[r] + 1 # MaxMisses /\ misses' = [misses EXCEPT ![r] = @ + 1]
        /\ place' = place \/ place' = [place EXCEPT ![r] = "ended"]
        /\ blocks' \in {blocks, blocks \cup {r}}
        /\ heard' \in {heard, drawing} /\ offered' = offered
    BY <1>16 DEF PollMisses
  <2>2. misses' \in [Runs -> 0..(MaxMisses - 1)]
    <3>1. misses[r] \in 0..(MaxMisses - 1)
      OBVIOUS
    <3>2. \E v \in 0..(MaxMisses - 1) : misses' = [misses EXCEPT ![r] = v]
      BY <2>1, <3>1
    <3> QED
      BY <3>2
  <2>3. /\ place' \in [Runs -> Places] /\ blocks' \in SUBSET Runs
        /\ heard' \in Versions /\ offered' \in SUBSET Runs
    BY <2>1
  <2>4. UNCHANGED <<drawing, shown, probe, oldProbes, last, target, retry, tries, job, faults>>
    BY <1>16 DEF PollMisses
  <2> QED
    BY <2>2, <2>3, <2>4
<1>17. ASSUME NEW r \in Runs, PollAnswers(r) PROVE Data'
  BY <1>17 DEF PollAnswers
<1>18. ASSUME NEW r \in Runs, Report(r) PROVE Data'
  BY <1>18 DEF Report
<1>19. ASSUME NEW r \in Runs, RunFails(r) PROVE Data'
  BY <1>19, SMTT(30) DEF RunFails
<1>20. ASSUME NEW r \in Runs, JobPurged(r) PROVE Data'
  BY <1>20 DEF JobPurged
<1>21. ASSUME NEW j \in Jobs, JobEnds(j) PROVE Data'
  BY <1>21 DEF JobEnds
<1>22. CASE UNCHANGED vars
  BY <1>22 DEF vars
<1>23. CASE QuietEdit
  BY <1>23, SMTT(30) DEF QuietEdit
<1>24. CASE Clear
  BY <1>24 DEF Clear
<1> QED
  BY <1>1, <1>2, <1>3, <1>4, <1>5, <1>6, <1>7, <1>8, <1>9, <1>10, <1>11, <1>12, <1>13, <1>14, <1>15, <1>16, <1>17, <1>18, <1>19, <1>20, <1>21, <1>22, <1>23, <1>24
     DEF Next, WorkerSteps, RunStep

\* The type invariant.
THEOREM TypeCorrect == Spec => []TypeOK
<1>1. TypeOK /\ [Next]_vars => TypeOK'
  BY FlagsStep, DataStep DEF TypeOK, Flags, Data
<1> QED
  BY <1>1, TypeInit, PTL DEF Spec

-----------------------------------------------------------------------------
(* The estimate. *)

\* Nor is a probe that is out older than that, unless a newer one is about to
\* follow; and no timer was set for a version still to come.
Pending ==
    /\ StaleIsPending
    /\ probe # Nothing /\ probe < heard => timer \/ busy \/ ~ready \/ ~calibrated \/ empty
    /\ heard <= drawing

LEMMA PendingStep == TypeOK /\ Pending /\ [Next]_vars => Pending'
<1> SUFFICES ASSUME TypeOK, Pending, [Next]_vars PROVE Pending'
  OBVIOUS
<1>0. drawing \in Nat /\ heard \in Nat /\ shown \in Nat /\ probe \in Nat
  BY Numbers DEF TypeOK, Versions, Nothing
<1> USE <1>0 DEF Nothing, Pending, StaleIsPending, pageVars, probeVars, runVars, retryVars, SetBusy, Schedule, Dispatch,
        MayRun, RunOnly, Onward, Done, Failure, Retried
<1>1. CASE Edit
  BY <1>1 DEF Edit
<1>2. CASE TimerFires
  BY <1>2 DEF TimerFires
<1>3. CASE Cancel
  BY <1>3 DEF Cancel
<1>4. CASE SideFails
  BY <1>4 DEF SideFails
<1>5. ASSUME NEW r \in Runs, ClickCancelRunning(r) PROVE Pending'
  BY <1>5 DEF ClickCancelRunning
<1>6. ASSUME NEW r \in Runs, CancelAnswer(r) PROVE Pending'
  <2>1. \/ UNCHANGED pageVars
        \/ \E q \in Runs : Dispatch(q)
    BY <1>6 DEF CancelAnswer
  <2>2. probe' = probe
    BY <1>6 DEF CancelAnswer
  <2> QED
    BY <2>1, <2>2
<1>7. ASSUME NEW r \in Runs, CancelFails(r) PROVE Pending'
  BY <1>7 DEF CancelFails
<1>8. ASSUME NEW r \in Runs, WaitTerminal(r) PROVE Pending'
  <2>1. \/ UNCHANGED pageVars
        \/ \E q \in Runs : Dispatch(q)
    BY <1>8 DEF WaitTerminal
  <2>2. probe' = probe
    BY <1>8 DEF WaitTerminal
  <2> QED
    BY <2>1, <2>2
<1>9. CASE EngineReady
  BY <1>9 DEF EngineReady
<1>10. CASE EngineCalibrated
  BY <1>10 DEF EngineCalibrated
<1>11. CASE ProbeAnswer
  BY <1>11 DEF ProbeAnswer
<1>12. CASE OldProbeAnswer
  BY <1>12 DEF OldProbeAnswer
<1>13. ASSUME NEW r \in Runs, Compute(r) PROVE Pending'
  BY <1>13 DEF Compute
<1>14. ASSUME NEW r \in Runs, Build(r) PROVE Pending'
  BY <1>14 DEF Build
<1>15. ASSUME NEW r \in Runs, SubmitRun(r) PROVE Pending'
  BY <1>15 DEF SubmitRun
<1>16. ASSUME NEW r \in Runs, PollMisses(r) PROVE Pending'
  BY <1>16 DEF PollMisses
<1>17. ASSUME NEW r \in Runs, PollAnswers(r) PROVE Pending'
  <2>1. (timer' = TRUE /\ heard' = drawing) \/ UNCHANGED <<busy, timer, heard>>
    BY <1>17 DEF PollAnswers
  <2>2. UNCHANGED <<drawing, empty, ready, calibrated, shown, probe>>
    BY <1>17 DEF PollAnswers
  <2> QED
    BY <2>1, <2>2
<1>18. ASSUME NEW r \in Runs, Report(r) PROVE Pending'
  BY <1>18 DEF Report
<1>19. ASSUME NEW r \in Runs, RunFails(r) PROVE Pending'
  BY <1>19 DEF RunFails
<1>20. ASSUME NEW r \in Runs, JobPurged(r) PROVE Pending'
  BY <1>20 DEF JobPurged
<1>21. ASSUME NEW j \in Jobs, JobEnds(j) PROVE Pending'
  BY <1>21 DEF JobEnds
<1>22. CASE UNCHANGED vars
  BY <1>22 DEF vars
<1>23. CASE QuietEdit
  BY <1>23 DEF QuietEdit
<1>24. CASE Clear
  BY <1>24 DEF Clear
<1> QED
  BY <1>1, <1>2, <1>3, <1>4, <1>5, <1>6, <1>7, <1>8, <1>9, <1>10, <1>11, <1>12, <1>13, <1>14, <1>15, <1>16, <1>17, <1>18, <1>19, <1>20, <1>21, <1>22, <1>23, <1>24
     DEF Next, WorkerSteps, RunStep

\* No wake-up of the estimate is lost.
THEOREM NoLostProbe == Spec => []StaleIsPending
<1>1. Init => Pending
  BY DEF Init, Pending, StaleIsPending, Nothing
<1>2. Pending => StaleIsPending
  BY DEF Pending
<1> QED
  BY <1>1, <1>2, PendingStep, TypeCorrect, PTL DEF Spec

-----------------------------------------------------------------------------
(* The runs. *)

LEMMA OneRunStep == TypeOK /\ OneRunOnThePage /\ [Next]_vars => OneRunOnThePage'
<1> SUFFICES ASSUME TypeOK, OneRunOnThePage, [Next]_vars PROVE OneRunOnThePage'
  OBVIOUS
<1> USE DEF TypeOK, OneRunOnThePage, Runs, Live, pageVars, probeVars, runVars, retryVars, SetBusy,
        Schedule, Goto, At, Dispatch, MayRun, RunOnly, Onward, Done, Failure, Retried
<1>1. CASE Edit
  BY <1>1 DEF Edit
<1>2. CASE TimerFires
  BY <1>2 DEF TimerFires
<1>3. CASE Cancel
  BY <1>3 DEF Cancel
<1>4. CASE SideFails
  BY <1>4 DEF SideFails
<1>5. ASSUME NEW r \in Runs, ClickCancelRunning(r) PROVE OneRunOnThePage'
  BY <1>5 DEF ClickCancelRunning
<1>6. ASSUME NEW r \in Runs, CancelAnswer(r) PROVE OneRunOnThePage'
  <2>1. \/ UNCHANGED <<pageVars, runVars>>
        \/ \E q \in Runs : Dispatch(q)
    BY <1>6 DEF CancelAnswer
  <2>2. disturbed' = disturbed
    BY <1>6 DEF CancelAnswer
  <2> QED
    BY <2>1, <2>2
<1>7. ASSUME NEW r \in Runs, CancelFails(r) PROVE OneRunOnThePage'
  BY <1>7 DEF CancelFails
<1>8. ASSUME NEW r \in Runs, WaitTerminal(r) PROVE OneRunOnThePage'
  <2>1. \/ UNCHANGED <<pageVars, runVars>>
        \/ \E q \in Runs : Dispatch(q)
    BY <1>8 DEF WaitTerminal
  <2>2. disturbed' = disturbed
    BY <1>8 DEF WaitTerminal
  <2> QED
    BY <2>1, <2>2
<1>9. CASE EngineReady
  BY <1>9 DEF EngineReady
<1>10. CASE EngineCalibrated
  BY <1>10 DEF EngineCalibrated
<1>11. CASE ProbeAnswer
  BY <1>11 DEF ProbeAnswer
<1>12. CASE OldProbeAnswer
  BY <1>12 DEF OldProbeAnswer
<1>13. ASSUME NEW r \in Runs, Compute(r) PROVE OneRunOnThePage'
  BY <1>13 DEF Compute
<1>14. ASSUME NEW r \in Runs, Build(r) PROVE OneRunOnThePage'
  BY <1>14, ZenonT(40) DEF Build
<1>15. ASSUME NEW r \in Runs, SubmitRun(r) PROVE OneRunOnThePage'
  BY <1>15, ZenonT(40) DEF SubmitRun
<1>16. ASSUME NEW r \in Runs, PollMisses(r) PROVE OneRunOnThePage'
  BY <1>16, ZenonT(40) DEF PollMisses
<1>17. ASSUME NEW r \in Runs, PollAnswers(r) PROVE OneRunOnThePage'
  BY <1>17 DEF PollAnswers
<1>18. ASSUME NEW r \in Runs, Report(r) PROVE OneRunOnThePage'
  BY <1>18 DEF Report
<1>19. ASSUME NEW r \in Runs, RunFails(r) PROVE OneRunOnThePage'
  BY <1>19 DEF RunFails
<1>20. ASSUME NEW r \in Runs, JobPurged(r) PROVE OneRunOnThePage'
  BY <1>20 DEF JobPurged
<1>21. ASSUME NEW j \in Jobs, JobEnds(j) PROVE OneRunOnThePage'
  BY <1>21 DEF JobEnds
<1>22. CASE UNCHANGED vars
  BY <1>22 DEF vars
<1>23. CASE QuietEdit
  BY <1>23 DEF QuietEdit
<1>24. CASE Clear
  BY <1>24 DEF Clear
<1> QED
  BY <1>1, <1>2, <1>3, <1>4, <1>5, <1>6, <1>7, <1>8, <1>9, <1>10, <1>11, <1>12, <1>13, <1>14, <1>15, <1>16, <1>17, <1>18, <1>19, <1>20, <1>21, <1>22, <1>23, <1>24
     DEF Next, WorkerSteps, RunStep

\* A run has the page for itself.
THEOREM OneRunAtATime == Spec => []OneRunOnThePage
<1>1. Init => OneRunOnThePage
  BY DEF Init, OneRunOnThePage, Live
<1> QED
  BY <1>1, OneRunStep, TypeCorrect, PTL DEF Spec
=============================================================================
