------------------------------- MODULE DrawPage -------------------------------
(***************************************************************************)
(* The draw page of the web application (src/webapp/static/gui/gui.js) and *)
(* its worker, the server-backed twin of the Pyodide one (gui/worker.js).  *)
(* The worker answers commands in asynchronous functions that interleave   *)
(* at every await: probes of the drawing, and a run, which builds, submits *)
(* and polls a job.  A random fill differs from a probe only in what it    *)
(* puts on the page and is left out.                                       *)
(*                                                                         *)
(* A message of the worker is handled in the step that posts it: they      *)
(* reach the page in their order, and what the page does before a message  *)
(* arrives it may as well do before it is sent.  Terminating a worker      *)
(* empties its queue.  A drawing, with all that goes into its request, is  *)
(* a version number.  Of the probes that are out, the newest is the one    *)
(* whose seq is still current.  The server is external: it answers or the  *)
(* connection fails, and a job ends or not.                                *)
(***************************************************************************)
EXTENDS Naturals, FiniteSets

CONSTANTS MaxRuns,      \* bound on runs
          MaxEdits,     \* bound on edits of the drawing
          MaxFaults,    \* bound on connections that fail
          MaxMisses,    \* pollJob gives up after so many (20)
          MaxTries      \* waitTerminalThenRetry gives up after so many (30)

ASSUME DrawAssumption ==
    /\ MaxRuns \in Nat /\ MaxEdits \in Nat /\ MaxFaults \in Nat /\ MaxTries \in Nat
    /\ MaxMisses \in Nat \ {0}

VARIABLES drawing,      \* the version on the page
          empty,        \* it has no vertex
          timer,        \* probeTimer is set
          heard,        \* history: the version probeTimer was last set for
          ready,        \* S.engineReady
          calibrated,   \* S.factor is not null
          busy,         \* S.busy
          shown,        \* the version the estimate on the page is of, or Nothing
          probe,        \* the version of the newest probe that is out, or Nothing
          oldProbes,    \* the versions of the older ones that are out
          last,         \* the last run dispatched, or Nothing
          place,        \* where the worker is in each run
          misses,       \* the consecutive misses of its polling
          blocks,       \* the runs that have something on the page
          offered,      \* the runs whose refusal has a live button to cancel
          retry,        \* "none", or the place of the cancellation from each
          tries,        \* what is left of its waitTerminalThenRetry
          target,       \* the job it cancels
          job,          \* the state of each run's job on the server
          faults,
          disturbed     \* history: a fatal message has ended a run that goes on

pageVars   == <<drawing, empty, timer, heard, ready, calibrated, busy, shown>>
probeVars  == <<probe, oldProbes>>
runVars    == <<last, place, misses, blocks>>
retryVars  == <<offered, retry, tries, target>>
vars == <<pageVars, probeVars, runVars, retryVars, faults, job, disturbed>>

Runs     == 1..MaxRuns
\* Job 0 is one that another page of the same address has started.
Jobs     == 0..MaxRuns
Versions == 1..(MaxEdits + 1)
Nothing  == 0
Live     == {"building", "submitting", "polling", "reporting"}
Places   == {"unused", "ended"} \cup Live
\* Every state of a job but "open" is final to the page; "gone" is a row that
\* retention has deleted.
JobStates == {"none", "open", "done", "failed", "gone"}

TypeOK ==
    /\ drawing \in Versions /\ heard \in Versions /\ shown \in Versions \cup {Nothing}
    /\ empty \in BOOLEAN /\ timer \in BOOLEAN /\ ready \in BOOLEAN /\ calibrated \in BOOLEAN
    /\ busy \in BOOLEAN /\ disturbed \in BOOLEAN
    /\ probe \in Versions \cup {Nothing} /\ oldProbes \in SUBSET Versions
    /\ last \in Jobs /\ target \in [Runs -> Jobs]
    /\ place \in [Runs -> Places]
    /\ misses \in [Runs -> 0..(MaxMisses - 1)]
    /\ blocks \in SUBSET Runs /\ offered \in SUBSET Runs
    /\ retry \in [Runs -> {"none", "asking", "waiting"}] /\ tries \in [Runs -> 0..MaxTries]
    /\ job \in [Jobs -> JobStates]
    /\ faults \in 0..MaxFaults

\* The first touch of the page, which may load a drawing, starts the worker.
Init ==
    /\ drawing = 1 /\ empty \in BOOLEAN /\ shown = Nothing
    /\ timer = TRUE /\ heard = 1
    /\ ready = FALSE /\ calibrated = FALSE /\ busy = FALSE
    /\ probe = Nothing /\ oldProbes = {}
    /\ last = 0 /\ blocks = {}
    /\ place = [r \in Runs |-> "unused"] /\ misses = [r \in Runs |-> 0]
    /\ offered = {} /\ retry = [r \in Runs |-> "none"]
    /\ tries = [r \in Runs |-> 0] /\ target = [r \in Runs |-> 0]
    /\ \E other \in {"none", "open"} :
           job = [j \in Jobs |-> IF j = 0 THEN other ELSE "none"]
    /\ faults = 0 /\ disturbed = FALSE

At(r, p)   == place[r] = p
Goto(r, p) == place' = [place EXCEPT ![r] = p]

\* Mutant of SetBusy: the page is not rendered.
SetBusyOnly(b) == busy' = b /\ UNCHANGED <<timer, heard>>

\* scheduleProbe, for what is on the page after the step.
Schedule(version) == timer' = TRUE /\ heard' = version

\* setBusy renders, and rendering schedules a probe.
SetBusy(b) == busy' = b /\ Schedule(drawing)

-----------------------------------------------------------------------------
(* The page. *)

\* An edit that renders, or that schedules a probe itself.
Edit ==
    /\ drawing <= MaxEdits
    /\ drawing' = drawing + 1
    /\ empty' \in BOOLEAN
    /\ Schedule(drawing + 1)
    /\ UNCHANGED <<ready, calibrated, busy, shown, probeVars, runVars, retryVars,
                   faults, job, disturbed>>

\* The potential and the choice of coefficients go into the request, and nothing
\* hears of them.
QuietEdit ==
    /\ drawing <= MaxEdits
    /\ drawing' = drawing + 1
    /\ UNCHANGED <<empty, timer, heard, ready, calibrated, busy, shown, probeVars,
                   runVars, retryVars, faults, job, disturbed>>

\* The drawing goes, and with it what the page shows of the last run.
Clear ==
    /\ drawing <= MaxEdits
    /\ drawing' = drawing + 1
    /\ empty' = TRUE
    /\ Schedule(drawing + 1)
    /\ blocks' = {} /\ offered' = {}
    /\ UNCHANGED <<ready, calibrated, busy, shown, probeVars, last, place, misses,
                   retry, tries, target, faults, job, disturbed>>

\* The timer of scheduleProbe: one that fires too early leads to nothing.
TimerFires ==
    /\ timer
    /\ timer' = FALSE
    /\ IF ready /\ ~busy /\ calibrated /\ ~empty
         THEN /\ probe' = drawing
              /\ oldProbes' = oldProbes \cup ({probe} \ {Nothing})
         ELSE UNCHANGED <<probe, oldProbes>>
    /\ UNCHANGED <<drawing, empty, heard, ready, calibrated, busy, shown, runVars,
                   retryVars, faults, job, disturbed>>

MayRun == ~busy /\ ready /\ ~empty

\* runCompute, when it does anything.
Dispatch(r) ==
    /\ MayRun
    /\ r = last + 1
    /\ Goto(r, "building")
    /\ last' = r
    /\ blocks' = {}
    /\ SetBusy(TRUE)
    /\ offered' = {}
    /\ UNCHANGED <<drawing, empty, ready, calibrated, shown, misses>>

Compute(r) ==
    /\ Dispatch(r)
    /\ UNCHANGED <<probeVars, retry, tries, target, faults, job, disturbed>>

\* Mutant of Cancel: the old worker is not terminated.
CancelLeavesWorker ==
    /\ busy
    /\ SetBusy(FALSE)
    /\ ready' = FALSE /\ calibrated' = FALSE
    /\ UNCHANGED <<drawing, empty, shown, probeVars, runVars, retryVars, faults, job,
                   disturbed>>

\* The worker is terminated with all it has out.  The job goes on.
Cancel ==
    /\ busy
    /\ SetBusy(FALSE)
    /\ ready' = FALSE /\ calibrated' = FALSE
    /\ probe' = Nothing /\ oldProbes' = {}
    /\ place' = [r \in Runs |-> IF place[r] \in Live THEN "ended" ELSE place[r]]
    /\ misses' = [r \in Runs |-> 0]
    /\ UNCHANGED <<drawing, empty, shown, last, blocks, retryVars, faults, job, disturbed>>

-----------------------------------------------------------------------------
(* The worker: init, calibrate, probe, random. *)

EngineReady ==
    /\ ~ready
    /\ ready' = TRUE
    /\ Schedule(drawing)
    /\ UNCHANGED <<drawing, empty, calibrated, busy, shown, probeVars, runVars, retryVars,
                   faults, job, disturbed>>

EngineCalibrated ==
    /\ ready /\ ~calibrated
    /\ calibrated' = TRUE
    /\ Schedule(drawing)
    /\ UNCHANGED <<drawing, empty, ready, busy, shown, probeVars, runVars, retryVars,
                   faults, job, disturbed>>

ProbeAnswer ==
    /\ probe # Nothing
    /\ shown' = IF busy THEN shown ELSE probe
    /\ probe' = Nothing
    /\ UNCHANGED <<drawing, empty, timer, heard, ready, calibrated, busy, oldProbes,
                   runVars, retryVars, faults, job, disturbed>>

\* Mutant of OldProbeAnswer: the seq is not looked at.
OldProbeShown ==
    \E v \in oldProbes :
        /\ oldProbes' = oldProbes \ {v}
        /\ shown' = IF busy THEN shown ELSE v
        /\ UNCHANGED <<drawing, empty, timer, heard, ready, calibrated, busy, probe,
                       runVars, retryVars, faults, job, disturbed>>

\* An answer with an old seq is dropped.
OldProbeAnswer ==
    \E v \in oldProbes :
        /\ oldProbes' = oldProbes \ {v}
        /\ UNCHANGED <<pageVars, probe, runVars, retryVars, faults, job, disturbed>>

\* A rejected fetch in a probe reaches the page as fatal, which ends
\* what the page takes for the run.
SideFails ==
    /\ faults < MaxFaults
    /\ faults' = faults + 1
    /\ \/ probe # Nothing /\ probe' = Nothing /\ UNCHANGED oldProbes
       \/ \E v \in oldProbes : oldProbes' = oldProbes \ {v} /\ UNCHANGED probe
    /\ SetBusy(FALSE)
    /\ disturbed' = (disturbed \/ busy)
    /\ UNCHANGED <<drawing, empty, ready, calibrated, shown, runVars, retryVars, job>>

-----------------------------------------------------------------------------
(* The worker: run and pollJob. *)

RunOnly == <<drawing, empty, ready, calibrated, shown, probeVars, last, faults,
             disturbed, retry, tries, target>>

\* What a step that leaves the run going does not touch.
Onward == <<busy, timer, heard, blocks, offered, misses>>

\* The run is over: "done".
Done(r) ==
    /\ Goto(r, "ended")
    /\ misses' = [misses EXCEPT ![r] = 0]
    /\ SetBusy(FALSE)

\* renderError; a refusal for a running job comes with the offer to cancel it.
Failure(r, limited) ==
    /\ Done(r)
    /\ blocks' = blocks \cup {r}
    /\ offered' = IF limited THEN offered \cup {r} ELSE offered

Build(r) ==
    /\ At(r, "building")
    /\ \/ /\ Goto(r, "submitting")
          /\ blocks' = blocks \cup {r}
          /\ UNCHANGED <<busy, timer, heard, offered, misses>>
       \/ Failure(r, FALSE)
    /\ UNCHANGED <<RunOnly, job>>

\* A job of the same address that is open keeps a new one out (offline: one).
SubmitRun(r) ==
    /\ At(r, "submitting")
    /\ \/ \* instant
          /\ Goto(r, "reporting")
          /\ UNCHANGED <<Onward, job>>
       \/ \* cached
          /\ Goto(r, "reporting")
          /\ job' = [job EXCEPT ![r] = "done"]
          /\ UNCHANGED Onward
       \/ \* queued
          /\ \A q \in Jobs : job[q] # "open"
          /\ job' = [job EXCEPT ![r] = "open"]
          /\ Goto(r, "polling")
          /\ UNCHANGED Onward
       \/ \* the job limit
          /\ \E q \in Jobs : job[q] = "open"
          /\ Failure(r, TRUE)
          /\ UNCHANGED job
       \/ \* big, or refused for another reason
          /\ Failure(r, FALSE)
          /\ UNCHANGED job
    /\ UNCHANGED RunOnly

\* A rejected fetch before the polling is fatal.
RunFails(r) ==
    /\ place[r] \in {"building", "submitting"}
    /\ faults < MaxFaults
    /\ faults' = faults + 1
    /\ Done(r)
    /\ disturbed' = (disturbed \/ r # last)
    /\ UNCHANGED <<drawing, empty, ready, calibrated, shown, probeVars, last, blocks,
                   retryVars, job>>

\* Mutant of PollMisses: the misses are not counted.
MissesForever(r) ==
    /\ At(r, "polling")
    /\ UNCHANGED vars

\* The connection fails, or the answer is a 404.
PollMisses(r) ==
    /\ At(r, "polling")
    /\ IF misses[r] + 1 = MaxMisses
         THEN Failure(r, FALSE)
         ELSE /\ misses' = [misses EXCEPT ![r] = @ + 1]
              /\ UNCHANGED <<place, busy, timer, heard, blocks, offered>>
    /\ UNCHANGED <<RunOnly, job>>

PollAnswers(r) ==
    /\ At(r, "polling")
    /\ job[r] \in {"open", "done", "failed"}
    /\ misses' = [misses EXCEPT ![r] = 0]
    /\ CASE job[r] = "open"   -> UNCHANGED <<place, busy, timer, heard, blocks, offered>>
         [] job[r] = "failed" -> Failure(r, FALSE)
         [] job[r] = "done"   -> /\ Goto(r, "reporting")
                                 /\ UNCHANGED <<busy, timer, heard, blocks, offered>>
    /\ UNCHANGED <<RunOnly, job>>

\* The results, the trace and the artifacts, then "done"; or an error, when
\* result.json is gone with its job.
Report(r) ==
    /\ At(r, "reporting")
    /\ Done(r)
    /\ blocks' = blocks \cup {r}
    /\ UNCHANGED <<RunOnly, offered, job>>

RunStep(r) == \/ Build(r) \/ SubmitRun(r) \/ PollMisses(r) \/ PollAnswers(r)
              \/ Report(r)

-----------------------------------------------------------------------------
(* Cancel the running job, and retry (offline only): one chain of requests *)
(* for every refusal, which goes on when the refusal is off the page.       *)

\* The button is disabled.
ClickCancelRunning(r) ==
    /\ r \in offered
    /\ offered' = offered \ {r}
    /\ retry' = [retry EXCEPT ![r] = "asking"]
    /\ UNCHANGED <<pageVars, probeVars, runVars, tries, target, faults, job, disturbed>>

\* runCompute without a click; it does nothing when the page is busy or empty.
Retried(r) ==
    /\ retry' = [retry EXCEPT ![r] = "none"]
    /\ target' = [target EXCEPT ![r] = 0]
    /\ tries' = [tries EXCEPT ![r] = 0]
    /\ \/ \E q \in Runs : Dispatch(q)
       \/ /\ ~MayRun \/ last = MaxRuns
          /\ UNCHANGED <<pageVars, runVars, offered>>

\* /api/cancel-running: a hit starts the wait, a miss retries at once.
CancelAnswer(r) ==
    /\ retry[r] = "asking"
    /\ \/ \E q \in Jobs : /\ job[q] = "open"
                          /\ retry' = [retry EXCEPT ![r] = "waiting"]
                          /\ tries' = [tries EXCEPT ![r] = MaxTries]
                          /\ target' = [target EXCEPT ![r] = q]
                          /\ UNCHANGED <<pageVars, runVars, offered>>
       \/ (\A q \in Jobs : job[q] # "open") /\ Retried(r)
    /\ UNCHANGED <<probeVars, faults, job, disturbed>>

\* The answer never comes: the button, if it is still there, is live again.
CancelFails(r) ==
    /\ retry[r] = "asking"
    /\ faults < MaxFaults
    /\ faults' = faults + 1
    /\ retry' = [retry EXCEPT ![r] = "none"]
    /\ offered' = IF r \in blocks THEN offered \cup {r} ELSE offered
    /\ UNCHANGED <<pageVars, probeVars, runVars, tries, target, job, disturbed>>

WaitTerminal(r) ==
    /\ retry[r] = "waiting"
    /\ IF job[target[r]] # "open" \/ tries[r] = 0
         THEN Retried(r)
         ELSE /\ tries' = [tries EXCEPT ![r] = @ - 1]
              /\ UNCHANGED <<pageVars, runVars, offered, retry, target>>
    /\ UNCHANGED <<probeVars, faults, job, disturbed>>

-----------------------------------------------------------------------------
(* The server. *)

\* How a job ended, and that its row goes, matters only to a run that looks.
JobEnds(j) ==
    /\ job[j] = "open"
    /\ \E s \in IF j \in Runs /\ place[j] \in Live THEN {"done", "failed"} ELSE {"done"} :
           job' = [job EXCEPT ![j] = s]
    /\ UNCHANGED <<pageVars, probeVars, runVars, retryVars, faults, disturbed>>

JobPurged(r) ==
    /\ place[r] \in Live
    /\ job[r] \in {"done", "failed"}
    /\ job' = [job EXCEPT ![r] = "gone"]
    /\ UNCHANGED <<pageVars, probeVars, runVars, retryVars, faults, disturbed>>

WorkerSteps ==
    \/ EngineReady \/ EngineCalibrated \/ ProbeAnswer \/ OldProbeAnswer

Next ==
    \/ Edit \/ QuietEdit \/ Clear \/ TimerFires \/ Cancel
    \/ WorkerSteps \/ SideFails
    \/ \E r \in Runs :
          \/ Compute(r) \/ RunStep(r) \/ RunFails(r) \/ JobPurged(r)
          \/ ClickCancelRunning(r) \/ CancelAnswer(r) \/ CancelFails(r) \/ WaitTerminal(r)
    \/ \E j \in Jobs : JobEnds(j)

Spec == Init /\ [][Next]_vars

\* Timers fire, the worker starts and every request is answered or fails; the
\* user and the end of a job are not assumed.
FairSpec ==
    /\ Spec
    /\ WF_vars(TimerFires) /\ WF_vars(EngineReady) /\ WF_vars(EngineCalibrated)
    /\ WF_vars(ProbeAnswer) /\ WF_vars(OldProbeAnswer)
    /\ \A r \in Runs :
          WF_vars(RunStep(r)) /\ WF_vars(CancelAnswer(r)) /\ WF_vars(WaitTerminal(r))

-----------------------------------------------------------------------------
(* Properties. *)

\* Unless a probe failed under it, a run has the page for itself: the
\* blocks on the page are those of the last run, and the page is busy as long as
\* that run is live (gui.js:5238, worker.js:145).
OneRunOnThePage ==
    ~disturbed =>
        /\ blocks \subseteq {last}
        /\ \A r \in Runs : place[r] \in Live => r = last
        /\ busy <=> \E r \in Runs : place[r] \in Live

\* An estimate older than the last edit that schedules a probe is about to be
\* replaced, whatever edits, runs, cancels and failures come between: no wake-up
\* is lost (gui.js:1485, gui.js:1523).  A drawing without vertices has no
\* estimate to wait for (gui.js:1489), and the edits that schedule none
\* (gui.js:943, gui.js:5678) leave the old one standing.
StaleIsPending ==
    shown < heard =>
        timer \/ busy \/ probe >= heard \/ ~ready \/ ~calibrated \/ empty

\* When the page is left alone with a drawing on it, its estimate is no older
\* than the last edit that schedules a probe.
EstimateSettles == <>[](~busy /\ ~empty) => <>[](shown >= heard)

\* A run whose job is not running comes to its end (worker.js:116).
RunEnds ==
    \A r \in Runs :
        (place[r] \in Live /\ job[r] # "open") ~> (place[r] \notin Live \/ job[r] = "open")

=============================================================================
