# quiverlab: a verification project

quiverlab is a Python library for finite-dimensional algebras, and a job service
around it: a web application that computes small requests at once and queues the
others, a fleet of worker processes, a desktop application that does both on one
machine, and a batch driver for clusters.  The library is mostly exact linear
algebra; what is hard to test is where steps of several processes meet, where a
crash falls between two writes, and where rewriting must end.  That is what is
modelled here.  Paths are relative to the repository's root (`src/` in
`PROJECT.json`).

Contents: 1 inventory, 2 modules, 3 how model and code correspond, 4 runs,
5 bounds and fairness, 6 disagreements of code and documentation, 7 proofs,
8 not modelled.

## 1. Inventory

| Part | Code | State | Operations | What makes it correct | Model |
|---|---|---|---|---|---|
| Job store | `webapp/server/store.py` | SQLite tables `jobs`, `cancel_requests`, `result_cache`, `pending_big`, `feedback` | create, claim, mark, requeue, cancel, purge, cache put/get/sweep, counts | a row is claimed once; verdicts are final; retention spares what the cache replays | JobStore, WebJobs |
| Worker | `webapp/worker/worker.py` | a claimed job, its child process, its artifacts | claim, watch (deadline, cancel), verdict, cache record, mail, deletion of the address | one verdict; a wedged child dies; one mail at most; no address after the notice | Worker |
| Sweeper | `webapp/worker/sweeper.py` | the rows it has selected | evict cache rows, delete old rows, remove directories, sweep links | directories follow rows; pinned rows stay | Sweeper, MagicLink |
| Fleet | `webapp/worker/run_loop.py` | supervisor, stop event, loops | boot with requeue, poll, stop, grace, terminate, detect a dead loop | nothing stays `running`; big jobs do not freeze the rest; a stop completes | Fleet |
| Desktop app | `webapp/server/offline.py`, `desktop/launcher.py` | one process with a worker thread; a store in the user's home | launch, adopt, poll, cancel, quit | what is shown as running runs; a cancelled job ends; nothing is rerun | OfflineApp |
| Web routes | `webapp/server/app.py`, `cache.py`, `limits.py` | none of their own | cache lookup, sizing, limits, instant run or queue | limits hold up to the races between count and insert | ComputeApi |
| Instant tier | `webapp/server/instant.py` | slot counter, window per address, children, directories | take a slot, run under a wall, end an overrun | no slot, child or directory is lost; the rate holds | ComputeApi, RateLimiter |
| Big jobs by mail | `webapp/server/bigjobs.py`, `mail.py` | `pending_big`, signed tokens | request a link, follow it, sweep it | a link starts one job; no address stays | MagicLink |
| Resolution driver | `src/quiverlab/engine/deepen.py`, `hpc/deepen_runner.py` | checkpoint files, `latest.txt` | advance a degree, save, stop, resume | a crash costs one degree at most | Checkpoint |
| Batch job | `slurm/quiverlab.sbatch`, `src/quiverlab/hpc/cli.py`, `spec.py` | state of the job, result file | submit, run items, exit 75 and requeue | exit 0 means a whole result; requeues make progress | Slurm |
| Draw page | `webapp/static/gui/gui.js`, `worker.js` | drawing, probe, run, busy flag | probe, run, poll, cancel, retry | no wake-up is lost; one run on the page | DrawPage |
| Rewriting | `src/quiverlab/groebner`, `core/monomial.py` | rules, worklist of ambiguities | orient, complete, clean up, certify | what is certified is confluent and loses no relation | Groebner, Confluence |
| Mathematics, formats, pages, external systems | the rest | none that outlives a call | see section 8 | | not modelled |

Everything the service does goes through the store: handlers, loops and the
desktop app share one SQLite file and call nothing in each other.  A store
operation is one transaction; between two of them every other process may run.
A child reports through a queue; the stop event, the slot counter and the rate
windows are the only other shared memory.  The batch driver shares a directory
instead, and the page and its worker exchange messages.  What is hard follows:
interleavings of transactions, crashes between two writes, a requeue after a
crash, cancels and deadlines that race a child's own end, mails that fail half
way, and shutdowns in which processes wait for each other.  `hazards` in
`PROJECT.json` has each of them at its line, with the properties that guard it.

## 2. Modules

```
                              +- Fleet ------> JobLifecycle    MCFleet,    FleetProofs
JobStore <- Worker <- Sweeper +
   ^                          +- OfflineApp -> JobLifecycle    MCOffline,  OfflineProofs
   |
   +- WebJobs <--+- MagicLink ---------------> LinkLifecycle   MCMagicLink, LinkProofs
                 +- ComputeApi (RateLimiter)                   MCComputeApi, ApiProofs

Checkpoint <- Slurm      MCSlurm, SlurmProofs, MCSharedCheckpoint
DrawPage                 DrawProofs
Groebner <- Confluence   MCGroebner, GroebnerProofs <- ConfluenceProofs
```

`<-` is EXTENDS, `->` a refinement shown by a run and a theorem.

* **JobStore** has the tables and one operator per store method, so that fleet,
  desktop app and web tier use the same `ClaimNext` or `RequestCancel`.
* **Worker** is `run_one_job`, transaction by transaction.  **Sweeper** is the
  hourly pass of a loop.
* **Fleet** composes loops, sweeps and supervisor; **OfflineApp** any number of
  copies of the desktop app over one store.
* **JobLifecycle** is what the queue promises about one job, whoever runs it; both
  implement it.
* **WebJobs** is the store as request handlers see it, with the fleet reduced to
  what it does to rows (`FleetStep`).  **MagicLink** and **ComputeApi** are the
  two ways a job comes to be, **RateLimiter** the sliding window.
* **LinkLifecycle** is what a verification link promises; MagicLink implements it.
* **Checkpoint** is `deepen` with its files; **Slurm** the script, the command and
  the loop over items around it.  **MCSharedCheckpoint** adds a second process in
  the same directory.
* **DrawPage** is the protocol between the page, its worker and the server.
* **Groebner** is the path from typed relations to a certified reduction system,
  one action per rewriting, so that reductions can be proved about.
* **Confluence** adds the normal form, the end of a chain of rewritings, and what
  the algebra needs of a certified system.

An operator called a *mutant* in its comment is a plausible bug of the
definition next to it; `mutants` in `PROJECT.json` says which property refutes it.

## 3. How model and code correspond

**Rows.**  A column is a function over `Jobs`; `status` has two more values than
the column, `new` (not inserted) and `purged` (deleted).  Columns nothing reads
back are left out.  `Oldest` leaves ties open, as `ORDER BY created_at LIMIT 1`
does for rows of one second.  The mark operators are updates by id without a look
at the status, as in the code.

**A loop.**  `pc[l]` is the place between two transactions: `guard` is the test
of the watch loop and `watching` its body, `cancelling` and `cleared` lie between
the kill of a cancelled child and its verdict, `overdue` follows the kill at the
wall, `drained` the child's own end; `record`, `notify`, `mailed` are the tail.
A child outlives its loop when only the loop is killed.  `TickFails` is the
`except` clause, before the verdict, which it then writes, and in the tail, where
only the deletion of the address can raise and the verdict is left alone
(`marked`).  An exception in a fleet is two steps, `LoopFails` and
`LoopDies`, because Python joins non-daemon children when a process exits.

**Retention.**  The selection and the deletion of `purge_older_than` are two
statements and two steps, and the directories go in a third.  The eviction of the
cache has two statements too, but the first removes rows of another version of the
library; the model has one version, which the keys name, so it finds none.

**The desktop app.**  `Adopt` is the requeue that commits first, `FailAdopted`
one mark of the loop over the ids, `AdoptionFails` the swallowed exception, from
the requeue or from a mark.  `Quit` is the return of the web server, `Leave` the
end of the process, which waits for a live child.

**Handlers.**  `at[h]` is the place of a request handler, with one step per store
operation, mail or process call.  `SendFails` may happen after the relay took the
mail.  A crash of the server empties the handlers and keeps rows and mailboxes.

**The limiter.**  `Ask` reads the clock, `Admit` or `Throttle` is the locked
half: stamps may reach the deque out of order.  `admits` is a history variable.

**Checkpoints.**  The file by rename, then the pointer, truncated and rewritten in
place, then the removal of older files: five steps.  `DieTorn` leaves the newest
file torn; a torn file does not unpickle, is skipped, and counts as absent.  The
time of a degree, and the degrees at which memory runs out and at which a term is
larger than its cap, are data of the model.

**Batch.**  One item of the request is served by `deepen`.  Exit 75 requeues the
job under its id; the checkpoint directory is named after the id, so a submission
by hand starts in a directory of its own.

**The page.**  A worker's message is handled in the step that posts it; the worker
answers in asynchronous functions that interleave at each await.  A drawing, with
all that goes into its request, is a version number; `empty` says that it has no
vertex.  `Edit` is what renders or calls `scheduleProbe`, `Clear` the button that
removes all, `QuietEdit` the two inputs nothing hears of.  `heard` is a history
variable, the version the timer was last set for.  Each refusal on the page has its
own button, and its own chain of requests behind it.

**Rewriting.**  A word is the sequence of its arrows' ranks, an element a function
from words to nonzero coefficients in GF(p).  Nothing of the arithmetic is
abstracted: leading words, reduction, overlaps, inclusions, cleanup and the bound
`2L-1` are computed as in the code.  `reduce_comb` is a loop and is modelled as
one: `Compare` takes the next ambiguity of the pass and forms its S-polynomial,
`Reduce` is one turn, `Resolve` and `Extend` are its two ends.  An ambiguity is
named by its two rules, its kind and its place; the order of those names is the
order of `all_ambiguities`.  `MinimizeLeads` keeps the numbers of the rules that
stay.  The search for a cycle is the set of states from which a walk goes on for
as many steps as there are states (`GoOn`).

## 4. Runs

| Run | Instance | What it shows |
|---|---|---|
| `fleet_safety` | 2 loops, 2 jobs of either tier, with different keys, room for 1 cache row, hours 0 and 1, retention 0; 1 kill, 1 exception, and the stops that follow; symmetric jobs | `SingleOwner`, `OrphanMeansRestart` (a running row without a loop only on the way to a restart), `FirstComeFirstServed` (also after a requeue), `AtMostOneMail`, `AddressOnlyUntilNotice`, `CacheReplaysDone` (a cache row leads to a finished job with its artifacts), `ImplementsLifecycle` |
| `fleet_verdicts` | 2 loops, a big and an anonymous job; 1 kill, 1 exception, 1 operator stop | `RerunsAreCuts` (one more claim for each kill or cut), `EveryJobEnds`, though no child ever has to end, `StopCompletes` |
| `fleet_reserve` | 2 loops, 2 big jobs that never reach their deadline, 1 anonymous job; 1 kill, and the stop that follows | `AnonymousServed` |
| `offline_safety` | 1 copy, 2 jobs, 2 launches, 1 fault (a kill or an exception), 2 hours | `RunningIsLive`, `OnlyToldAreCancelled`, `ReadCancelIsFinal`, `NeverRerun`, `ImplementsLifecycle`, `CancelEndsTheJob` |
| `magic_links` | 2 handlers, 2 links, 2 jobs; 1 crash, 1 tick, caps 1, 2 and 1 | `SpentLinkHasItsJob`, `QueueOvershoot`, `UnsentLeavesNoAddress`, `SweptLinksAreDead`, `ImplementsLinks`, `AddressForgotten` |
| `compute_requests` | 2 handlers, 1 address, 2 jobs; 1 slot, 2 requests per window of 1 tick | `SlotsAreHeld`, `NothingLeftBehind`, `LoadIsBounded`, `RateIsBounded`, `RequestsEnd` |
| `batch` | 2 job ids, degrees to 2 of costs 1, 2 and 5, limit 4; 2 node failures, a signal; five algebras: none of the limits met, an early end, memory, a cap on terms at the last degree and before it | `LosesOneDegree`, `CleanStopKeepsAll`, `ResultIsComplete`, `JobIsOver` |
| `draw_page` | 2 runs, 1 edit of any kind, 1 lost connection, patience of 2 misses and 1 try | `OneRunOnThePage`, `StaleIsPending`, `EstimateSettles`, `RunEnds` |
| `groebner` | GF(3), two loops at one vertex; all lists of 2 or 3 out of 13 relations, degree bounds 3 and 5 | `CertifiedIsConfluent`, `DistinctLeadsVanish`, `EachRuleIsNew` (why completion ends), `RewritingDescends` (why a reduction ends) |
| `batch_resubmission` | as `batch` | violated: `ResubmissionResumes` |
| `shared_checkpoint` | 2 processes in one directory, degrees to 2, crashes | violated: `PointerKeepsUp` |
| `groebner_duplicates` | four relations, two with one leading word, in every order | violated: `CleanupKeepsIdeal` |

Several properties carry an exception that is part of what the code does; each is
named in the property and explained in section 6: `AddressOnlyUntilNotice`
(exceptions), `EveryJobEnds` and `AnonymousServed` (a loop stranded by an
exception), `ResultIsComplete` (a cap on terms), `StaleIsPending` and
`EstimateSettles` (an empty canvas, edits that schedule nothing),
`ReadCancelIsFinal` (signals nobody read), `RunningIsLive`, `NeverRerun` and
`CancelEndsTheJob` (adoptions cut short), `SpentLinkHasItsJob` and
`UnsentLeavesNoAddress` (server crashes), `SweptLinksAreDead` (links signed in the
second of their row), `OneRunOnThePage` (a failed probe).

## 5. Bounds and fairness

**Bounds.**  Two loops are the smallest fleet with a reserved loop and the smallest
in which two want one row; two handlers the smallest number that races past a
check.  Two jobs give every race for a row and every order in the queue; the third
of `fleet_reserve` is needed to fill both loops with big jobs.  `Top = 2` is the
first degree at which the previous checkpoint of the previous one is pruned.  The
patience of the page (20 misses, 30 tries) is 2 and 1: the count only matters
when it runs out.  The Groebner instance has overlaps of a word with itself,
inclusions, relations that cancel and bounds on both sides of `2L-1`.  Bounds on
the environment are constants named in the configurations: `MaxKills`,
`MaxErrors`, `MaxCuts`, `MaxFaults`, `MaxLaunches`, `MaxCrashes`, `MaxFailures`,
`MaxClock`, `MaxMono`, `MaxRuns`, `MaxEdits`.  One of each reaches every place;
the safety theorems of section 7 hold without them, for any number of loops,
handlers, jobs, launches and faults.

`AnonymousServed` is checked without an exception: its own escape, a stranded loop,
would only hide cases.  A quiet edit and one that is heard are not both in one
execution of `draw_page`; `NoLostProbe` is for any number of either.

In runs that do not look at time the clock stands still, which makes all rows
tie; `fleet_safety`, `offline_safety` and `magic_links` let it move.  In
`offline_safety` the hours move but nothing grows old enough to be purged: that
case is in `fleet_safety`.  The offline run has two active jobs although
`limits.py:16` admits one: the cap is read before the row is created, and a
setting raises it.

Deadlock is checked in the fleet runs.  The others really may stop: the app stays
closed, the ids are used up, the job is over, the presentation has its verdict.

**Fairness.**  Loops, supervisor, handlers, sweeps and computations are processes
and threads the kernel schedules, so their steps are weakly fair.  `Boot` is,
because the container runs under `restart: unless-stopped` (`webapp/deploy`); a
requeued batch job is started by SLURM.  The page's timers and the answers to its
requests are fair: a request ends with an answer or an error.  Nothing is assumed
about a child, it may compute for ever.  A deadline is a clock and comes;
`SpecBigForever` assumes it for the anonymous tier only, as the 24 hours of a big
job are for ever to somebody who waits.  Offline there is no deadline, and no
launch is assumed.  Submissions, clicks, edits, cancels, kills, crashes, stops,
node failures and exceptions are never assumed.

**Assumptions on time.**  `GraceExpires` requires that no loop is at an anonymous
job or between two jobs: the grace is the anonymous wall plus 20 seconds, and a job ends within its
wall, 5 seconds of slack and 10 of escalation (`run_loop.py:21-27`,
`worker.py:214-240`).  `Tick` requires that no tail lasts a retention period (30
days by default).

## 6. Disagreements of code and documentation

Three have a run, with a counterexample:

* `batch_resubmission`: `docs/hpc.md:126` says "just submit the same command
  again" and line 130 that this "resumes from $SCRATCH"; the directory is named
  after the job id (`quiverlab.sbatch:55`), so the new job starts from nothing.
* `groebner_duplicates`: `_minimize_leads` says it "does not change the ideal"
  (`complete.py:46`) and drops the second of two rules with one leading word.  With
  `yy = xx` and `yy = xy` given, one of them does not hold in the algebra that is
  certified.  By `CompletionKeepsIdeal` the cleanup is the only step that can lose
  a relation.
* `shared_checkpoint`: of two jobs that share a checkpoint directory, "a
  slower/stale writer cannot regress the pointer" (`deepen.py:54`); the slower one
  compares before the deeper one writes, and writes after it (`deepen.py:68`).  The
  script gives each job a directory of its own, and then it holds (`NoStaleWriter`).

Others were met on the way.  The model does what the code does, and a property
that would fail names the case it excepts:

* After an exception `run_one_job` writes the verdict, but neither ends the child
  nor runs the tail (`worker.py:262`): the address stays in the row, and in a
  fleet the loop's process waits for its child and looks alive.  If the child never
  ends the loop is stranded (`Stranded`): loop 0 refuses big jobs, so in a fleet of
  two a stranded loop 1 leaves them waiting until the next stop, and a stranded
  loop 0 leaves anonymous jobs waiting while a big one runs.
* A cancel that arrives after the watch loop's last look is confirmed to the
  caller and never read (`store.py:287`, `worker.py:215`).
* The adoption makes stranded rows pending before it marks them failed
  (`offline.py:272`).  An exception there is swallowed, and quitting or killing
  the app there leaves them too: the rest is run again, although line 267 says it
  is not.  If the requeue itself raises, the rows are shown as running until the
  next launch.  `dropped` counts these cases.
* Quitting the desktop app joins a child that may compute for ever: a daemon
  thread does not make its child a daemon process, as the comment at
  `offline.py:351` assumes.
* A second copy of the app (`desktop/launcher.py:14` only looks for a free port)
  fails the first one's job.  The properties of OfflineApp are of one copy, except
  for `OnlyToldAreCancelled`.
* A job whose next degree is predicted to take longer than an allocation, or trips
  the memory guard, is requeued for ever (`JobIsOver` is about jobs that fit).
* A resolution cut by its cap on terms counts as complete, and the dimensions it
  has not computed are written as zeros (`deepen_runner.py:55-58`), although the
  docstring calls complete a degree that was reached or a resolution that
  terminated (line 35).  `ResultIsComplete` promises the dimensions below the cap.
* `docs/hpc.md:121-125` says that the signal makes the computation checkpoint and
  exit 75.  Nothing handles it: the computation dies, and the job is over.
* The probe that is due when the canvas is empty is dropped (`gui.js:1489`), so the
  estimate of what was there before stays on the page; the potential
  (`gui.js:943`) and the choice of coefficients (`gui.js:5678`) go into the request
  but schedule no probe, so the estimate is of the request before them.
* The instant tier joins the child before it reads the queue (`instant.py:187`): a
  result larger than the pipe is an overrun, and the work is done twice.
* `verify_token` accepts `exp` at or after now by its docstring, and after by its
  code; one second.
* A degree bound shorter than a relation's leading word can drop the relation, as
  longer inclusions are skipped (`DistinctLeadsVanish` asks that the words fit).

## 7. Proofs

TLAPS checks the following for every value of the constants, from the `ASSUME`s of
the modules: the number of loops, handlers, copies, jobs, links, degrees and the
bounds are parameters.  Cardinalities need finite `Handlers` and `Jobs`
(`PoolAssumption`), and that a basis is finite needs a quiver with finitely many
vertices (`QuiverAssumption`); nothing else is bounded.

| Module | Theorem | Statement |
|---|---|---|
| FleetProofs | `TypeCorrect` | `[]TypeOK` |
| | `OwnershipHolds` | `[]SingleOwner` |
| | `OrphansAreAdopted` | `[]OrphanMeansRestart` |
| | `ReservationHolds` | a fleet of two or more has a loop no big job holds |
| | `OneMail` | `[]AtMostOneMail` |
| | `VerdictsAreFinal` | a finished row never changes its verdict |
| | `FleetImplementsLifecycle` | `ImplementsLifecycle` |
| | `QueueIsFair` | `[]FirstComeFirstServed` |
| | `OnlyCutJobsRerun` | `[]RerunsAreCuts` |
| | `CacheIsSound` | `[]CacheReplaysDone` |
| | `LeftAddressesAreBounded` | `[]AddressOnlyUntilNotice` |
| OfflineProofs | `TypeCorrect`, `CancelsAreAnnounced` | `[]TypeOK`, `[]OnlyToldAreCancelled`, for any number of copies |
| | `ShownAsRunningRuns` | one copy: `[]RunningIsLive` |
| | `NothingIsRerun` | one copy: `[]NeverRerun` |
| | `CancellationStands` | one copy: `[]ReadCancelIsFinal` |
| | `OfflineImplementsLifecycle` | one copy: `ImplementsLifecycle` |
| LinkProofs | `TypeCorrect` | `[]TypeOK` |
| | `LinksAreNotBurnt` | `[]SpentLinkHasItsJob` |
| | `NoAddressIsStranded` | `[]UnsentLeavesNoAddress` |
| | `SweepIsLate` | `[]SweptLinksAreDead` |
| | `LinksKeepPromise` | `ImplementsLinks` |
| | `OvershootIsBounded` | `[]QueueOvershoot` |
| ApiProofs | `TypeCorrect` | `[]TypeOK` |
| | `SlotsBalance` | `[]SlotsAreHeld` |
| | `RequestsCleanUp` | `[]NothingLeftBehind` |
| | `OvershootIsBounded` | `[]LoadIsBounded` |
| | `WindowIsBounded` | `[]RateIsBounded` |
| SlurmProofs | `TypeCorrect` | `[]TypeOK` |
| | `OneDegreeIsLost` | `[]LosesOneDegree` |
| | `CleanStops` | `[]CleanStopKeepsAll` |
| | `PointerAdvances` | no step moves `latest.txt` back, past a truncation either |
| | `NoStaleWriter` | `[]PointerKeepsUp`, which `shared_checkpoint` violates |
| | `ResultsAreComplete` | `[]ResultIsComplete`: every block, every dimension that can be computed |
| DrawProofs | `TypeCorrect` | `[]TypeOK` |
| | `NoLostProbe` | `[]StaleIsPending`, for edits that schedule a probe |
| | `OneRunAtATime` | `[]OneRunOnThePage` |
| GroebnerProofs | `OrderIsTotal`, `OrderIsWellFounded`, `NoInfiniteDescent`, `OrderIsMultiplicative` | what `order.py` says of the length-lexicographic order |
| | `TypeCorrect` | `[]TypeOK`: each rule rewrites a path of two or more arrows into smaller ones |
| | `ReductionDescends` | `RewritingDescends` |
| | `RulesAreNew` | `EachRuleIsNew` |
| | `CompletionIsBounded` | no more rules than relations and words within the bound |
| | `ArrowsSurvive` | no rule rewrites a vertex or an arrow |
| | `CleanedIsAntichain` | after the cleanup no lead occurs in another |
| | `BasisIsKept` | the cleanup does not change the irreducible words |
| | `CertificateIsComplete` | each ambiguity of certified rules, of any length, was formed and reduced to zero |
| ConfluenceProofs | `ReductionEnds` | `NormalForm` is irreducible and reached by rewritings, for any rules |
| | `DiamondLemma` | when every ambiguity resolves, no nonzero element of the ideal of the rules is irreducible |
| | `NormalFormsDecide` | then two elements have one normal form just when they are equal modulo the ideal |
| | `CertifiedConfluence` | `[]CertifiedIsConfluent` |
| | `NoRelationIsLost` | `[]DistinctLeadsVanish` |
| | `CompletionStaysInIdeal` | every rule is a combination of the relations in contexts |
| | `CompletionKeepsIdeal` | until the cleanup the ideal of the rules is that of the relations |
| | `CertifiedBasis` | after it, too, if leading words differ and fit the bound: the irreducible words are a basis of kQ/I (`certificate.py:6`) |
| | `FiniteBasisDecides` | for any rules, `FiniteBasis` holds just when the irreducible paths are finitely many (`monomial.py:3`) |
| | `CertifiedIsFinite` | a certified system has finitely many irreducible paths (`certificate.py:8`) |

**Fleet.**  `TypeOK` is not inductive: what a loop does to its job is typed only if
it has one (`Attached`).  `OwnInv` ties the place of a loop to its row (`Owned`:
running before the verdict, finished in the tail, and no two loops with one job),
the phase of the supervisor to the rows nobody works on (`Parked`, the
"single-writer moment" the requeue rests on), and retention to verdicts
(`Unfinished`).  The marks of the store are unguarded: a verdict is final only
because `Owned` says who may write it.  Each action is a stutter or a step of
JobLifecycle.

The ledgers of the fleet rest on `OwnInv`.  `ClaimsInv` keeps the claims of a job
within the kills and stops so far: a waiting job has used them up, less the stop
that is going on (`Ahead`), a running one has one claim more, and one that lost
its loop has been cut.  It needs `StopIsOrderly`: no loop polls once the grace is
over.  `CacheInv` says what retention has selected is old and unpinned, and a job
in the tail too young to be selected.  For the addresses every step is a move that
costs as much of the budget as it may leave behind (`AddressMove`); during a stop
the loops still there are counted too.

**Desktop app.**  With several copies only the cancel signal is safe: whoever reads
it was told (`Announced`).  With one, `CopyInv` adds what is being adopted
(`Adopting`), and two ledgers: `Claimable` says that a waiting row that nobody
adopts was claimed at most `dropped` times, `Cancelled` where a told job can still
be once its signal is gone.

**Links.**  `LinkInv` follows a link from hand to hand: a pending id is nobody
else's before its row exists (`FreshIsNew`), whoever follows a link follows one
that was mailed (`FollowedIsMailed`), only the handler that consumed a link
creates its job (`CreatingIsAlone`), hence a link starts one job at most.  The
bound on the queue is by cardinality: a click passes the check only while the
waiting jobs and the clicks before it leave room, and each other handler can be
past the check once.

**Anonymous requests.**  `SlotMove` sums up what a step may do to the slots: one is
taken below the ceiling, one given back, or none moves.  The rate is the deepest
argument.  The deque is what is left of the stamps admitted (`DequeIsRest`).  For a
window that ends at `t` either nothing of it was dropped, and the deque bounds it,
or a thread with a later stamp has come to the lock; from then on only threads that
read the clock at `t` or before can still be let into that window, and each of them
is paid for by its place in `WindowPassed`.

**Batch.**  `FilesAgree` relates pointer and files of a directory, `Abreast` the
memory of a process to its directory, place by place; a crash at each place leaves
`FilesAgree`.  Every write of the pointer is then of the deepest degree built, at
or beyond the old pointer (`PointerForward`).  `BlocksAgree` relates the blocks to
the items behind the job.

`CutAgrees` keeps checkpoints and live processes below the
end of the resolution and the cap, and says which of them a stopped run has met:
one stopped by its cap has as many dimensions as `ResultIsComplete` promises.

**Draw page.**  `Pending` strengthens `StaleIsPending`: a probe older than `heard`
is the newest one only if a newer is about to follow, and `heard` is never ahead of
the drawing.  `QuietEdit` keeps it because nothing in it speaks of the drawing
itself.

**Rewriting.**  The assumptions are that `P` is greater than 1 and each nonzero
residue has an inverse (`P` is a prime), that arrows have a source and a target,
and that a presentation is a finite list of finite elements with integer
coefficients and a natural bound.  Induction over words is replaced by the
least-number principle (`LeastNumber`, from the well-founded order of the
naturals): in a set of words take the shortest length, and from there on the first
place where a word can be undercut.  `IInv` carries each element through a step:
the words of an S-polynomial and of what becomes of it keep between two arrows and
the bound (`WorkFits`), because a tail in the place of its lead only gives smaller
words (`TailIsSmaller`, from `OrderIsMultiplicative`).  Hence the lead of a new rule
fits the bound, and the arrows survive.  A rewriting removes the largest reducible
word and adds smaller ones (`RewriteDescends`), so a reducible word after it is
smaller.  New leads are different words within the bound (`AddedAreNew`), of which
there are finitely many.  Of the rules that rewrite a word, the first with the
shortest lead survives the cleanup (`BasisKept`).  For the certificate, `DoneResolve`
says that each ambiguity this pass is done with reduces to zero by the rules at
hand; a new rule puts all of them back on the list, so at the end of a pass none
is open, and `2L-1 <= D` leaves none of the cleaned rules out (`NoneIsLonger`).
That is the premise of the diamond lemma for the rules before the cleanup.

**Confluence.**  The diamond lemma speaks of sums with any number of terms, and
sums are recursive.  They are avoided: an element is the vector of its
coefficients, vectors are equal modulo `P` (`Equal`), and the ideal of the rules is
the least space of vectors that holds each rule in each context (`Ideal`,
`IdealIsLeast`).  To show something of all its members is to exhibit a space.
`Ideal(rs, W)` keeps to contexts whose word is in `W`; with `W` the words below
another one it is what the lemma needs, an equality reached below that word.

Rewriting an element keeps its class (`ReduceOnceSame`).  At a word that several
rules, or one rule at several places, can rewrite, the results agree modulo the
ideal below that word (`OneRuleAtAWord`): the places are `Apart`, `Overlapping` or
one in the other.  Apart, either result is rewritten by the other rule, term by
term (`IsLinear`); otherwise the word is an ambiguity in a context, and its
S-polynomial reduces to zero below it.  The cleaned rules keep this, as what a
dropped rule says follows from ambiguities below its lead (`KeptRelators`).  Then a
member of the ideal that is nonzero has, among the words that bound it (`IsUpTo`),
a smallest one; its leading term cancels unless that word is reducible
(`TopIsReducible`), which is `DiamondLemma`.  That reduction ends is a pigeonhole:
the reducible words at which the chain works fall, and none is longer than the
longest word at the start (`ChainEnds`), so one of `Enough` turns is the last.

`OriginInv` carries the relations through completion: rule `k` is made of relation
`k` until the cleanup.  `ConsInv` is the converse: each rule and the element at work
are in the ideal of the relations, `RelIdeal`, the least space that holds them in
each context.  Forming an S-polynomial, rewriting and orienting stay in any
two-sided ideal (`AmbiguityIsConsequence`, `RewritingIsConsequence`,
`RuleIsConsequence`); what was put in stays in by `KeptRelators`.  The ideals are
those of the free algebra on the arrows; a word that is no path is zero in `kQ` and
never in a relation's support.

The automaton of `irreducible_paths` remembers of the word it read its target and
its last `r - 1` arrows, `r` the longest leading word.  That is enough to know which
arrows keep the word irreducible (`WindowDecides`), so a walk from a vertex is an
irreducible path and its end a state (`Ends`, `EndsStep`).  `FiniteBasis` asks for a
walk of as many steps as there are states.  The sets of states with a walk of `k`
steps shrink, so if none is empty two successive ones agree, and from there walks
go on for ever (`SomeGoOn`, `LongWalks`); an irreducible path that long is
conversely such a walk (`WalkGoesOn`), and bounded length leaves finitely many
(`FiniteIfCertified`).  Hence `FiniteBasisDecides`.

Only model-checked: liveness under fairness, which the prover does not reach
(`AnonymousServed`, `StopCompletes`, `EveryJobEnds`, `CancelEndsTheJob`,
`AddressForgotten`, `RequestsEnd`, `JobIsOver`, `EstimateSettles`, `RunEnds`).
Every safety property of a run has a theorem.

## 8. Not modelled

Most of the repository's lines are mathematics, and most of the mathematics is
exact linear algebra over a field: resolutions, Hochschild cohomology, derived
categories, modules, spectral sequences, tau-tilting.  Its state is a matrix and
lives for a call.  With the matrices abstract nothing is left that could go wrong;
with the matrices concrete a model would be the program again, on instances
smaller than those of its tests, which compare it with closed formulas.  The
rewriting core is the exception, and is modelled.  Strings, surfaces and gentle
algebras are enumerations that the tests check the same way.  The parsing of
requests, families, citations, traces, pictures, pages, templates, translations
and the text of mails are constructors and formatting.  Macaulay2 and GAP are
external programs.  For that reason the map covers a small share of the
repository and most of the code that keeps state.

Of the parts that are modelled: progress reports, byte caps on results and limits
on CPU and memory act through the child's outcome, which is open in the model.
SQLite is taken as the code takes it, transactions are atomic and durable.  A
forged token carries no link.  `_maybe_gc` of the limiter, the feedback table and
the routes that only read are left out.  The write of the verdict in the `except`
clause and the read of the row right after `claim_next` are taken not to raise: if
one did, the row would stay `running` until a restart.  The variants of the driver
that use a compressed basis share its control.  Scans of parameter families replace
rows by key, without a protocol.
