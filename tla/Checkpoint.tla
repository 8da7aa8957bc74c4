------------------------------ MODULE Checkpoint ------------------------------
(***************************************************************************)
(* The checkpointed resolution driver (src/src/quiverlab/engine/deepen.py) *)
(* and the files it leaves in its directory.  deepen loads the latest      *)
(* checkpoint, then computes one degree after the other and saves each     *)
(* one: the checkpoint by temporary file and rename, then the pointer      *)
(* latest.txt, which is truncated and rewritten in place, then the removal *)
(* of the checkpoints before the previous one.  A process may die between  *)
(* any two of these steps, and nothing locks the directory.                *)
(*                                                                         *)
(* The matrices are data: a checkpoint is the degree n it was saved at,    *)
(* and holds HH_0..HH_{n-1}.  A file that does not unpickle is skipped     *)
(* like one that is not there, and counts as absent.  A degree takes a     *)
(* known time; the memory guard and the cap on the size of a term trip at  *)
(* known degrees.                                                          *)
(***************************************************************************)
EXTENDS Integers

CONSTANTS Runs,      \* the processes that may run deepen
          Dirs,      \* checkpoint directories
          DirOf,     \* the directory of each process
          Top,       \* the degree asked for (max_degree)
          Cost,      \* the time each degree takes
          Limit,     \* time_limit_s, 0 for none
          Algebras   \* what the algebra may be like, see algebra

ASSUME CheckpointAssumption ==
    /\ DirOf \in [Runs -> Dirs]
    /\ Top \in Nat
    /\ Cost \in [1..(Top + 1) -> Nat \ {0}]
    /\ Limit \in Nat
    /\ Algebras \subseteq [ends : Nat \ {0}, wall : Nat \ {0}, cap : Nat \ {0}]

VARIABLES algebra,  \* the degree at which its resolution terminates (ends), the one
                    \* at which the memory guard trips (wall), and the one whose
                    \* term is larger than max_term_dim (cap)
          ckpt,     \* the degrees with a file ckpt_<n>.pkl, per directory
          latest,   \* latest.txt: a degree, Absent or Torn (truncated)
          pc,       \* the place of each process
          n,        \* st["n"]: the last degree it has built
          hh,       \* the length of its list HH
          last,     \* last_secs
          elapsed,  \* time since it started
          seen,     \* the pointer as it has read it
          reason,   \* its stop_reason, "none" while it runs
          deepest   \* the deepest degree ever built for the directory

fileVars == <<algebra, ckpt, latest, deepest>>
runVars  == <<pc, n, hh, last, elapsed, seen, reason>>

Absent == -1
Torn   == -2
Reasons == {"none", "terminated", "term", "max_degree", "time", "memory", "unreadable"}
\* "off": no process.
Computing == {"deciding", "replacing", "comparing", "truncating", "pointing",
              "pruning", "saved"}
Places    == {"off", "loading", "newest", "previous", "stopped"} \cup Computing

CheckpointTypeOK ==
    /\ algebra \in Algebras
    /\ ckpt    \in [Dirs -> SUBSET (1..(Top + 1))]
    /\ latest  \in [Dirs -> {Absent, Torn} \cup (1..(Top + 1))]
    /\ deepest \in [Dirs -> 0..(Top + 1)]
    /\ pc      \in [Runs -> Places]
    /\ n       \in [Runs -> 0..(Top + 1)]
    /\ hh      \in [Runs -> 0..(Top + 1)]
    /\ last    \in [Runs -> Nat]
    /\ elapsed \in [Runs -> Nat]
    /\ seen    \in [Runs -> {Absent} \cup (1..(Top + 1))]
    /\ reason  \in [Runs -> Reasons]

CheckpointInit ==
    /\ algebra \in Algebras
    /\ ckpt    = [d \in Dirs |-> {}]
    /\ latest  = [d \in Dirs |-> Absent]
    /\ deepest = [d \in Dirs |-> 0]
    /\ pc      = [r \in Runs |-> "off"]
    /\ n       = [r \in Runs |-> 0]
    /\ hh      = [r \in Runs |-> 0]
    /\ last    = [r \in Runs |-> 0]
    /\ elapsed = [r \in Runs |-> 0]
    /\ seen    = [r \in Runs |-> Absent]
    /\ reason  = [r \in Runs |-> "none"]

At(r, place)   == pc[r] = place
Goto(r, place) == pc' = [pc EXCEPT ![r] = place]

Stop(r, why) ==
    /\ Goto(r, "stopped")
    /\ reason' = [reason EXCEPT ![r] = why]

-----------------------------------------------------------------------------
(* Start and load. *)

Begin(r) ==
    /\ At(r, "off")
    /\ Goto(r, "loading")
    /\ n'       = [n EXCEPT ![r] = 0]
    /\ hh'      = [hh EXCEPT ![r] = 0]
    /\ last'    = [last EXCEPT ![r] = 0]
    /\ elapsed' = [elapsed EXCEPT ![r] = 0]
    /\ seen'    = [seen EXCEPT ![r] = Absent]
    /\ reason'  = [reason EXCEPT ![r] = "none"]
    /\ UNCHANGED fileVars

Load(r, c) ==
    /\ n'    = [n EXCEPT ![r] = c]
    /\ hh'   = [hh EXCEPT ![r] = c]
    /\ last' = [last EXCEPT ![r] = Cost[c]]
    /\ Goto(r, "deciding")
    /\ UNCHANGED reason

FreshStart(r) == Goto(r, "deciding") /\ UNCHANGED <<n, hh, last, reason>>

\* Mutant of ReadPointer: every run starts afresh.
NeverResume(r) ==
    /\ At(r, "loading")
    /\ FreshStart(r)
    /\ UNCHANGED <<fileVars, elapsed, seen>>

\* An empty pointer does not parse, and the ValueError is not caught.
ReadPointer(r) ==
    LET p == latest[DirOf[r]] IN
    /\ At(r, "loading")
    /\ CASE p = Absent -> FreshStart(r) /\ UNCHANGED seen
         [] p = Torn   -> Stop(r, "unreadable") /\ UNCHANGED <<n, hh, last, seen>>
         [] OTHER      -> /\ seen' = [seen EXCEPT ![r] = p]
                          /\ Goto(r, "newest")
                          /\ UNCHANGED <<n, hh, last, reason>>
    /\ UNCHANGED <<fileVars, elapsed>>

TryNewest(r) ==
    /\ At(r, "newest")
    /\ IF seen[r] \in ckpt[DirOf[r]]
         THEN Load(r, seen[r])
         ELSE Goto(r, "previous") /\ UNCHANGED <<n, hh, last, reason>>
    /\ UNCHANGED <<fileVars, elapsed, seen>>

TryPrevious(r) ==
    /\ At(r, "previous")
    /\ IF seen[r] - 1 \in ckpt[DirOf[r]] THEN Load(r, seen[r] - 1) ELSE FreshStart(r)
    /\ UNCHANGED <<fileVars, elapsed, seen>>

-----------------------------------------------------------------------------
(* One degree. *)

\* The time stops look at the clock before and after a degree.
TooSlow(r) == Limit > 0 /\ last[r] > 0 /\ elapsed[r] + 2 * last[r] > Limit

StopAtTop(r) ==
    /\ At(r, "deciding")
    /\ n[r] >= Top + 1
    /\ Stop(r, "max_degree")
    /\ UNCHANGED <<fileVars, n, hh, last, elapsed, seen>>

StopPredicted(r) ==
    /\ At(r, "deciding")
    /\ n[r] < Top + 1
    /\ TooSlow(r)
    /\ Stop(r, "time")
    /\ UNCHANGED <<fileVars, n, hh, last, elapsed, seen>>

MayAdvance(r) == At(r, "deciding") /\ n[r] < Top + 1 /\ ~TooSlow(r)

\* The kernel is looked at before the memory guard is asked.
StopAtWall(r) ==
    /\ MayAdvance(r)
    /\ n[r] + 1 # algebra.ends
    /\ n[r] + 1 >= algebra.wall
    /\ Stop(r, "memory")
    /\ UNCHANGED <<fileVars, n, hh, last, elapsed, seen>>

\* HH_{k-1} is final once degree k is known.
Built(r, k) ==
    /\ n'       = [n EXCEPT ![r] = k]
    /\ hh'      = [hh EXCEPT ![r] = @ + 1]
    /\ last'    = [last EXCEPT ![r] = Cost[k]]
    /\ elapsed' = [elapsed EXCEPT ![r] = @ + Cost[k]]
    /\ deepest' = [deepest EXCEPT ![DirOf[r]] = IF @ < k THEN k ELSE @]

Terminate(r) ==
    /\ MayAdvance(r)
    /\ n[r] + 1 = algebra.ends
    /\ Built(r, n[r] + 1)
    /\ Stop(r, "terminated")
    /\ UNCHANGED <<algebra, ckpt, latest, seen>>

\* The term of this degree is too large to go on from: its dimension is known,
\* and it is not saved.
StopAtCap(r) ==
    /\ MayAdvance(r)
    /\ n[r] + 1 # algebra.ends
    /\ n[r] + 1 < algebra.wall
    /\ n[r] + 1 = algebra.cap
    /\ Built(r, n[r] + 1)
    /\ Stop(r, "term")
    /\ UNCHANGED <<algebra, ckpt, latest, seen>>

\* Mutant of Advance: the clock is looked at before the save.
AdvanceAndLookUp(r) ==
    /\ MayAdvance(r)
    /\ n[r] + 1 # algebra.ends
    /\ n[r] + 1 < algebra.wall
    /\ n[r] + 1 # algebra.cap
    /\ Built(r, n[r] + 1)
    /\ Goto(r, IF elapsed'[r] > Limit THEN "saved" ELSE "replacing")
    /\ UNCHANGED <<algebra, ckpt, latest, seen, reason>>

Advance(r) ==
    /\ MayAdvance(r)
    /\ n[r] + 1 # algebra.ends
    /\ n[r] + 1 < algebra.wall
    /\ n[r] + 1 # algebra.cap
    /\ Built(r, n[r] + 1)
    /\ Goto(r, "replacing")
    /\ UNCHANGED <<algebra, ckpt, latest, seen, reason>>

-----------------------------------------------------------------------------
(* _save_ckpt. *)

ReplaceCheckpoint(r) ==
    /\ At(r, "replacing")
    /\ ckpt' = [ckpt EXCEPT ![DirOf[r]] = @ \cup {n[r]}]
    /\ Goto(r, "comparing")
    /\ UNCHANGED <<algebra, latest, deepest, n, hh, last, elapsed, seen, reason>>

\* A pointer that does not exist or does not parse counts as -1.
ComparePointer(r) ==
    LET cur == IF latest[DirOf[r]] = Torn THEN Absent ELSE latest[DirOf[r]] IN
    /\ At(r, "comparing")
    /\ seen' = [seen EXCEPT ![r] = cur]
    /\ Goto(r, IF n[r] >= cur THEN "truncating" ELSE "pruning")
    /\ UNCHANGED <<fileVars, n, hh, last, elapsed, reason>>

TruncatePointer(r) ==
    /\ At(r, "truncating")
    /\ latest' = [latest EXCEPT ![DirOf[r]] = Torn]
    /\ Goto(r, "pointing")
    /\ UNCHANGED <<algebra, ckpt, deepest, n, hh, last, elapsed, seen, reason>>

WritePointer(r) ==
    /\ At(r, "pointing")
    /\ latest' = [latest EXCEPT ![DirOf[r]] = n[r]]
    /\ Goto(r, "pruning")
    /\ UNCHANGED <<algebra, ckpt, deepest, n, hh, last, elapsed, seen, reason>>

\* Mutant of Prune: off by one.
PruneToLast(r) ==
    /\ At(r, "pruning")
    /\ ckpt' = [ckpt EXCEPT ![DirOf[r]] = {c \in @ : c >= n[r]}]
    /\ Goto(r, "saved")
    /\ UNCHANGED <<algebra, latest, deepest, n, hh, last, elapsed, seen, reason>>

\* The removals are taken together: a death between two of them leaves old
\* files, which is what a death before all of them leaves.
Prune(r) ==
    /\ At(r, "pruning")
    /\ ckpt' = [ckpt EXCEPT ![DirOf[r]] = {c \in @ : c >= n[r] - 1}]
    /\ Goto(r, "saved")
    /\ UNCHANGED <<algebra, latest, deepest, n, hh, last, elapsed, seen, reason>>

AfterSave(r) ==
    /\ At(r, "saved")
    /\ IF Limit > 0 /\ elapsed[r] > Limit
         THEN Stop(r, "time")
         ELSE Goto(r, "deciding") /\ UNCHANGED reason
    /\ UNCHANGED <<fileVars, n, hh, last, elapsed, seen>>

DeepenStep(r) ==
    \/ ReadPointer(r) \/ TryNewest(r) \/ TryPrevious(r)
    \/ StopAtTop(r) \/ StopPredicted(r) \/ StopAtWall(r) \/ Terminate(r) \/ StopAtCap(r)
    \/ Advance(r)
    \/ ReplaceCheckpoint(r) \/ ComparePointer(r) \/ TruncatePointer(r)
    \/ WritePointer(r) \/ Prune(r) \/ AfterSave(r)

\* The process dies wherever it is.
Die(rs) ==
    /\ pc' = [r \in Runs |-> IF r \in rs THEN "off" ELSE pc[r]]
    /\ UNCHANGED <<fileVars, n, hh, last, elapsed, seen, reason>>

\* It dies while it saves, and the file it has just written is torn.
DieTorn(r) ==
    /\ pc[r] \in {"comparing", "truncating", "pointing", "pruning", "saved"}
    /\ pc' = [pc EXCEPT ![r] = "off"]
    /\ ckpt' = [ckpt EXCEPT ![DirOf[r]] = @ \ {n[r]}]
    /\ UNCHANGED <<algebra, latest, deepest, n, hh, last, elapsed, seen, reason>>

-----------------------------------------------------------------------------
(* Properties. *)

\* The degree a run would resume from, 0 for a fresh start, when the pointer can
\* be read.
ResumeDegree(d) ==
    IF latest[d] \in ckpt[d] THEN latest[d]
    ELSE IF latest[d] - 1 \in ckpt[d] THEN latest[d] - 1 ELSE 0

\* A run that computes has lost at most the last degree of all the runs before
\* it: it never restarts silently from less (deepen.py:10, "a timeout / node
\* failure costs at most one degree's recompute").  When the crash left an
\* empty pointer the run does not compute at all.
LosesOneDegree ==
    \A r \in Runs : pc[r] \in Computing => n[r] + 1 >= deepest[DirOf[r]]

\* "latest.txt only ever advances (a slower/stale writer cannot regress the
\* pointer and lose deeper progress)" (deepen.py:54): a process that has saved a
\* degree finds the pointer there or beyond, or in the middle of a write, as long
\* as it computes.  Two processes in one directory break it: the slower one
\* compares before the deeper one writes, and writes after it.
PointerKeepsUp ==
    \A r \in Runs :
        pc[r] \in {"pruning", "saved"} =>
            latest[DirOf[r]] = Torn \/ latest[DirOf[r]] >= n[r]
=============================================================================
