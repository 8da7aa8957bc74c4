----------------------------- MODULE SlurmProofs -----------------------------
(***************************************************************************)
(* Proofs about Slurm, for every number of jobs, every algebra, every cost *)
(* of a degree, every limit and any number of node failures.               *)
(***************************************************************************)
EXTENDS Slurm, TLAPS

-----------------------------------------------------------------------------
(* The invariant of the driver. *)

Degrees   == 1..(Top + 1)
Unsaved   == {"replacing", "comparing", "truncating", "pointing"}

\* A pointer that can be read leads to the last degree saved, or to the one
\* before, and at most one degree is not saved.
FilesAgree ==
    \A d \in Dirs :
        /\ latest[d] \in Degrees =>
              latest[d] \in ckpt[d] \/ latest[d] - 1 \in ckpt[d] \/ latest[d] = 1
        /\ latest[d] # Torn => deepest[d] <= ResumeDegree(d) + 1

\* What a process has in memory, place by place, against its directory.
Abreast(r) ==
    LET d == DirOf[r] IN
    /\ hh[r] = n[r]
    /\ pc[r] \in {"newest", "previous"} => seen[r] = latest[d] /\ latest[d] \in Degrees
    /\ pc[r] = "previous" => seen[r] \notin ckpt[d]
    /\ pc[r] \in {"loading", "newest", "previous"} => n[r] = 0 /\ last[r] = 0
    /\ pc[r] \in {"deciding", "saved"} =>
          /\ latest[d] # Torn
          /\ n[r] = ResumeDegree(d)
          /\ latest[d] \in {n[r], n[r] + 1} \/ (n[r] = 0 /\ latest[d] = Absent)
          /\ n[r] = 0 => last[r] = 0
    /\ pc[r] = "saved" => n[r] > 0 /\ latest[d] = n[r]
    /\ pc[r] \in Unsaved \cup {"pruning", "saved"} =>
          /\ n[r] = deepest[d] /\ n[r] \in Degrees
          /\ n[r] - 1 \in ckpt[d] \/ n[r] = 1
    /\ pc[r] \in {"replacing", "comparing", "truncating"} =>
          latest[d] \in {n[r] - 1, n[r]} \/ (n[r] = 1 /\ latest[d] = Absent)
    /\ pc[r] \in {"comparing", "truncating", "pointing", "pruning", "saved"} =>
          n[r] \in ckpt[d]
    /\ pc[r] = "pointing" => latest[d] = Torn
    /\ pc[r] = "pruning" => latest[d] = n[r]
    /\ pc[r] = "stopped" /\ reason[r] = "time" =>
          latest[d] # Torn /\ n[r] = ResumeDegree(d)

DriverInv == CheckpointTypeOK /\ FilesAgree /\ \A r \in Runs : Abreast(r)

LEMMA DriverInit == CheckpointInit => DriverInv
BY CheckpointAssumption
   DEF CheckpointInit, DriverInv, CheckpointTypeOK, FilesAgree, Abreast, ResumeDegree, Degrees,
       Places, Computing, Reasons, Absent, Torn, Unsaved

\* What another process does in its own directory does not matter to q.
LEMMA OtherDirectory ==
  ASSUME DriverInv, CheckpointTypeOK', NEW r \in Runs, NEW q \in Runs \ {r},
         pc'[q] = pc[q], n'[q] = n[q], hh'[q] = hh[q], last'[q] = last[q],
         seen'[q] = seen[q], reason'[q] = reason[q],
         \A d \in Dirs \ {DirOf[r]} : /\ latest'[d] = latest[d]
                                      /\ ckpt'[d] = ckpt[d]
                                      /\ deepest'[d] = deepest[d]
  PROVE  Abreast(q)'
<1>1. DirOf[q] \in Dirs \ {DirOf[r]}
  BY CheckpointAssumption, SlurmAssumption
<1> QED
  BY <1>1 DEF DriverInv, Abreast, ResumeDegree

LEMMA DriverTypeStep ==
  ASSUME DriverInv, NEW r \in Runs, Begin(r) \/ DeepenStep(r) \/ Die({r}) \/ DieTorn(r)
  PROVE  CheckpointTypeOK'
<1>0. /\ Top \in Nat /\ DirOf \in [Runs -> Dirs]
      /\ Cost \in [1..(Top + 1) -> Nat]
      /\ 0 \in 0..(Top + 1) /\ 1..(Top + 1) \subseteq 0..(Top + 1)
  BY CheckpointAssumption
<1> USE <1>0 DEF DriverInv, CheckpointTypeOK, Places, Computing, Reasons, fileVars, At, Goto
<1>1. CASE Begin(r)
  BY <1>1 DEF Begin
<1>2. CASE ReadPointer(r)
  <2> DEFINE p == latest[DirOf[r]]
  <2>0. Absent # Torn /\ Absent \notin 1..(Top + 1) /\ Torn \notin 1..(Top + 1)
    BY DEF Absent, Torn
  <2>1. CASE p = Absent
    BY <1>2, <2>0, <2>1 DEF ReadPointer, FreshStart
  <2>2. CASE p = Torn
    BY <1>2, <2>0, <2>2 DEF ReadPointer, Stop
  <2>3. CASE p \in 1..(Top + 1)
    BY <1>2, <2>0, <2>3 DEF ReadPointer
  <2> QED
    BY <2>1, <2>2, <2>3
<1>3. CASE TryNewest(r)
  <2>1. CASE seen[r] \in ckpt[DirOf[r]]
    <3> SUFFICES ASSUME NEW c \in 1..(Top + 1), c = seen[r] PROVE CheckpointTypeOK'
      BY <2>1
    <3>1. /\ n' = [n EXCEPT ![r] = c] /\ hh' = [hh EXCEPT ![r] = c]
          /\ last' = [last EXCEPT ![r] = Cost[c]] /\ pc' = [pc EXCEPT ![r] = "deciding"]
          /\ UNCHANGED <<fileVars, elapsed, seen, reason>>
      BY <1>3, <2>1 DEF TryNewest, Load
    <3>2. c \in 0..(Top + 1) /\ Cost[c] \in Nat
      OBVIOUS
    <3> QED
      BY <3>1, <3>2
  <2>2. CASE seen[r] \notin ckpt[DirOf[r]]
    BY <1>3, <2>2 DEF TryNewest
  <2> QED
    BY <2>1, <2>2
<1>4. CASE TryPrevious(r)
  <2>1. CASE seen[r] - 1 \in ckpt[DirOf[r]]
    <3> SUFFICES ASSUME NEW c \in 1..(Top + 1), c = seen[r] - 1 PROVE CheckpointTypeOK'
      BY <2>1
    <3>1. /\ n' = [n EXCEPT ![r] = c] /\ hh' = [hh EXCEPT ![r] = c]
          /\ last' = [last EXCEPT ![r] = Cost[c]] /\ pc' = [pc EXCEPT ![r] = "deciding"]
          /\ UNCHANGED <<fileVars, elapsed, seen, reason>>
      BY <1>4, <2>1 DEF TryPrevious, Load
    <3>2. c \in 0..(Top + 1) /\ Cost[c] \in Nat
      OBVIOUS
    <3> QED
      BY <3>1, <3>2
  <2>2. CASE seen[r] - 1 \notin ckpt[DirOf[r]]
    BY <1>4, <2>2 DEF TryPrevious, FreshStart
  <2> QED
    BY <2>1, <2>2
<1>5. CASE StopAtTop(r)
  BY <1>5 DEF StopAtTop, Stop
<1>6. CASE StopPredicted(r)
  BY <1>6 DEF StopPredicted, Stop
<1>7. CASE StopAtWall(r)
  BY <1>7 DEF StopAtWall, MayAdvance, Stop
<1>8. CASE Terminate(r) \/ StopAtCap(r)
  <2>a. n[r] \in 0..(Top + 1) /\ n[r] < Top + 1 /\ hh[r] = n[r]
    BY <1>8 DEF Abreast, Terminate, StopAtCap, MayAdvance
  <2>b. n[r] + 1 \in 1..(Top + 1)
    BY <2>a
  <2> HIDE DEF CheckpointTypeOK
  <2> SUFFICES ASSUME NEW k \in 1..(Top + 1), k = n[r] + 1 PROVE CheckpointTypeOK'
    BY <2>b
  <2> USE DEF CheckpointTypeOK
  <2>1. /\ n' = [n EXCEPT ![r] = k] /\ pc' = [pc EXCEPT ![r] = "stopped"]
        /\ reason' \in [Runs -> Reasons]
        /\ UNCHANGED <<algebra, ckpt, latest, seen>>
    BY <1>8 DEF Terminate, StopAtCap, Built, Stop
  <2>2. hh' \in [Runs -> 0..(Top + 1)]
    <3>1. hh' = [hh EXCEPT ![r] = hh[r] + 1]
      BY <1>8 DEF Terminate, StopAtCap, Built
    <3> QED
      BY <2>a, <3>1
  <2>3. /\ last' = [last EXCEPT ![r] = Cost[k]]
        /\ elapsed' = [elapsed EXCEPT ![r] = elapsed[r] + Cost[k]]
        /\ \/ deepest' = [deepest EXCEPT ![DirOf[r]] = k]
           \/ deepest' = [deepest EXCEPT ![DirOf[r]] = deepest[DirOf[r]]]
    BY <1>8 DEF Terminate, StopAtCap, Built
  <2>4. Cost[k] \in Nat /\ elapsed[r] + Cost[k] \in Nat /\ k \in 0..(Top + 1)
    OBVIOUS
  <2>5. last' \in [Runs -> Nat] /\ elapsed' \in [Runs -> Nat]
    BY <2>3, <2>4
  <2>6. deepest' \in [Dirs -> 0..(Top + 1)]
    BY <2>3, <2>4
  <2> QED
    BY <2>1, <2>2, <2>5, <2>6
<1>9. CASE Advance(r)
  BY <1>9, SMTT(30) DEF Abreast, Advance, MayAdvance, Built
<1>10. CASE ReplaceCheckpoint(r)
  BY <1>10 DEF ReplaceCheckpoint, Abreast, Unsaved, Degrees
<1>11. CASE ComparePointer(r)
  BY <1>11 DEF ComparePointer
<1>12. CASE TruncatePointer(r)
  BY <1>12 DEF TruncatePointer
<1>13. CASE WritePointer(r)
  BY <1>13 DEF WritePointer, Abreast, Unsaved, Degrees
<1>14. CASE Prune(r)
  BY <1>14 DEF Prune
<1>15. CASE AfterSave(r)
  BY <1>15 DEF AfterSave, Stop
<1>16. CASE Die({r})
  BY <1>16 DEF Die
<1>17. CASE DieTorn(r)
  BY <1>17 DEF DieTorn
<1> QED
  BY <1>1, <1>2, <1>3, <1>4, <1>5, <1>6, <1>7, <1>8, <1>9, <1>10, <1>11, <1>12, <1>13, <1>14, <1>15, <1>16, <1>17 DEF DeepenStep

LEMMA DriverStep ==
  ASSUME DriverInv, NEW r \in Runs, Begin(r) \/ DeepenStep(r) \/ Die({r}) \/ DieTorn(r)
  PROVE  DriverInv'
<1>1. CheckpointTypeOK'
  BY DriverTypeStep
<1>2. /\ \A d \in Dirs \ {DirOf[r]} : /\ latest'[d] = latest[d]
                                       /\ ckpt'[d] = ckpt[d]
                                       /\ deepest'[d] = deepest[d]
      /\ \A q \in Runs \ {r} :
            /\ pc'[q] = pc[q] /\ n'[q] = n[q] /\ hh'[q] = hh[q]
            /\ last'[q] = last[q] /\ seen'[q] = seen[q] /\ reason'[q] = reason[q]
  <2>0. DirOf[r] \in Dirs
    BY CheckpointAssumption
  <2> USE <2>0 DEF DriverInv, CheckpointTypeOK, fileVars, Goto
  <2>1. CASE Begin(r)
    BY <2>1 DEF Begin
  <2>2. CASE ReadPointer(r)
    BY <2>2 DEF ReadPointer, FreshStart, Stop
  <2>3. CASE TryNewest(r)
    BY <2>3 DEF TryNewest, Load
  <2>4. CASE TryPrevious(r)
    BY <2>4 DEF TryPrevious, Load, FreshStart
  <2>5. CASE StopAtTop(r)
    BY <2>5 DEF StopAtTop, Stop
  <2>6. CASE StopPredicted(r)
    BY <2>6 DEF StopPredicted, Stop
  <2>7. CASE StopAtWall(r)
    BY <2>7 DEF StopAtWall, Stop
  <2>8. CASE Terminate(r) \/ StopAtCap(r)
    BY <2>8 DEF Terminate, StopAtCap, Built, Stop
  <2>9. CASE Advance(r)
    BY <2>9 DEF Advance, Built
  <2>10. CASE ReplaceCheckpoint(r)
    BY <2>10 DEF ReplaceCheckpoint
  <2>11. CASE ComparePointer(r)
    BY <2>11 DEF ComparePointer
  <2>12. CASE TruncatePointer(r)
    BY <2>12 DEF TruncatePointer
  <2>13. CASE WritePointer(r)
    BY <2>13 DEF WritePointer
  <2>14. CASE Prune(r)
    BY <2>14 DEF Prune
  <2>15. CASE AfterSave(r)
    BY <2>15 DEF AfterSave, Stop
  <2>16. CASE Die({r})
    BY <2>16 DEF Die
  <2>17. CASE DieTorn(r)
    BY <2>17 DEF DieTorn
  <2> QED
    BY <2>1, <2>2, <2>3, <2>4, <2>5, <2>6, <2>7, <2>8, <2>9, <2>10, <2>11, <2>12, <2>13, <2>14, <2>15, <2>16, <2>17 DEF DeepenStep
<1>3. \A q \in Runs \ {r} : Abreast(q)'
  BY <1>1, <1>2, OtherDirectory
<1>4. /\ Abreast(r)'
      /\ LET d == DirOf[r] IN
           /\ latest'[d] \in Degrees =>
                 latest'[d] \in ckpt'[d] \/ latest'[d] - 1 \in ckpt'[d] \/ latest'[d] = 1
           /\ latest'[d] # Torn => deepest'[d] <= ResumeDegree(d)' + 1
  <2> DEFINE d == DirOf[r]
  <2>0. d \in Dirs
    BY CheckpointAssumption
  <2> USE <2>0, CheckpointAssumption
      DEF DriverInv, CheckpointTypeOK, FilesAgree, Abreast, ResumeDegree, Degrees, Unsaved, At,
          Goto, fileVars, Absent, Torn
  <2>1. CASE Begin(r)
    BY <2>1 DEF Begin
  <2>2. CASE ReadPointer(r)
    BY <2>2 DEF ReadPointer, FreshStart, Stop
  <2>3. CASE TryNewest(r)
    <3>0. /\ seen[r] = latest[d] /\ latest[d] \in Degrees /\ latest[d] # Torn
          /\ deepest[d] <= ResumeDegree(d) + 1
          /\ UNCHANGED <<latest, ckpt, deepest, seen>>
      BY <2>3 DEF TryNewest
    <3>1. CASE seen[r] \in ckpt[d]
      <4>1. ResumeDegree(d) = latest[d] /\ ResumeDegree(d)' = latest[d]
        BY <3>0, <3>1
      <4>2. n'[r] = latest[d] /\ hh'[r] = latest[d] /\ pc'[r] = "deciding"
        BY <2>3, <3>0, <3>1 DEF TryNewest, Load
      <4>3. latest[d] \in Int /\ latest[d] > 0 /\ latest'[d] = latest[d]
            /\ latest[d] \in ckpt'[d] /\ deepest'[d] <= latest[d] + 1
        BY <3>0, <3>1, <4>1
      <4> HIDE DEF ResumeDegree, DriverInv, CheckpointTypeOK, FilesAgree
      <4> QED
        BY <4>1, <4>2, <4>3
    <3>2. CASE seen[r] \notin ckpt[d]
      <4>1. /\ pc'[r] = "previous" /\ n'[r] = n[r] /\ hh'[r] = hh[r]
            /\ last'[r] = last[r]
        BY <2>3, <3>2 DEF TryNewest
      <4>2. n[r] = 0 /\ last[r] = 0 /\ hh[r] = n[r]
        BY <2>3 DEF TryNewest
      <4>3. ResumeDegree(d)' = ResumeDegree(d)
        BY <3>0
      <4>4. latest[d] \in ckpt[d] \/ latest[d] - 1 \in ckpt[d] \/ latest[d] = 1
        BY <2>0, <3>0
      <4> HIDE DEF ResumeDegree, DriverInv, CheckpointTypeOK, FilesAgree
      <4> QED
        BY <3>0, <3>2, <4>1, <4>2, <4>3, <4>4
    <3> QED
      BY <3>1, <3>2
  <2>4. CASE TryPrevious(r)
    <3>0. /\ seen[r] = latest[d] /\ latest[d] \in Degrees /\ latest[d] # Torn
          /\ latest[d] \notin ckpt[d] /\ deepest[d] <= ResumeDegree(d) + 1
          /\ n[r] = 0 /\ last[r] = 0 /\ hh[r] = n[r]
          /\ UNCHANGED <<latest, ckpt, deepest, seen>>
      BY <2>4 DEF TryPrevious
    <3>1. CASE latest[d] - 1 \in ckpt[d]
      <4>1. ResumeDegree(d) = latest[d] - 1 /\ ResumeDegree(d)' = latest[d] - 1
        BY <3>0, <3>1
      <4>2. /\ n'[r] = latest[d] - 1 /\ hh'[r] = latest[d] - 1 /\ pc'[r] = "deciding"
            /\ latest[d] - 1 \in Degrees
        BY <2>4, <3>0, <3>1 DEF TryPrevious, Load
      <4>3. latest[d] \in Int /\ latest[d] > 1 /\ latest'[d] = latest[d]
            /\ latest[d] - 1 \in ckpt'[d] /\ deepest'[d] <= (latest[d] - 1) + 1
        BY <3>0, <3>1, <4>1, <4>2
      <4> HIDE DEF ResumeDegree, DriverInv, CheckpointTypeOK, FilesAgree
      <4> QED
        BY <4>1, <4>2, <4>3
    <3>2. CASE latest[d] - 1 \notin ckpt[d]
      <4>1. ResumeDegree(d) = 0 /\ ResumeDegree(d)' = 0
        BY <3>0, <3>2
      <4>2. /\ n'[r] = 0 /\ hh'[r] = 0 /\ last'[r] = 0 /\ pc'[r] = "deciding"
        BY <2>4, <3>0, <3>2 DEF TryPrevious, FreshStart
      <4>3. latest[d] = 1
        BY <2>0, <3>0, <3>2
      <4> HIDE DEF ResumeDegree, DriverInv, CheckpointTypeOK, FilesAgree
      <4> QED
        BY <3>0, <4>1, <4>2, <4>3
    <3> QED
      BY <3>1, <3>2
  <2>5. CASE StopAtTop(r)
    BY <2>5 DEF StopAtTop, Stop
  <2>6. CASE StopPredicted(r)
    BY <2>6 DEF StopPredicted, Stop, TooSlow
  <2>7. CASE StopAtWall(r)
    BY <2>7 DEF StopAtWall, MayAdvance, Stop
  <2>8. CASE Terminate(r) \/ StopAtCap(r)
    <3>1. n[r] = ResumeDegree(d) /\ latest[d] # Torn /\ deepest[d] <= n[r] + 1
      BY <2>8 DEF Terminate, StopAtCap, MayAdvance
    <3>2. /\ n'[r] = n[r] + 1 /\ hh'[r] = hh[r] + 1 /\ deepest'[d] = n[r] + 1
          /\ latest' = latest /\ ckpt' = ckpt
          /\ pc'[r] = "stopped" /\ reason'[r] \in {"terminated", "term"}
      BY <2>8, <3>1, SMTT(30) DEF Terminate, StopAtCap, Built, Stop
    <3> QED
      BY <3>1, <3>2
  <2>9. CASE Advance(r)
    <3>1. /\ n[r] = ResumeDegree(d) /\ latest[d] # Torn /\ deepest[d] <= n[r] + 1
          /\ n[r] + 1 \in Degrees /\ n[r] \in Int /\ deepest[d] \in Int
          /\ latest[d] \in {n[r], n[r] + 1} \/ (n[r] = 0 /\ latest[d] = Absent)
          /\ hh[r] = n[r]
      BY <2>9, SMTT(30) DEF Advance, MayAdvance
    <3>2. n[r] \in ckpt[d] \/ n[r] = 0
      BY <3>1
    <3>3. /\ n'[r] = n[r] + 1 /\ hh'[r] = hh[r] + 1
          /\ latest' = latest /\ ckpt' = ckpt /\ pc'[r] = "replacing"
      BY <2>9 DEF Advance, Built
    <3>4. deepest'[d] = n[r] + 1
      <4>1. deepest' = [deepest EXCEPT ![d] = IF deepest[d] < n[r] + 1 THEN n[r] + 1
                                              ELSE deepest[d]]
        BY <2>9 DEF Advance, Built
      <4> QED
        BY <3>1, <4>1
    <3>5. ResumeDegree(d)' = ResumeDegree(d)
      BY <3>3
    <3>6. latest[d] \in Degrees =>
             latest[d] \in ckpt[d] \/ latest[d] - 1 \in ckpt[d] \/ latest[d] = 1
      OBVIOUS
    <3> HIDE DEF ResumeDegree, DriverInv, CheckpointTypeOK, FilesAgree
    <3>7. latest'[d] # Torn => deepest'[d] <= ResumeDegree(d)' + 1
      BY <3>1, <3>3, <3>4, <3>5
    <3>8. Abreast(r)'
      BY <3>1, <3>2, <3>3, <3>4, <3>5
    <3> QED
      BY <3>3, <3>6, <3>7, <3>8
  <2>10. CASE ReplaceCheckpoint(r)
    BY <2>10 DEF ReplaceCheckpoint
  <2>11. CASE ComparePointer(r)
    BY <2>11, SMTT(30) DEF ComparePointer
  <2>12. CASE TruncatePointer(r)
    BY <2>12 DEF TruncatePointer
  <2>13. CASE WritePointer(r)
    BY <2>13 DEF WritePointer
  <2>14. CASE Prune(r)
    <3>1. /\ n[r] \in ckpt[d] /\ latest[d] = n[r] /\ n[r] = deepest[d] /\ n[r] \in Degrees
          /\ hh[r] = n[r]
          /\ n[r] - 1 \in ckpt[d] \/ n[r] = 1
      BY <2>14 DEF Prune
    <3>2. /\ pc'[r] = "saved" /\ ckpt'[d] = {c \in ckpt[d] : c >= n[r] - 1}
          /\ UNCHANGED <<latest, deepest, n, hh, last>>
      BY <2>14 DEF Prune
    <3>3. n[r] \in ckpt'[d] /\ (n[r] - 1 \in ckpt'[d] \/ n[r] = 1)
      BY <3>1, <3>2
    <3>4. ResumeDegree(d)' = n[r]
      BY <3>1, <3>2, <3>3
    <3> HIDE DEF ResumeDegree, DriverInv, CheckpointTypeOK, FilesAgree
    <3> QED
      BY <3>1, <3>2, <3>3, <3>4
  <2>15. CASE AfterSave(r)
    <3>1. n[r] = ResumeDegree(d) /\ latest[d] # Torn /\ hh[r] = n[r] /\ (n[r] = 0 => last[r] = 0)
      BY <2>15 DEF AfterSave
    <3>2. /\ n'[r] = n[r] /\ hh'[r] = hh[r] /\ last'[r] = last[r]
          /\ latest' = latest /\ ckpt' = ckpt /\ deepest' = deepest
          /\ \/ pc'[r] = "stopped"
             \/ pc'[r] = "deciding"
      BY <2>15 DEF AfterSave, Stop
    <3>3. n[r] > 0 /\ latest[d] = n[r] /\ n[r] \in Degrees /\ n[r] \in ckpt[d]
      BY <2>15 DEF AfterSave
    <3>4. ResumeDegree(d)' = ResumeDegree(d) /\ deepest[d] <= ResumeDegree(d) + 1
      BY <3>1, <3>2
    <3>5. latest[d] \in Degrees /\ latest[d] \in ckpt[d]
      BY <3>1, <3>3
    <3> HIDE DEF ResumeDegree, DriverInv, CheckpointTypeOK, FilesAgree
    <3> QED
      BY <3>1, <3>2, <3>3, <3>4, <3>5
  <2>16. CASE Die({r})
    BY <2>16 DEF Die
  <2>17. CASE DieTorn(r)
    <3>1. /\ n[r] \in ckpt[d] /\ n[r] = deepest[d] /\ n[r] \in Degrees /\ hh[r] = n[r]
          /\ n[r] - 1 \in ckpt[d] \/ n[r] = 1
          /\ \/ latest[d] = Torn
             \/ latest[d] \in {n[r] - 1, n[r]}
             \/ n[r] = 1 /\ latest[d] = Absent
      BY <2>17 DEF DieTorn
    <3>2. /\ pc'[r] = "off" /\ ckpt'[d] = ckpt[d] \ {n[r]}
          /\ UNCHANGED <<latest, deepest, n, hh, last>>
      BY <2>17 DEF DieTorn
    <3>3. n[r] - 1 \in ckpt'[d] \/ n[r] = 1
      BY <3>1, <3>2
    <3>4. latest[d] # Torn => ResumeDegree(d)' = n[r] - 1
      BY <3>1, <3>2, <3>3, SMTT(30)
    <3> HIDE DEF ResumeDegree, DriverInv, CheckpointTypeOK, FilesAgree
    <3> QED
      BY <3>1, <3>2, <3>3, <3>4
  <2> QED
    BY <2>1, <2>2, <2>3, <2>4, <2>5, <2>6, <2>7, <2>8, <2>9, <2>10, <2>11, <2>12, <2>13, <2>14, <2>15, <2>16, <2>17 DEF DeepenStep
<1>5. FilesAgree'
  <2> SUFFICES ASSUME NEW d \in Dirs
      PROVE  /\ latest'[d] \in Degrees =>
                    latest'[d] \in ckpt'[d] \/ latest'[d] - 1 \in ckpt'[d] \/ latest'[d] = 1
             /\ latest'[d] # Torn => deepest'[d] <= ResumeDegree(d)' + 1
    BY DEF FilesAgree
  <2>1. CASE d = DirOf[r]
    BY <1>4, <2>1
  <2>2. CASE d # DirOf[r]
    BY <1>2, <2>2 DEF DriverInv, FilesAgree, ResumeDegree
  <2> QED
    BY <2>1, <2>2
<1> QED
  BY <1>1, <1>3, <1>4, <1>5 DEF DriverInv

-----------------------------------------------------------------------------
(* What a job adds. *)

\* Every step of the job, the cluster or the user is a step of one process or
\* leaves the processes and the files alone.
LEMMA NextDrives ==
  ASSUME [Next]_vars
  PROVE  \/ \E r \in Runs : Begin(r) \/ DeepenStep(r) \/ Die({r}) \/ DieTorn(r)
         \/ UNCHANGED <<fileVars, runVars>>
<1>1. ASSUME NEW r \in Runs, Submit(r) \/ JobStep(r) \/ Usr1(r) \/ NodeFails(r)
      PROVE  \/ Begin(r) \/ DeepenStep(r) \/ Die({r}) \/ DieTorn(r)
             \/ UNCHANGED <<fileVars, runVars>>
  BY <1>1
     DEF Submit, JobStep, Usr1, NodeFails, Start, RecordItem, FailItem, EnterDeepen,
         Compute, LeaveDeepen, CheckpointStop, FailDeepen, OpenResult, WriteResult, Over
<1> QED
  BY <1>1 DEF Next, vars

LEMMA DriverNext == DriverInv /\ [Next]_vars => DriverInv'
<1> SUFFICES ASSUME DriverInv, [Next]_vars PROVE DriverInv'
  OBVIOUS
<1>1. CASE \E r \in Runs : Begin(r) \/ DeepenStep(r) \/ Die({r}) \/ DieTorn(r)
  BY <1>1, DriverStep
<1>2. CASE UNCHANGED <<fileVars, runVars>>
  BY <1>2
     DEF DriverInv, CheckpointTypeOK, FilesAgree, Abreast, ResumeDegree, fileVars, runVars
<1> QED
  BY <1>1, <1>2, NextDrives

THEOREM DriverInvariant == Spec => []DriverInv
<1>1. Init => DriverInv
  BY DriverInit DEF Init
<1> QED
  BY <1>1, DriverNext, PTL DEF Spec

\* Whatever happened to the runs before it, a run that computes has lost one
\* degree at most.
THEOREM OneDegreeIsLost == Spec => []LosesOneDegree
<1>1. DriverInv => LosesOneDegree
  <2> SUFFICES ASSUME DriverInv, NEW r \in Runs, pc[r] \in Computing
      PROVE  n[r] + 1 >= deepest[DirOf[r]]
    BY DEF LosesOneDegree
  <2>1. DirOf[r] \in Dirs /\ n[r] \in Int /\ deepest[DirOf[r]] \in Int
    BY CheckpointAssumption DEF DriverInv, CheckpointTypeOK
  <2>2. CASE pc[r] \in {"deciding", "saved"}
    BY <2>1, <2>2 DEF DriverInv, FilesAgree, Abreast
  <2>3. CASE pc[r] \in Unsaved \cup {"pruning"}
    BY <2>1, <2>3 DEF DriverInv, Abreast
  <2> QED
    BY <2>2, <2>3 DEF Computing, Unsaved
<1> QED
  BY <1>1, DriverInvariant, PTL

\* A stop on the time budget leaves everything to the next run.
THEOREM CleanStops == Spec => []CleanStopKeepsAll
<1>1. DriverInv => CleanStopKeepsAll
  BY DEF DriverInv, Abreast, CleanStopKeepsAll, At
<1> QED
  BY <1>1, DriverInvariant, PTL

-----------------------------------------------------------------------------
(* The pointer. *)

\* The pointer never names a degree beyond the deepest one built.
PointerBehind == \A d \in Dirs : latest[d] <= deepest[d]

\* What a step may do to the pointer: truncate it, or move it forward, to the
\* deepest degree ever built, which itself never falls.
PointerForward ==
    \A d \in Dirs :
        /\ deepest[d] <= deepest'[d]
        /\ \/ latest'[d] \in {latest[d], Torn}
           \/ latest'[d] = deepest'[d] /\ latest[d] <= latest'[d]

LEMMA PointerStep ==
  ASSUME DriverInv, PointerBehind, NEW r \in Runs,
         Begin(r) \/ DeepenStep(r) \/ Die({r}) \/ DieTorn(r)
  PROVE  PointerForward /\ PointerBehind'
<1> DEFINE d == DirOf[r]
<1>0. /\ d \in Dirs /\ Absent = -1 /\ Torn = -2
      /\ n[r] \in 0..(Top + 1) /\ Top \in Nat
      /\ latest  \in [Dirs -> {Absent, Torn} \cup (1..(Top + 1))]
      /\ deepest \in [Dirs -> 0..(Top + 1)]
  BY CheckpointAssumption DEF DriverInv, CheckpointTypeOK, Absent, Torn
<1>1. \A e \in Dirs : latest[e] \in Int /\ deepest[e] \in Nat /\ latest[e] <= deepest[e]
  BY <1>0 DEF PointerBehind
<1>2. CASE UNCHANGED <<latest, deepest>>
  BY <1>1, <1>2 DEF PointerForward, PointerBehind
<1>3. CASE Terminate(r) \/ StopAtCap(r) \/ Advance(r)
  <2>1. latest' = latest
    BY <1>3 DEF Terminate, StopAtCap, Advance
  <2>2. deepest' = [deepest EXCEPT ![d] = IF @ < n[r] + 1 THEN n[r] + 1 ELSE @]
    BY <1>3 DEF Terminate, StopAtCap, Advance, Built
  <2>3. \A e \in Dirs : deepest'[e] \in Nat /\ deepest[e] <= deepest'[e]
    BY <1>0, <1>1, <2>2
  <2> QED
    BY <1>1, <2>1, <2>3 DEF PointerForward, PointerBehind
<1>4. CASE TruncatePointer(r)
  <2>1. deepest' = deepest /\ latest' = [latest EXCEPT ![d] = Torn]
    BY <1>4 DEF TruncatePointer
  <2> QED
    BY <1>0, <1>1, <2>1 DEF PointerForward, PointerBehind
<1>5. CASE WritePointer(r)
  <2>1. deepest' = deepest /\ latest' = [latest EXCEPT ![d] = n[r]]
    BY <1>5 DEF WritePointer
  <2>2. n[r] = deepest[d]
    BY <1>5 DEF WritePointer, At, DriverInv, Abreast, Unsaved
  <2> QED
    BY <1>0, <1>1, <2>1, <2>2 DEF PointerForward, PointerBehind
<1>6. ASSUME Begin(r) \/ Die({r}) \/ DieTorn(r) \/ ReadPointer(r) \/ TryNewest(r)
             \/ TryPrevious(r) \/ StopAtTop(r) \/ StopPredicted(r) \/ StopAtWall(r)
             \/ ReplaceCheckpoint(r) \/ ComparePointer(r) \/ Prune(r) \/ AfterSave(r)
      PROVE  UNCHANGED <<latest, deepest>>
  BY <1>6
     DEF Begin, Die, DieTorn, ReadPointer, TryNewest, TryPrevious, StopAtTop, StopPredicted,
         StopAtWall, ReplaceCheckpoint, ComparePointer, Prune, AfterSave, fileVars
<1> QED
  BY <1>2, <1>3, <1>4, <1>5, <1>6 DEF DeepenStep

\* latest.txt only ever advances (deepen.py:54): whatever stops, crashes and
\* requeues, a pointer is replaced by a deeper one, or truncated; and one written
\* over a truncated pointer names the deepest degree ever built in the directory.
THEOREM PointerAdvances == Spec => [][PointerForward]_vars
<1>1. Init => PointerBehind
  BY CheckpointAssumption DEF Init, CheckpointInit, PointerBehind, Absent
<1>2. ASSUME DriverInv, PointerBehind, [Next]_vars PROVE PointerForward /\ PointerBehind'
  <2>1. CASE \E r \in Runs : Begin(r) \/ DeepenStep(r) \/ Die({r}) \/ DieTorn(r)
    BY <1>2, <2>1, PointerStep
  <2>2. CASE UNCHANGED <<fileVars, runVars>>
    <3>1. \A d \in Dirs : deepest[d] \in Nat
      BY <1>2, CheckpointAssumption DEF DriverInv, CheckpointTypeOK
    <3> QED
      BY <1>2, <2>2, <3>1 DEF PointerForward, PointerBehind, fileVars
  <2> QED
    BY <1>2, <2>1, <2>2, NextDrives
<1>3. DriverInv /\ PointerBehind /\ [Next]_vars => [PointerForward]_vars /\ PointerBehind'
  BY <1>2
<1> QED
  BY <1>1, <1>3, DriverInvariant, PTL DEF Spec

\* No job of the batch script finds its own write undone, as two processes in one
\* directory may (deepen.py:54): each job has a directory of its own.
THEOREM NoStaleWriter == Spec => []PointerKeepsUp
<1>1. DriverInv => PointerKeepsUp
  <2> SUFFICES ASSUME DriverInv, NEW r \in Runs, pc[r] \in {"pruning", "saved"}
      PROVE  latest[DirOf[r]] = Torn \/ latest[DirOf[r]] >= n[r]
    BY DEF PointerKeepsUp
  <2>1. latest[DirOf[r]] = n[r]
    BY DEF DriverInv, Abreast
  <2>2. n[r] \in Int
    BY DEF DriverInv, CheckpointTypeOK
  <2> QED
    BY <2>1, <2>2
<1> QED
  BY <1>1, DriverInvariant, PTL

-----------------------------------------------------------------------------
(* Where the resolution ends or is cut. *)

\* Nothing is saved at the degree where the resolution ends, nor at the one where
\* its term is too large, and what a process has built says why it stopped.
CutAgrees ==
    /\ \A d \in Dirs : \A c \in ckpt[d] : c < algebra.ends /\ c < algebra.cap
    /\ \A r \in Runs :
          /\ pc[r] \notin {"off", "stopped"} => n[r] < algebra.ends /\ n[r] < algebra.cap
          /\ pc[r] = "stopped" =>
                \/ n[r] < algebra.cap /\ reason[r] \notin {"terminated", "term"}
                \/ algebra.ends <= algebra.cap /\ reason[r] = "terminated"
                \/ /\ n[r] = algebra.cap /\ reason[r] = "term"
                   /\ algebra.cap < algebra.ends /\ algebra.cap < algebra.wall

LEMMA CutStep ==
  ASSUME DriverInv, CutAgrees, NEW r \in Runs,
         Begin(r) \/ DeepenStep(r) \/ Die({r}) \/ DieTorn(r)
  PROVE  CutAgrees'
<1> DEFINE d == DirOf[r]
<1>0. /\ d \in Dirs /\ algebra.ends \in Nat \ {0} /\ algebra.wall \in Nat \ {0}
      /\ algebra.cap \in Nat \ {0} /\ algebra' = algebra
  <2>1. algebra' = algebra
    BY DEF Begin, DeepenStep, Die, DieTorn, ReadPointer, TryNewest, TryPrevious, StopAtTop,
           StopPredicted, StopAtWall, Terminate, StopAtCap, Advance, ReplaceCheckpoint,
           ComparePointer, TruncatePointer, WritePointer, Prune, AfterSave, fileVars
  <2> QED
    BY <2>1, CheckpointAssumption DEF DriverInv, CheckpointTypeOK
<1>t. /\ n \in [Runs -> 0..(Top + 1)] /\ ckpt \in [Dirs -> SUBSET (1..(Top + 1))]
      /\ pc \in [Runs -> Places] /\ reason \in [Runs -> Reasons] /\ Top \in Nat
  BY CheckpointAssumption DEF DriverInv, CheckpointTypeOK
<1> USE <1>0, <1>t DEF CutAgrees, fileVars, At, Goto
<1>1. CASE Begin(r)
  BY <1>1 DEF Begin
<1>2. CASE ReadPointer(r)
  BY <1>2 DEF ReadPointer, FreshStart, Stop
<1>3. CASE TryNewest(r)
  BY <1>3 DEF TryNewest, Load
<1>4. CASE TryPrevious(r)
  BY <1>4 DEF TryPrevious, Load, FreshStart
<1>5. CASE StopAtTop(r)
  BY <1>5 DEF StopAtTop, Stop
<1>6. CASE StopPredicted(r)
  BY <1>6 DEF StopPredicted, Stop
<1>7. CASE StopAtWall(r)
  BY <1>7 DEF StopAtWall, MayAdvance, Stop
<1>8. CASE Terminate(r)
  BY <1>8 DEF Terminate, MayAdvance, Built, Stop
<1>9. CASE StopAtCap(r)
  BY <1>9 DEF StopAtCap, MayAdvance, Built, Stop
<1>10. CASE Advance(r)
  BY <1>10 DEF Advance, MayAdvance, Built
<1>11. CASE ReplaceCheckpoint(r)
  BY <1>11 DEF ReplaceCheckpoint
<1>12. CASE ComparePointer(r)
  BY <1>12 DEF ComparePointer
<1>13. CASE TruncatePointer(r)
  BY <1>13 DEF TruncatePointer
<1>14. CASE WritePointer(r)
  BY <1>14 DEF WritePointer
<1>15. CASE Prune(r)
  BY <1>15 DEF Prune
<1>16. CASE AfterSave(r)
  BY <1>16 DEF AfterSave, Stop
<1>17. CASE Die({r})
  BY <1>17 DEF Die
<1>18. CASE DieTorn(r)
  BY <1>18 DEF DieTorn
<1> QED
  BY <1>1, <1>2, <1>3, <1>4, <1>5, <1>6, <1>7, <1>8, <1>9, <1>10, <1>11, <1>12, <1>13, <1>14,
     <1>15, <1>16, <1>17, <1>18 DEF DeepenStep

LEMMA CutNext == DriverInv /\ CutAgrees /\ [Next]_vars => CutAgrees' /\ algebra' = algebra
<1> SUFFICES ASSUME DriverInv, CutAgrees, [Next]_vars
    PROVE  CutAgrees' /\ algebra' = algebra
  OBVIOUS
<1>1. CASE \E r \in Runs : Begin(r) \/ DeepenStep(r) \/ Die({r}) \/ DieTorn(r)
  <2>1. CutAgrees'
    BY <1>1, CutStep
  <2>2. algebra' = algebra
    BY <1>1
       DEF Begin, DeepenStep, Die, DieTorn, ReadPointer, TryNewest, TryPrevious, StopAtTop,
           StopPredicted, StopAtWall, Terminate, StopAtCap, Advance, ReplaceCheckpoint,
           ComparePointer, TruncatePointer, WritePointer, Prune, AfterSave, fileVars
  <2> QED
    BY <2>1, <2>2
<1>2. CASE UNCHANGED <<fileVars, runVars>>
  BY <1>2 DEF CutAgrees, fileVars, runVars
<1> QED
  BY <1>1, <1>2, NextDrives

-----------------------------------------------------------------------------
(* The result. *)

Idle(r) == job[r] \in {"new", "over"}

\* The blocks of a job are those of the items behind it; only one job is out at
\* a time, and none once there is a result.
BlocksAgree ==
    \A r \in Runs :
        /\ job[r] \in Active =>
              /\ blocks[r] = {Items[i] : i \in 1..(step[r] - 1)}
              /\ Deep \in blocks[r] => dims[r] = Computable
        /\ job[r] = "deepening" => step[r] <= Len(Items) /\ Items[step[r]] = Deep
        /\ job[r] = "writing" => step[r] = Len(Items) + 1

OneAtATime ==
    \A r, q \in Runs :
        /\ status[q] = "ok" => Idle(r)
        /\ r # q => Idle(r) \/ Idle(q)

JobInv ==
    TypeOK /\ DriverInv /\ CutAgrees /\ BlocksAgree /\ OneAtATime /\ ResultIsComplete

LEMMA ItemFacts ==
    /\ Len(Items) \in Nat
    /\ Deep \in Kinds
    /\ \A i \in 1..Len(Items) : Items[i] \in Kinds
    /\ Kinds = {Items[i] : i \in 1..Len(Items)}
BY SlurmAssumption DEF Kinds, ToSet

\* The items behind the next place are those behind this one, and this one.
LEMMA OneMoreItem ==
  ASSUME NEW k \in 1..Len(Items)
  PROVE  {Items[i] : i \in 1..((k + 1) - 1)} = {Items[i] : i \in 1..(k - 1)} \cup {Items[k]}
<1>1. 1..((k + 1) - 1) = (1..(k - 1)) \cup {k}
  BY ItemFacts
<1> QED
  BY <1>1

LEMMA JobInit == Init => JobInv
<1> SUFFICES ASSUME Init PROVE JobInv
  OBVIOUS
<1>1. DriverInv
  BY DriverInit DEF Init
<1>2. TypeOK
  BY <1>1, ItemFacts, CheckpointAssumption, SlurmAssumption
     DEF Init, TypeOK, DriverInv, JobStates, Statuses, NoResult
<1>3. CutAgrees
  BY DEF Init, CheckpointInit, CutAgrees
<1> QED
  BY <1>1, <1>2, <1>3
     DEF Init, JobInv, BlocksAgree, OneAtATime, ResultIsComplete, Idle, Active

LEMMA JobTypeStep == JobInv /\ [Next]_vars => TypeOK'
<1> SUFFICES ASSUME JobInv, [Next]_vars PROVE TypeOK'
  OBVIOUS
<1>0. CheckpointTypeOK'
  BY DriverNext DEF JobInv, DriverInv
<1> USE <1>0, ItemFacts DEF JobInv, TypeOK, JobStates, Statuses, Active, JobTo
<1>1. ASSUME NEW r \in Runs, Submit(r) \/ JobStep(r) \/ Usr1(r) \/ NodeFails(r)
      PROVE  TypeOK'
  <2>1. CASE Submit(r)
    BY <2>1 DEF Submit
  <2>2. CASE Start(r)
    BY <2>2, CheckpointAssumption DEF Start
  <2>3. CASE RecordItem(r)
    <3>1. PICK kind \in Kinds : AtItem(r, kind) /\ Record(r, kind)
      BY <2>3 DEF RecordItem
    <3>2. step' \in [Runs -> 1..(Len(Items) + 1)]
      <4>1. step[r] \in 1..Len(Items) /\ step' = [step EXCEPT ![r] = step[r] + 1]
        BY <3>1 DEF Record, AtItem
      <4> QED
        BY <4>1
    <3>4. blocks' \in [Runs -> SUBSET Kinds]
      BY <3>1 DEF Record
    <3>3. UNCHANGED <<job, status, dims, result, failures>>
      BY <2>3 DEF RecordItem
    <3> QED
      BY <3>2, <3>3, <3>4
  <2>4. CASE FailItem(r)
    BY <2>4 DEF FailItem, Over, AtItem
  <2>5. CASE EnterDeepen(r)
    BY <2>5 DEF EnterDeepen, AtItem
  <2>6. CASE Compute(r)
    BY <2>6 DEF Compute, slurmVars
  <2>7. CASE LeaveDeepen(r)
    <3>1. step[r] + 1 \in 1..(Len(Items) + 1) /\ blocks[r] \cup {Deep} \in SUBSET Kinds
      BY <2>7 DEF LeaveDeepen, BlocksAgree
    <3>2. hh[r] \in 0..(Top + 1) /\ Top + 1 \in 0..(Top + 1)
      BY CheckpointAssumption DEF CheckpointTypeOK
    <3> QED
      BY <2>7, <3>1, <3>2 DEF LeaveDeepen, Record
  <2>8. CASE CheckpointStop(r)
    BY <2>8 DEF CheckpointStop
  <2>9. CASE FailDeepen(r)
    BY <2>9 DEF FailDeepen, Over
  <2>10. CASE OpenResult(r)
    <3>1. TornResult \in [state : {"none", "torn", "whole"}, kinds : SUBSET Kinds,
                     dims : 0..(Top + 1)]
      BY CheckpointAssumption DEF TornResult, NoResult
    <3> QED
      BY <2>10, <3>1 DEF OpenResult
  <2>11. CASE WriteResult(r)
    BY <2>11 DEF WriteResult, Over
  <2>12. CASE Usr1(r)
    BY <2>12 DEF Usr1, Over, Active
  <2>13. CASE NodeFails(r)
    BY <2>13, SlurmAssumption DEF NodeFails, Active
  <2> QED
    BY <1>1, <2>1, <2>2, <2>3, <2>4, <2>5, <2>6, <2>7, <2>8, <2>9, <2>10, <2>11, <2>12, <2>13 DEF JobStep
<1>2. CASE UNCHANGED vars
  BY <1>2 DEF vars, slurmVars
<1> QED
  BY <1>1, <1>2 DEF Next

LEMMA JobAgreeStep ==
  JobInv /\ [Next]_vars => BlocksAgree' /\ OneAtATime' /\ ResultIsComplete'
<1> SUFFICES ASSUME JobInv, [Next]_vars
    PROVE  BlocksAgree' /\ OneAtATime' /\ ResultIsComplete'
  OBVIOUS
<1> DEFINE Agree == BlocksAgree /\ OneAtATime /\ ResultIsComplete
<1>0. TypeOK'
  BY JobTypeStep
<1>c. Computable' = Computable
  BY CutNext DEF JobInv, Computable, Capped
<1> USE <1>c DEF JobInv, TypeOK, BlocksAgree, OneAtATime, ResultIsComplete, Active, Idle, JobTo
<1>1. ASSUME NEW r \in Runs, Submit(r) \/ JobStep(r) \/ Usr1(r) \/ NodeFails(r)
      PROVE  Agree'
  <2>1. CASE Submit(r)
    BY <2>1, ItemFacts DEF Submit
  <2>2. CASE Start(r)
    BY <2>2, ItemFacts, SMTT(30) DEF Start
  <2>3. CASE RecordItem(r)
    <3>1. PICK kind \in Kinds \ {Deep} :
             AtItem(r, kind) /\ Record(r, kind) /\ job' = job /\ status' = status
               /\ dims' = dims /\ result' = result
      BY <2>3 DEF RecordItem
    <3>2. step[r] \in 1..Len(Items) /\ Items[step[r]] = kind /\ job[r] = "running"
      BY <3>1, ItemFacts DEF AtItem
    <3>3. /\ step' = [step EXCEPT ![r] = step[r] + 1]
          /\ blocks'[r] = {Items[i] : i \in 1..(step'[r] - 1)}
          /\ \A q \in Runs \ {r} : blocks'[q] = blocks[q]
          /\ Deep \in blocks'[r] => Deep \in blocks[r]
      BY <3>1, <3>2, OneMoreItem DEF Record
    <3> QED
      BY <3>1, <3>2, <3>3
  <2>4. CASE FailItem(r)
    <3>1. /\ job[r] = "running" /\ job' = [job EXCEPT ![r] = "over"]
          /\ status' = [status EXCEPT ![r] = "error"]
          /\ UNCHANGED <<step, blocks, dims, result>>
      BY <2>4 DEF FailItem, Over, AtItem
    <3>2. BlocksAgree' /\ OneAtATime'
      BY <3>1
    <3>3. ResultIsComplete'
      BY <3>1
    <3> QED
      BY <3>2, <3>3
  <2>5. CASE EnterDeepen(r)
    BY <2>5, ItemFacts DEF EnterDeepen, AtItem
  <2>6. CASE Compute(r)
    BY <2>6, ItemFacts DEF Compute, slurmVars
  <2>7. CASE LeaveDeepen(r)
    <3>1. step[r] \in 1..Len(Items) /\ Items[step[r]] = Deep
      BY <2>7, ItemFacts DEF LeaveDeepen
    <3>2. /\ step' = [step EXCEPT ![r] = step[r] + 1]
          /\ blocks'[r] = {Items[i] : i \in 1..(step'[r] - 1)}
          /\ \A q \in Runs \ {r} : blocks'[q] = blocks[q]
      BY <2>7, <3>1, OneMoreItem DEF LeaveDeepen, Record
    <3>3. hh[r] \in 0..(Top + 1)
      BY DEF CheckpointTypeOK
    <3>4. dims'[r] = Computable /\ \A q \in Runs \ {r} : dims'[q] = dims[q]
      <4>1. /\ dims' = [dims EXCEPT ![r] = IF reason[r] = "terminated" THEN Top + 1 ELSE hh[r]]
            /\ hh[r] >= Top + 1 \/ reason[r] \in {"terminated", "term"}
            /\ pc[r] = "stopped"
        BY <2>7 DEF LeaveDeepen, Complete, At
      <4>2. hh[r] = n[r]
        BY DEF DriverInv, Abreast
      <4>3. Top \in Nat /\ algebra.cap \in Nat /\ algebra.ends \in Nat /\ algebra.wall \in Nat
        BY CheckpointAssumption DEF CheckpointTypeOK
      <4>4. (IF reason[r] = "terminated" THEN Top + 1 ELSE hh[r]) = Computable
        BY <3>3, <4>1, <4>2, <4>3 DEF CutAgrees, Computable, Capped
      <4> QED
        BY <4>1, <4>4
    <3>5. job' = [job EXCEPT ![r] = "running"] /\ status' = status /\ result' = result
      BY <2>7 DEF LeaveDeepen
    <3>6. job[r] = "deepening"
      BY <2>7 DEF LeaveDeepen
    <3> HIDE DEF CheckpointTypeOK
    <3> QED
      BY <3>1, <3>2, <3>4, <3>5, <3>6
  <2>8. CASE CheckpointStop(r)
    BY <2>8, ItemFacts DEF CheckpointStop
  <2>9. CASE FailDeepen(r)
    BY <2>9, ItemFacts DEF FailDeepen, Over
  <2>10. CASE OpenResult(r)
    BY <2>10, ItemFacts DEF OpenResult, TornResult, NoResult
  <2>11. CASE WriteResult(r)
    <3>1. /\ job[r] = "writing" /\ job' = [job EXCEPT ![r] = "over"]
          /\ status' = [status EXCEPT ![r] = "ok"]
          /\ result' = [state |-> "whole", kinds |-> blocks[r], dims |-> dims[r]]
          /\ UNCHANGED <<step, blocks, dims>>
      BY <2>11 DEF WriteResult, Over
    <3>2. blocks[r] = {Items[i] : i \in 1..(step[r] - 1)} /\ step[r] - 1 = Len(Items)
      BY <3>1, ItemFacts
    <3>3. blocks[r] = Kinds /\ dims[r] = Computable
      BY <3>1, <3>2, ItemFacts
    <3>4. ResultIsComplete'
      BY <3>1, <3>3
    <3>5. BlocksAgree'
      BY <3>1
    <3>6. OneAtATime'
      BY <3>1
    <3> QED
      BY <3>4, <3>5, <3>6
  <2>12. CASE Usr1(r)
    BY <2>12, ItemFacts DEF Usr1, Over, Active
  <2>13. CASE NodeFails(r)
    BY <2>13, ItemFacts DEF NodeFails, Active
  <2> QED
    BY <1>1, <2>1, <2>2, <2>3, <2>4, <2>5, <2>6, <2>7, <2>8, <2>9, <2>10, <2>11, <2>12, <2>13 DEF JobStep
<1>2. CASE UNCHANGED vars
  BY <1>2 DEF vars, slurmVars
<1> QED
  BY <1>1, <1>2 DEF Next

THEOREM JobInvariant == Spec => []JobInv
<1>1. JobInv /\ [Next]_vars => JobInv'
  BY DriverNext, CutNext, JobTypeStep, JobAgreeStep DEF JobInv
<1> QED
  BY <1>1, JobInit, PTL DEF Spec

\* The type invariant.
THEOREM TypeCorrect == Spec => []TypeOK
<1>1. JobInv => TypeOK
  BY DEF JobInv
<1> QED
  BY <1>1, JobInvariant, PTL

\* Exit status 0 means a result file with every kind and every dimension the driver
\* can compute: all of them, or those below the cap that cuts the resolution.
THEOREM ResultsAreComplete == Spec => []ResultIsComplete
<1>1. JobInv => ResultIsComplete
  BY DEF JobInv
<1> QED
  BY <1>1, JobInvariant, PTL
=============================================================================
