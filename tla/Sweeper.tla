------------------------------- MODULE Sweeper -------------------------------
(***************************************************************************)
(* The hourly sweep a loop runs between two ticks                          *)
(* (src/webapp/worker/sweeper.py): evict cache rows, then delete the rows  *)
(* past the retention cutoff that no cache row pins, then remove their     *)
(* artifact directories.  The store is another process's to change between *)
(* the four steps.                                                         *)
(***************************************************************************)
EXTENDS Worker

VARIABLES doomed,     \* the ids the retention pass of a loop has selected
          lastSweep   \* when a loop last swept, Null since it started

sweepVars == <<doomed, lastSweep>>

SweepTypeOK ==
    /\ doomed    \in [Loops -> SUBSET Jobs]
    /\ lastSweep \in [Loops -> Int]

SweepInit ==
    /\ doomed    = [l \in Loops |-> {}]
    /\ lastSweep = [l \in Loops |-> Null]

EvictRows(l) ==
    /\ pc[l] = "idle"
    /\ lastSweep[l] < clock
    /\ CacheSweep
    /\ Goto(l, "evicted")
    /\ UNCHANGED <<clock, jobVars, cancelReq, cur, late, child, artifacts, claims,
                   mails, sweepVars>>

SelectPurgeable(l) ==
    /\ pc[l] = "evicted"
    /\ doomed' = [doomed EXCEPT ![l] = Purgeable]
    /\ Goto(l, "selected")
    /\ UNCHANGED <<storeVars, cur, late, child, artifacts, claims, mails, lastSweep>>

DeleteRows(l) ==
    /\ pc[l] = "selected"
    /\ DeletePurgeable
    /\ Goto(l, "deleted")
    /\ UNCHANGED <<clock, cancelReq, cache, cur, late, child, artifacts, claims,
                   mails, sweepVars>>

RemoveDirs(l) ==
    /\ pc[l] = "deleted"
    /\ artifacts' = artifacts \ doomed[l]
    /\ doomed'    = [doomed EXCEPT ![l] = {}]
    /\ lastSweep' = [lastSweep EXCEPT ![l] = clock]
    /\ Goto(l, "idle")
    /\ UNCHANGED <<storeVars, cur, late, child, claims, mails>>

Sweep(l) == EvictRows(l) \/ SelectPurgeable(l) \/ DeleteRows(l) \/ RemoveDirs(l)

\* What a loop keeps of its sweeps dies with its process.
SweepForgotten(ls) ==
    /\ doomed'    = [l \in Loops |-> IF l \in ls THEN {} ELSE doomed[l]]
    /\ lastSweep' = [l \in Loops |-> IF l \in ls THEN Null ELSE lastSweep[l]]
=============================================================================
