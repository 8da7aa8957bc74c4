-------------------------- MODULE MCSharedCheckpoint --------------------------
(***************************************************************************)
(* Two processes in one checkpoint directory: "an accidental second job    *)
(* sharing this ckpt_dir" (src/src/quiverlab/engine/deepen.py:52).         *)
(***************************************************************************)
EXTENDS Checkpoint

MCDirOf    == [r \in Runs |-> CHOOSE d \in Dirs : TRUE]
MCCost     == <<1, 1, 1>>
MCAlgebras == {[ends |-> 9, wall |-> 9, cap |-> 9]}

Next == \E r \in Runs : Begin(r) \/ DeepenStep(r) \/ Die({r})

Spec == CheckpointInit /\ [][Next]_<<fileVars, runVars>>
=============================================================================
