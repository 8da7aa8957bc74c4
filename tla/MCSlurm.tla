------------------------------- MODULE MCSlurm -------------------------------
EXTENDS Slurm

\* A job id names its directory.
MCDirOf    == [r \in Runs |-> r]
\* With a limit of 4 the first run stops before degree 3, by prediction, and the
\* second one after it, by the clock.
MCCost     == <<1, 2, 5>>
MCItems    == <<"plain", "deep">>
\* A resolution that goes on, one that ends before Top, one that does not fit, one
\* cut by its cap, and one whose cap is only the last degree.
MCAlgebras == {[ends |-> 9, wall |-> 9, cap |-> 9], [ends |-> 2, wall |-> 9, cap |-> 3],
               [ends |-> 9, wall |-> 3, cap |-> 3], [ends |-> 9, wall |-> 9, cap |-> 2],
               [ends |-> 9, wall |-> 9, cap |-> 3]}
=============================================================================
