------------------------------- MODULE MCFleet -------------------------------
(* Instances of Fleet for TLC. *)
EXTENDS Fleet, TLC

CONSTANTS j1, j2, j3, k1,   \* model values
          Size              \* the fleet size of the instance

FleetLoops   == 0 .. Size - 1
Symmetry     == Permutations(Jobs)
SameKey      == [j \in Jobs |-> k1]
OwnKey       == [j \in Jobs |-> j]     \* a key is named after its job
AnyTier      == [j \in Jobs |-> Tiers]
OneAnonymous == [j \in Jobs |-> IF j = j3 THEN {"anonymous"} ELSE {"big"}]
=============================================================================
