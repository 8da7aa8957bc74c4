------------------------------ MODULE MCOffline ------------------------------
(* Instances of OfflineApp for TLC. *)
EXTENDS OfflineApp, TLC

CONSTANTS j1, j2, k1,   \* model values
          Copies        \* how many copies of the app there are

AppLoops == 0 .. Copies - 1
SameKey  == [j \in Jobs |-> k1]
=============================================================================
