----------------------------- MODULE MCComputeApi -----------------------------
(* The anonymous requests on a small instance. *)
EXTENDS ComputeApi, TLC

CONSTANTS h1, h2, a1, j1, j2, k1

OneKey == [j \in Jobs |-> k1]
=============================================================================
