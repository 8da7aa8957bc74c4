----------------------------- MODULE MCMagicLink -----------------------------
(* The links on a small instance: all requests ask for the same mathematics. *)
EXTENDS MagicLink, TLC

CONSTANTS h1, h2, l1, l2, j1, j2, k1

OneKey     == [j \in Jobs |-> k1]
OneLinkKey == [l \in Links |-> k1]
=============================================================================
