---------------------------- MODULE LinkLifecycle ----------------------------
(***************************************************************************)
(* What the verification links of big jobs promise, one link at a time: a  *)
(* link is requested, then it is either redeemed, once, for at most one    *)
(* job, or it lapses; neither is ever undone, and a lapsed link starts     *)
(* nothing.                                                                *)
(***************************************************************************)
EXTENDS FiniteSets

CONSTANTS Links, Ids

VARIABLES state,    \* of each link
          bought    \* the jobs each link has started

Requested(l) ==
    /\ state[l] = "new"
    /\ state' = [state EXCEPT ![l] = "open"]
    /\ UNCHANGED bought

Redeemed(l) ==
    /\ state[l] = "open"
    /\ state' = [state EXCEPT ![l] = "spent"]
    /\ UNCHANGED bought

\* Several links lapse at once when the sweep finds them.
Lapsed(ls) ==
    /\ \A l \in ls : state[l] = "open"
    /\ state' = [l \in Links |-> IF l \in ls THEN "over" ELSE state[l]]
    /\ UNCHANGED bought

Started(l, j) ==
    /\ state[l] = "spent"
    /\ bought[l] = {}
    /\ \A k \in Links : j \notin bought[k]
    /\ bought' = [bought EXCEPT ![l] = {j}]
    /\ UNCHANGED state

Init ==
    /\ state  = [l \in Links |-> "new"]
    /\ bought = [l \in Links |-> {}]

Next ==
    \/ \E l \in Links : Requested(l) \/ Redeemed(l)
    \/ \E ls \in SUBSET Links : ls # {} /\ Lapsed(ls)
    \/ \E l \in Links, j \in Ids : Started(l, j)

Spec == Init /\ [][Next]_<<state, bought>>
=============================================================================
