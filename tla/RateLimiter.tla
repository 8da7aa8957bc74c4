----------------------------- MODULE RateLimiter -----------------------------
(***************************************************************************)
(* The sliding window of the instant tier (src/webapp/server/instant.py,   *)
(* InstantRateLimiter): at most RateMax computations per address in a      *)
(* window.  A thread reads the monotonic clock before it takes the lock,   *)
(* so stamps may reach the deque out of order: the two halves of allow are *)
(* two steps.  _maybe_gc drops the idle deques of a server that has seen   *)
(* more than 4096 addresses; this one has seen fewer.                      *)
(***************************************************************************)
EXTENDS Integers, Sequences, FiniteSets

CONSTANTS Handlers,   \* the threads of the server's pool
          Ips,        \* hashed client addresses
          NoIp,       \* not an address
          RateMax,    \* cfg.instant_rate_max; at least 1, the limiter is on
          Window,     \* cfg.instant_rate_window_seconds, in clock units
          MaxMono     \* bound on the clock

VARIABLES mono,     \* time.monotonic
          asking,   \* the address a thread is inside allow for, or NoIp
          now,      \* the stamp it has read
          hits,     \* the deque of each address; an absent one is empty
          admits    \* every stamp admitted, per address

limitVars == <<mono, asking, now, hits, admits>>

LimiterInit ==
    /\ mono   = 0
    /\ asking = [h \in Handlers |-> NoIp]
    /\ now    = [h \in Handlers |-> 0]
    /\ hits   = [i \in Ips |-> <<>>]
    /\ admits = [i \in Ips |-> <<>>]

Ask(h, ip) ==
    /\ asking[h] = NoIp
    /\ asking' = [asking EXCEPT ![h] = ip]
    /\ now'    = [now EXCEPT ![h] = mono]
    /\ UNCHANGED <<mono, hits, admits>>

\* popleft while the head is not after the cutoff: the deque from its first
\* stamp after the cutoff on.
Fresh(dq, cutoff) ==
    LET kept == {n \in DOMAIN dq : dq[n] > cutoff}
    IN  IF kept = {} THEN <<>>
        ELSE SubSeq(dq, CHOOSE n \in kept : \A m \in kept : n <= m, Len(dq))

\* The window as a thread finds it under the lock.
Seen(h) == Fresh(hits[asking[h]], now[h] - Window)

\* Mutant of Full: the limit lets one more through.
FullLoosely(h) == Len(Seen(h)) > RateMax

Full(h) == Len(Seen(h)) >= RateMax

\* allow returns True.
Admit(h) ==
    LET ip == asking[h] IN
    /\ ~Full(h)
    /\ hits'   = [hits EXCEPT ![ip] = Append(Seen(h), now[h])]
    /\ admits' = [admits EXCEPT ![ip] = Append(@, now[h])]

\* allow returns False: the throttled attempt is not recorded.
Throttle(h) ==
    /\ Full(h)
    /\ hits' = [hits EXCEPT ![asking[h]] = Seen(h)]
    /\ UNCHANGED admits

Decided(h) ==
    /\ asking[h] # NoIp
    /\ asking' = [asking EXCEPT ![h] = NoIp]
    /\ now'    = [now EXCEPT ![h] = 0]
    /\ UNCHANGED mono

MonoTick ==
    /\ mono < MaxMono
    /\ mono' = mono + 1
    /\ UNCHANGED <<asking, now, hits, admits>>

-----------------------------------------------------------------------------
(* Properties. *)

LimiterTypeOK ==
    /\ mono   \in Nat
    /\ asking \in [Handlers -> Ips \cup {NoIp}]
    /\ now    \in [Handlers -> Nat]
    /\ hits   \in [Ips -> Seq(Nat)]
    /\ admits \in [Ips -> Seq(Nat)]

InWindow(i, t) == {n \in DOMAIN admits[i] : t - Window < admits[i][n] /\ admits[i][n] <= t}

\* In every window an address is admitted at most RateMax times, and once more
\* for each other thread that read the clock before it came to the lock
\* (instant.py:98).
RateIsBounded ==
    \A i \in Ips : \A t \in 0..MaxMono :
        Cardinality(InWindow(i, t)) <= RateMax + Cardinality(Handlers) - 1
=============================================================================
