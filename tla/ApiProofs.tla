------------------------------- MODULE ApiProofs -------------------------------
(***************************************************************************)
(* Proofs about ComputeApi, for any number of handlers, addresses and jobs *)
(* and every setting of the limits.                                        *)
(***************************************************************************)
EXTENDS ComputeApi, FiniteSetTheorems, SequenceTheorems, WellFoundedInduction, TLAPS

-----------------------------------------------------------------------------
(* The sliding window.  What Fresh keeps of a deque is a deque: a set of       *)
(* positions has a least one.                                                  *)

LEMMA LeastPosition ==
  ASSUME NEW P, P \subseteq Nat, P # {}
  PROVE  \E n \in P : \A m \in P : n <= m
<1>1. PICK n \in P : \A m \in P : ~ (<<m, n>> \in OpToRel(<, Nat))
  BY WFMin, NatLessThanWellFounded, Zenon
<1>2. ASSUME NEW m \in P PROVE n <= m
  <2>1. m \in Nat /\ n \in Nat
    OBVIOUS
  <2>2. ~ (m < n)
    BY <1>1, <2>1, Zenon DEF OpToRel
  <2> QED
    BY <2>1, <2>2
<1> QED
  BY <1>2

\* What popleft leaves is the deque without its first `f' stamps, all of them out of
\* the window.
LEMMA FreshIsRest ==
  ASSUME NEW dq \in Seq(Nat), NEW cutoff \in Int
  PROVE  \E f \in 0..Len(dq) :
            /\ Fresh(dq, cutoff) \in Seq(Nat) /\ Len(Fresh(dq, cutoff)) = Len(dq) - f
            /\ \A n \in 1..Len(Fresh(dq, cutoff)) : Fresh(dq, cutoff)[n] = dq[n + f]
            /\ \A n \in 1..f : dq[n] <= cutoff
<1> DEFINE kept == {n \in DOMAIN dq : dq[n] > cutoff}
<1>0. /\ Len(dq) \in Nat /\ DOMAIN dq = 1..Len(dq)
      /\ \A n \in 1..Len(dq) : dq[n] \in Nat
  OBVIOUS
<1>1. CASE kept = {}
  <2>1. Fresh(dq, cutoff) = <<>>
    BY <1>1 DEF Fresh
  <2>2. \A n \in 1..Len(dq) : dq[n] <= cutoff
    BY <1>0, <1>1
  <2>3. Len(dq) \in 0..Len(dq) /\ Len(Fresh(dq, cutoff)) = Len(dq) - Len(dq)
    BY <1>0, <2>1
  <2> QED
    BY <2>1, <2>2, <2>3
<1>2. CASE kept # {}
  <2> DEFINE first == CHOOSE n \in kept : \A m \in kept : n <= m
  <2>1. kept \subseteq Nat
    BY DEF kept
  <2>2. \E n \in kept : \A m \in kept : n <= m
    BY <1>2, <2>1, LeastPosition
  <2>3. first \in kept /\ \A m \in kept : first <= m
    BY <2>2
  <2>4. Fresh(dq, cutoff) = SubSeq(dq, first, Len(dq))
    BY <1>2 DEF Fresh
  <2>5. first \in 1..Len(dq)
    BY <2>3
  <2> HIDE DEF first
  <2>6. \A i \in first..Len(dq) : dq[i] \in Nat
    BY <1>0, <2>5
  <2>7. /\ SubSeq(dq, first, Len(dq)) \in Seq(Nat)
        /\ Len(SubSeq(dq, first, Len(dq))) = Len(dq) - first + 1
        /\ \A i \in 1..(Len(dq) - first + 1) : SubSeq(dq, first, Len(dq))[i] = dq[first + i - 1]
    BY <1>0, <2>5, <2>6, SubSeqProperties
  <2>8. \A n \in 1..(first - 1) : dq[n] <= cutoff
    <3> SUFFICES ASSUME NEW n \in 1..(first - 1) PROVE dq[n] <= cutoff
      OBVIOUS
    <3>1. n \in 1..Len(dq) /\ ~ (first <= n)
      BY <1>0, <2>5
    <3>2. n \notin kept
      BY <2>3, <3>1
    <3> QED
      BY <1>0, <3>1, <3>2
  <2>9. first - 1 \in 0..Len(dq) /\ Len(dq) - (first - 1) = Len(dq) - first + 1
    BY <1>0, <2>5
  <2>10. \A n \in 1..(Len(dq) - first + 1) :
            SubSeq(dq, first, Len(dq))[n] = dq[n + (first - 1)]
    <3> SUFFICES ASSUME NEW n \in 1..(Len(dq) - first + 1)
                 PROVE  SubSeq(dq, first, Len(dq))[n] = dq[n + (first - 1)]
      OBVIOUS
    <3>1. first + n - 1 = n + (first - 1)
      BY <1>0, <2>5
    <3> QED
      BY <2>7, <3>1
  <2> QED
    BY <2>4, <2>7, <2>8, <2>9, <2>10
<1> QED
  BY <1>1, <1>2

LEMMA LimiterInitTyped == LimiterInit => LimiterTypeOK
BY DEF LimiterInit, LimiterTypeOK

LEMMA AskTyped ==
  ASSUME LimiterTypeOK, NEW h \in Handlers, NEW ip \in Ips \cup {NoIp}, Ask(h, ip)
  PROVE  LimiterTypeOK'
BY DEF LimiterTypeOK, Ask

LEMMA DecisionTyped ==
  ASSUME LimiterTypeOK, NEW h \in Handlers, Decided(h), Admit(h) \/ Throttle(h)
  PROVE  LimiterTypeOK'
<1>1. asking[h] \in Ips /\ now[h] \in Nat
  BY DEF LimiterTypeOK, Decided
<1>2. Seen(h) \in Seq(Nat)
  <2>1. hits[asking[h]] \in Seq(Nat) /\ now[h] - Window \in Int
    BY <1>1, ApiAssumption DEF LimiterTypeOK
  <2> QED
    BY <2>1, FreshIsRest DEF Seen
<1>3. /\ Append(Seen(h), now[h]) \in Seq(Nat)
      /\ Append(admits[asking[h]], now[h]) \in Seq(Nat)
  BY <1>1, <1>2, AppendProperties DEF LimiterTypeOK
<1>4. mono' \in Nat /\ asking' \in [Handlers -> Ips \cup {NoIp}] /\ now' \in [Handlers -> Nat]
  BY DEF Decided, LimiterTypeOK
<1>5. hits' \in [Ips -> Seq(Nat)] /\ admits' \in [Ips -> Seq(Nat)]
  BY <1>1, <1>2, <1>3 DEF Admit, Throttle, LimiterTypeOK
<1> QED
  BY <1>4, <1>5 DEF LimiterTypeOK

\* What a handler may have in hand.
Requests == [kind : Kinds, ip : Ips \cup {NoIp}, key : Keys, size : Sizes]

\* The steps of the system, as the limiter sees them.
LimiterMove ==
    \/ \E h \in Handlers, ip \in Ips \cup {NoIp} : Ask(h, ip)
    \/ \E h \in Handlers : Decided(h) /\ (Admit(h) \/ Throttle(h))
    \/ MonoTick
    \/ UNCHANGED windowVars

LEMMA LimiterMoves ==
  ASSUME req \in [Handlers -> Requests], [Next]_vars PROVE LimiterMove
<1>1. ASSUME NEW h \in Handlers, EnterLimiter(h) PROVE LimiterMove
  <2>1. req[h].ip \in Ips \cup {NoIp}
    BY DEF Requests
  <2> QED
    BY <1>1, <2>1 DEF EnterLimiter, LimiterMove
<1>2. ASSUME NEW h \in Handlers, LeaveLimiter(h) PROVE LimiterMove
  BY <1>2 DEF LeaveLimiter, LimiterMove
<1>3. ASSUME NEW h \in Handlers, Serving(h), ~EnterLimiter(h), ~LeaveLimiter(h)
      PROVE  UNCHANGED windowVars
  <2>1. ASSUME Replay(h) \/ MissCache(h) \/ Decline(h) \/ CreateAnonymousJob(h)
        PROVE  UNCHANGED windowVars
    BY <2>1 DEF Replay, MissCache, Decline, CreateAnonymousJob
  <2>2. ASSUME NEW size \in {"instant", "queued"}, Classify(h, size) PROVE UNCHANGED windowVars
    BY <2>2 DEF Classify
  <2>3. ASSUME CheckPending(h) \/ CheckLoad(h) \/ CheckDaily(h) PROVE UNCHANGED windowVars
    BY <2>3 DEF CheckPending, CheckLoad, CheckDaily, Gate
  <2>4. ASSUME ReserveSlot(h) \/ MakeDir(h) \/ Spawn(h) \/ JoinEnds(h) \/ WallPasses(h)
        PROVE  UNCHANGED windowVars
    BY <2>4 DEF ReserveSlot, MakeDir, Spawn, JoinEnds, WallPasses
  <2>5. ASSUME GraceEnds(h) \/ TermIgnored(h) \/ ReadResult(h) \/ RemoveDir(h) \/ ReleaseSlot(h)
               \/ UseResult(h)
        PROVE  UNCHANGED windowVars
    BY <2>5 DEF GraceEnds, TermIgnored, ReadResult, RemoveDir, ReleaseSlot, UseResult
  <2> QED
    BY <1>3, <2>1, <2>2, <2>3, <2>4, <2>5 DEF Serving
<1> QED
  BY <1>1, <1>2, <1>3 DEF Next, vars, Arrive, KidComputes, KidTerminates, LimiterMove

LEMMA LimiterStep ==
  ASSUME LimiterTypeOK, req \in [Handlers -> Requests], [Next]_vars
  PROVE  LimiterTypeOK'
<1>1. CASE MonoTick
  BY <1>1 DEF MonoTick, LimiterTypeOK
<1>2. CASE UNCHANGED windowVars
  BY <1>2 DEF windowVars, LimiterTypeOK
<1> QED
  BY <1>1, <1>2, LimiterMoves, AskTyped, DecisionTyped DEF LimiterMove

-----------------------------------------------------------------------------
(* Type correctness, one step per action. *)

\* The types of all but the limiter; a result is read after the child has ended.
BooksTyped ==
    /\ StoreTypeOK
    /\ at       \in [Handlers -> Places]
    /\ req      \in [Handlers -> Requests]
    /\ inflight \in Int
    /\ kid      \in [Handlers -> KidStates]
    /\ dirs     \in SUBSET Handlers
    /\ out      \in [Handlers -> {"none", "result", "error", "overrun"}]
    /\ ipOf     \in [Jobs -> Ips \cup {NoIp}]
    /\ \A h \in Handlers : /\ at[h] = "joining" => kid[h] # "none"
                           /\ at[h] = "reading" => kid[h] \in {"ok", "fail", "silent"}

TypeInv == BooksTyped /\ LimiterTypeOK

LEMMA NoRequestTyped == NoRequest \in Requests
BY ApiAssumption DEF NoRequest, Requests, Kinds, Sizes

LEMMA Resized ==
  ASSUME req \in [Handlers -> Requests], NEW h \in Handlers, NEW s \in Sizes
  PROVE  [req EXCEPT ![h].size = s] \in [Handlers -> Requests]
BY DEF Requests

LEMMA TypeInit == Init => TypeInv
<1> SUFFICES ASSUME Init PROVE TypeInv
  OBVIOUS
<1>1. StoreTypeOK
  BY DEF Init, WebInit, StoreInit, StoreTypeOK, Statuses, Tiers, Errors, Null
<1>2. LimiterTypeOK
  BY LimiterInitTyped DEF Init
<1> QED
  BY <1>1, <1>2, NoRequestTyped DEF Init, WebInit, TypeInv, BooksTyped, Places, KidStates

LEMMA BooksStep == BooksTyped /\ [Next]_vars => BooksTyped'
<1> SUFFICES ASSUME BooksTyped, [Next]_vars PROVE BooksTyped'
  OBVIOUS
<1> USE NoRequestTyped
    DEF BooksTyped, StoreTypeOK, Statuses, Tiers, Errors, Places, KidStates, At, Goto,
        storeVars, jobVars, windowVars, kidVars
<1>1. ASSUME NEW h \in Handlers, NEW kind \in Kinds, NEW ip \in Ips, NEW key \in Keys,
            Arrive(h, kind, ip, key)
     PROVE  BooksTyped'
  BY <1>1 DEF Arrive, Kinds, Requests, Sizes
<1>2. ASSUME NEW h \in Handlers, Replay(h) PROVE BooksTyped'
  BY <1>2 DEF Replay, Answer
<1>3. ASSUME NEW h \in Handlers, MissCache(h) PROVE BooksTyped'
  BY <1>3 DEF MissCache, Miss
<1>4. ASSUME NEW h \in Handlers, Decline(h) PROVE BooksTyped'
  BY <1>4 DEF Decline, Answer
<1>5. ASSUME NEW h \in Handlers, NEW size \in {"instant", "queued"}, Classify(h, size)
     PROVE  BooksTyped'
  <2>1. size \in Sizes
    BY DEF Sizes
  <2>2. req' \in [Handlers -> Requests]
    BY <1>5, <2>1, Resized DEF Classify, Sized
  <2> QED
    BY <1>5, <2>2 DEF Classify
<1>6. ASSUME NEW h \in Handlers, CheckPending(h) PROVE BooksTyped'
  BY <1>6 DEF CheckPending, Gate, Answer
<1>7. ASSUME NEW h \in Handlers, CheckLoad(h) PROVE BooksTyped'
  BY <1>7 DEF CheckLoad, Gate, Answer
<1>8. ASSUME NEW h \in Handlers, CheckDaily(h) PROVE BooksTyped'
  BY <1>8 DEF CheckDaily, Gate, Answer
<1>9. ASSUME NEW h \in Handlers, CreateAnonymousJob(h) PROVE BooksTyped'
  <2>1. PICK j \in Unminted : CreateJob(j, "anonymous") /\ ipOf' = [ipOf EXCEPT ![j] = req[h].ip]
    BY <1>9 DEF CreateAnonymousJob
  <2>2. j \in Jobs /\ req[h].ip \in Ips \cup {NoIp}
    BY <2>1 DEF Unminted, Requests
  <2>3. UNCHANGED <<clock, cancelReq, cache, windowVars, kidVars>> /\ Answer(h)
    BY <1>9 DEF CreateAnonymousJob
  <2>4. StoreTypeOK'
    BY <2>1, <2>2, <2>3 DEF CreateJob
  <2>5. ipOf' \in [Jobs -> Ips \cup {NoIp}]
    BY <2>1, <2>2
  <2>6. /\ at' = [at EXCEPT ![h] = "free"] /\ req' = [req EXCEPT ![h] = NoRequest]
        /\ UNCHANGED kidVars
    BY <2>3 DEF Answer
  <2> QED
    <3> HIDE DEF StoreTypeOK
    <3> QED
      BY <2>4, <2>5, <2>6
<1>10. ASSUME NEW h \in Handlers, EnterLimiter(h) PROVE BooksTyped'
  BY <1>10 DEF EnterLimiter
<1>11. ASSUME NEW h \in Handlers, LeaveLimiter(h) PROVE BooksTyped'
  BY <1>11 DEF LeaveLimiter, Answer
<1>12. ASSUME NEW h \in Handlers, ReserveSlot(h) PROVE BooksTyped'
  BY <1>12 DEF ReserveSlot, Answer
<1>13. ASSUME NEW h \in Handlers, MakeDir(h) PROVE BooksTyped'
  BY <1>13 DEF MakeDir, Returns
<1>14. ASSUME NEW h \in Handlers, Spawn(h) PROVE BooksTyped'
  BY <1>14 DEF Spawn, Returns
<1>15. ASSUME NEW h \in Handlers, JoinEnds(h) PROVE BooksTyped'
  <2>1. /\ at[h] = "joining" /\ at' = [at EXCEPT ![h] = "reading"]
        /\ UNCHANGED <<storeVars, req, kidVars, ipOf>>
    BY <1>15 DEF JoinEnds
  <2>2. kid[h] \in {"ok", "fail", "silent"}
    <3>1. kid[h] \in KidStates
      OBVIOUS
    <3>2. kid[h] # "none"
      BY <2>1
    <3>3. kid[h] # "computing"
      BY <1>15 DEF JoinEnds, Alive
    <3> QED
      BY <3>1, <3>2, <3>3
  <2> QED
    BY <2>1, <2>2
<1>16. ASSUME NEW h \in Handlers, WallPasses(h) PROVE BooksTyped'
  BY <1>16 DEF WallPasses, Returns
<1>17. ASSUME NEW h \in Handlers, GraceEnds(h) PROVE BooksTyped'
  BY <1>17 DEF GraceEnds
<1>18. ASSUME NEW h \in Handlers, TermIgnored(h) PROVE BooksTyped'
  BY <1>18 DEF TermIgnored
<1>19. ASSUME NEW h \in Handlers, ReadResult(h) PROVE BooksTyped'
  <2>1. kid[h] \in {"ok", "fail", "silent"}
    BY <1>19 DEF ReadResult
  <2>2. out' \in [Handlers -> {"none", "result", "error", "overrun"}]
    BY <1>19, <2>1 DEF ReadResult, Returns
  <2> QED
    BY <1>19, <2>2 DEF ReadResult
<1>20. ASSUME NEW h \in Handlers, RemoveDir(h) PROVE BooksTyped'
  BY <1>20 DEF RemoveDir
<1>21. ASSUME NEW h \in Handlers, ReleaseSlot(h) PROVE BooksTyped'
  BY <1>21 DEF ReleaseSlot
<1>22. ASSUME NEW h \in Handlers, UseResult(h) PROVE BooksTyped'
  <2>1. CASE out[h] = "overrun"
    <3>1. "overrun" \in Sizes
      BY DEF Sizes
    <3>2. req' \in [Handlers -> Requests]
      BY <1>22, <2>1, <3>1, Resized DEF UseResult, Sized
    <3>3. /\ at' = [at EXCEPT ![h] = "pending"] /\ out' = [out EXCEPT ![h] = "none"]
          /\ kid' = [kid EXCEPT ![h] = "none"] /\ UNCHANGED <<storeVars, ipOf>>
      BY <1>22, <2>1 DEF UseResult, Returns
    <3>4. StoreTypeOK'
      BY <3>3
    <3>5. UNCHANGED <<inflight, dirs>>
      BY <1>22 DEF UseResult
    <3> QED
      <4> HIDE DEF StoreTypeOK, storeVars
      <4> QED
        BY <3>2, <3>3, <3>4, <3>5
  <2>2. CASE out[h] # "overrun"
    <3>1. req' \in [Handlers -> Requests]
      BY <1>22, <2>2 DEF UseResult, Answer
    <3> QED
      BY <1>22, <2>2, <3>1 DEF UseResult, Answer, Returns
  <2> QED
    BY <2>1, <2>2
<1>23. ASSUME NEW h \in Handlers, KidComputes(h) \/ KidTerminates(h) PROVE BooksTyped'
  BY <1>23 DEF KidComputes, KidTerminates
<1>24. ASSUME FleetStep, UNCHANGED <<req, windowVars, kidVars, ipOf>> PROVE BooksTyped'
  <2>1. StoreTypeOK'
    <3>1. ASSUME NEW j \in Jobs, WorkerClaims(j) PROVE StoreTypeOK'
      BY <3>1 DEF WorkerClaims, ClaimNext
    <3>2. ASSUME NEW j \in Jobs, WorkerEnds(j) PROVE StoreTypeOK'
      BY <3>2 DEF WorkerEnds, MarkDone, MarkFailed
    <3>3. ASSUME NEW j \in Jobs, WorkerRecords(j) PROVE StoreTypeOK'
      BY <3>3 DEF WorkerRecords, CachePut
    <3>4. ASSUME NEW j \in Jobs, WorkerForgets(j) PROVE StoreTypeOK'
      BY <3>4 DEF WorkerForgets, ClearEmail
    <3>5. CASE FleetRestarts
      BY <3>5 DEF FleetRestarts, RequeueStaleRunning
    <3> QED
      BY <1>24, <3>1, <3>2, <3>3, <3>4, <3>5 DEF FleetStep
  <2>2. UNCHANGED at
    BY <1>24 DEF FleetStep, WorkerClaims, WorkerEnds, WorkerRecords, WorkerForgets, FleetRestarts
  <2> QED
    BY <1>24, <2>1, <2>2
<1>25. CASE MonoTick /\ UNCHANGED <<storeVars, at, req, kidVars, ipOf>>
  BY <1>25 DEF MonoTick
<1>26. CASE UNCHANGED vars
  BY <1>26 DEF vars
<1> QED
  BY <1>1, <1>2, <1>3, <1>4, <1>5, <1>6, <1>7, <1>8, <1>9,
     <1>10, <1>11, <1>12, <1>13, <1>14, <1>15, <1>16, <1>17, <1>18,
     <1>19, <1>20, <1>21, <1>22, <1>23, <1>24, <1>25, <1>26
     DEF Next, Serving

LEMMA TypeStep == TypeInv /\ [Next]_vars => TypeInv'
BY BooksStep, LimiterStep DEF TypeInv, BooksTyped

-----------------------------------------------------------------------------
(* The slots.  Each handler in run_with_timeout holds one of them; the         *)
(* directory and the child of a request live only as long.                     *)

Holders == {h \in Handlers : at[h] \in HoldingPlaces}

LEMMA HoldersFinite == IsFiniteSet(Holders) /\ Cardinality(Holders) \in Nat
<1>1. Holders \subseteq Handlers
  BY DEF Holders
<1> QED
  BY <1>1, PoolAssumption, FS_Subset, FS_CardinalityType

\* No directory before mkdtemp and after rmtree.
DirsAreHeld ==
    /\ NothingLeftBehind
    /\ \A h \in Handlers : at[h] \in {"mkdir", "releasing"} => h \notin dirs

\* The books of a step that neither takes nor gives a slot.
SameHolders == inflight' = inflight /\ Holders' = Holders

\* How a step may change the slots: one is taken below the ceiling, one is
\* given back, or none moves.
SlotMove ==
    \/ \E h \in Handlers \ Holders : /\ inflight < SlotMax /\ inflight' = inflight + 1
                                     /\ Holders' = Holders \cup {h}
    \/ \E h \in Holders : inflight' = inflight - 1 /\ Holders' = Holders \ {h}
    \/ SameHolders

LEMMA SlotsMove == TypeInv /\ [Next]_vars => SlotMove
<1> SUFFICES ASSUME TypeInv, [Next]_vars PROVE SlotMove
  OBVIOUS
<1> USE DEF TypeInv, BooksTyped, Holders, HoldingPlaces, SameHolders, SlotMove, At, Goto,
        vars, kidVars
<1>1. ASSUME NEW h \in Handlers, NEW kind \in Kinds, NEW ip \in Ips, NEW key \in Keys,
            Arrive(h, kind, ip, key)
     PROVE  SlotMove
  BY <1>1 DEF Arrive, Kinds
<1>2. ASSUME NEW h \in Handlers, Replay(h) PROVE SlotMove
  BY <1>2 DEF Replay, Answer
<1>3. ASSUME NEW h \in Handlers, MissCache(h) PROVE SlotMove
  BY <1>3 DEF MissCache
<1>4. ASSUME NEW h \in Handlers, Decline(h) PROVE SlotMove
  BY <1>4 DEF Decline, Answer
<1>5. ASSUME NEW h \in Handlers, NEW size \in {"instant", "queued"}, Classify(h, size)
     PROVE  SlotMove
  BY <1>5 DEF Classify, Sized
<1>6. ASSUME NEW h \in Handlers, CheckPending(h) PROVE SlotMove
  BY <1>6 DEF CheckPending, Gate, Answer
<1>7. ASSUME NEW h \in Handlers, CheckLoad(h) PROVE SlotMove
  BY <1>7 DEF CheckLoad, Gate, Answer
<1>8. ASSUME NEW h \in Handlers, CheckDaily(h) PROVE SlotMove
  BY <1>8 DEF CheckDaily, Gate, Answer
<1>9. ASSUME NEW h \in Handlers, CreateAnonymousJob(h) PROVE SlotMove
  BY <1>9 DEF CreateAnonymousJob, Answer
<1>10. ASSUME NEW h \in Handlers, EnterLimiter(h) PROVE SlotMove
  BY <1>10 DEF EnterLimiter
<1>11. ASSUME NEW h \in Handlers, LeaveLimiter(h) PROVE SlotMove
  BY <1>11 DEF LeaveLimiter, Answer
<1>12. ASSUME NEW h \in Handlers, ReserveSlot(h) PROVE SlotMove
  <2>1. CASE inflight >= SlotMax
    BY <1>12, <2>1 DEF ReserveSlot, Answer
  <2>2. CASE ~ (inflight >= SlotMax)
    <3>1. inflight < SlotMax /\ inflight' = inflight + 1
      BY <1>12, <2>2, ApiAssumption DEF ReserveSlot
    <3>2. at[h] = "slot" /\ at' = [at EXCEPT ![h] = "mkdir"]
      BY <1>12, <2>2 DEF ReserveSlot
    <3>3. h \in Handlers \ Holders /\ Holders' = Holders \cup {h}
      BY <3>2
    <3> HIDE DEF Holders, SameHolders
    <3> QED
      BY <3>1, <3>3
  <2> QED
    BY <2>1, <2>2
<1>13. ASSUME NEW h \in Handlers, MakeDir(h) PROVE SlotMove
  BY <1>13 DEF MakeDir, Returns
<1>14. ASSUME NEW h \in Handlers, Spawn(h) PROVE SlotMove
  BY <1>14 DEF Spawn, Returns
<1>15. ASSUME NEW h \in Handlers, JoinEnds(h) PROVE SlotMove
  BY <1>15 DEF JoinEnds, Alive
<1>16. ASSUME NEW h \in Handlers, WallPasses(h) PROVE SlotMove
  BY <1>16 DEF WallPasses, Returns
<1>17. ASSUME NEW h \in Handlers, GraceEnds(h) PROVE SlotMove
  BY <1>17 DEF GraceEnds
<1>18. ASSUME NEW h \in Handlers, TermIgnored(h) PROVE SlotMove
  BY <1>18 DEF TermIgnored
<1>19. ASSUME NEW h \in Handlers, ReadResult(h) PROVE SlotMove
  BY <1>19 DEF ReadResult, Returns
<1>20. ASSUME NEW h \in Handlers, RemoveDir(h) PROVE SlotMove
  BY <1>20 DEF RemoveDir
<1>21. ASSUME NEW h \in Handlers, ReleaseSlot(h) PROVE SlotMove
  <2>1. at[h] = "releasing" /\ at' = [at EXCEPT ![h] = "returned"]
    BY <1>21 DEF ReleaseSlot
  <2>2. h \in Holders /\ Holders' = Holders \ {h} /\ inflight' = inflight - 1
    BY <1>21, <2>1 DEF ReleaseSlot
  <2> HIDE DEF Holders, SameHolders
  <2> QED
    BY <2>2
<1>22. ASSUME NEW h \in Handlers, UseResult(h) PROVE SlotMove
  BY <1>22 DEF UseResult, Sized, Answer, Returns
<1>23. ASSUME NEW h \in Handlers, KidComputes(h) \/ KidTerminates(h) PROVE SlotMove
  BY <1>23 DEF KidComputes, KidTerminates
<1>24. ASSUME FleetStep, UNCHANGED <<req, windowVars, kidVars, ipOf>> PROVE SlotMove
  <2>1. UNCHANGED <<at, inflight>>
    BY <1>24 DEF FleetStep, WorkerClaims, WorkerEnds, WorkerRecords, WorkerForgets, FleetRestarts
  <2> QED
    BY <2>1
<1>25. CASE MonoTick /\ UNCHANGED <<storeVars, at, req, kidVars, ipOf>>
  BY <1>25 DEF MonoTick
<1>26. CASE UNCHANGED vars
  BY <1>26 DEF vars
<1> QED
  BY <1>1, <1>2, <1>3, <1>4, <1>5, <1>6, <1>7, <1>8, <1>9,
     <1>10, <1>11, <1>12, <1>13, <1>14, <1>15, <1>16, <1>17, <1>18,
     <1>19, <1>20, <1>21, <1>22, <1>23, <1>24, <1>25, <1>26
     DEF Next, Serving

LEMMA SlotsStep == TypeInv /\ SlotsAreHeld /\ [Next]_vars => SlotsAreHeld'
<1> SUFFICES ASSUME TypeInv, SlotsAreHeld, [Next]_vars PROVE SlotsAreHeld'
  OBVIOUS
<1>1. /\ inflight = Cardinality(Holders) /\ inflight <= SlotMax
      /\ inflight \in Int /\ SlotMax \in Int
  BY ApiAssumption DEF SlotsAreHeld, Holders, TypeInv, BooksTyped
<1>2. SUFFICES inflight' = Cardinality(Holders') /\ inflight' <= SlotMax
  BY DEF SlotsAreHeld, Holders
<1>3. SlotMove
  BY SlotsMove
<1>4. ASSUME NEW h \in Handlers \ Holders, inflight < SlotMax, inflight' = inflight + 1,
             Holders' = Holders \cup {h}
      PROVE  inflight' = Cardinality(Holders') /\ inflight' <= SlotMax
  <2>1. Cardinality(Holders \cup {h}) = Cardinality(Holders) + 1
    BY HoldersFinite, FS_AddElement
  <2> QED
    BY <1>1, <1>4, <2>1
<1>5. ASSUME NEW h \in Holders, inflight' = inflight - 1, Holders' = Holders \ {h}
      PROVE  inflight' = Cardinality(Holders') /\ inflight' <= SlotMax
  <2>1. Cardinality(Holders \ {h}) = Cardinality(Holders) - 1
    BY HoldersFinite, FS_RemoveElement
  <2> QED
    BY <1>1, <1>5, <2>1
<1> QED
  BY <1>1, <1>3, <1>4, <1>5 DEF SlotMove, SameHolders

LEMMA DirsStep == TypeInv /\ DirsAreHeld /\ [Next]_vars => DirsAreHeld'
<1> SUFFICES ASSUME TypeInv, DirsAreHeld, [Next]_vars PROVE DirsAreHeld'
  OBVIOUS
<1> USE DEF TypeInv, BooksTyped, DirsAreHeld, NothingLeftBehind, HoldingPlaces, Alive,
        At, Goto, vars, kidVars
<1>1. ASSUME NEW h \in Handlers, NEW kind \in Kinds, NEW ip \in Ips, NEW key \in Keys,
            Arrive(h, kind, ip, key)
     PROVE  DirsAreHeld'
  BY <1>1 DEF Arrive, Kinds
<1>2. ASSUME NEW h \in Handlers, Replay(h) PROVE DirsAreHeld'
  BY <1>2 DEF Replay, Answer
<1>3. ASSUME NEW h \in Handlers, MissCache(h) PROVE DirsAreHeld'
  BY <1>3 DEF MissCache
<1>4. ASSUME NEW h \in Handlers, Decline(h) PROVE DirsAreHeld'
  BY <1>4 DEF Decline, Answer
<1>5. ASSUME NEW h \in Handlers, NEW size \in {"instant", "queued"}, Classify(h, size)
     PROVE  DirsAreHeld'
  BY <1>5 DEF Classify, Sized
<1>6. ASSUME NEW h \in Handlers, CheckPending(h) PROVE DirsAreHeld'
  BY <1>6 DEF CheckPending, Gate, Answer
<1>7. ASSUME NEW h \in Handlers, CheckLoad(h) PROVE DirsAreHeld'
  BY <1>7 DEF CheckLoad, Gate, Answer
<1>8. ASSUME NEW h \in Handlers, CheckDaily(h) PROVE DirsAreHeld'
  BY <1>8 DEF CheckDaily, Gate, Answer
<1>9. ASSUME NEW h \in Handlers, CreateAnonymousJob(h) PROVE DirsAreHeld'
  BY <1>9 DEF CreateAnonymousJob, Answer
<1>10. ASSUME NEW h \in Handlers, EnterLimiter(h) PROVE DirsAreHeld'
  BY <1>10 DEF EnterLimiter
<1>11. ASSUME NEW h \in Handlers, LeaveLimiter(h) PROVE DirsAreHeld'
  BY <1>11 DEF LeaveLimiter, Answer
<1>12. ASSUME NEW h \in Handlers, ReserveSlot(h) PROVE DirsAreHeld'
  BY <1>12 DEF ReserveSlot, Answer
<1>13. ASSUME NEW h \in Handlers, MakeDir(h) PROVE DirsAreHeld'
  BY <1>13 DEF MakeDir, Returns
<1>14. ASSUME NEW h \in Handlers, Spawn(h) PROVE DirsAreHeld'
  BY <1>14 DEF Spawn, Returns
<1>15. ASSUME NEW h \in Handlers, JoinEnds(h) PROVE DirsAreHeld'
  BY <1>15 DEF JoinEnds, Alive
<1>16. ASSUME NEW h \in Handlers, WallPasses(h) PROVE DirsAreHeld'
  BY <1>16 DEF WallPasses, Returns
<1>17. ASSUME NEW h \in Handlers, GraceEnds(h) PROVE DirsAreHeld'
  BY <1>17 DEF GraceEnds
<1>18. ASSUME NEW h \in Handlers, TermIgnored(h) PROVE DirsAreHeld'
  BY <1>18 DEF TermIgnored
<1>19. ASSUME NEW h \in Handlers, ReadResult(h) PROVE DirsAreHeld'
  BY <1>19 DEF ReadResult, Returns
<1>20. ASSUME NEW h \in Handlers, RemoveDir(h) PROVE DirsAreHeld'
  BY <1>20 DEF RemoveDir
<1>21. ASSUME NEW h \in Handlers, ReleaseSlot(h) PROVE DirsAreHeld'
  BY <1>21 DEF ReleaseSlot
<1>22. ASSUME NEW h \in Handlers, UseResult(h) PROVE DirsAreHeld'
  BY <1>22 DEF UseResult, Sized, Answer, Returns
<1>23. ASSUME NEW h \in Handlers, KidComputes(h) \/ KidTerminates(h) PROVE DirsAreHeld'
  BY <1>23 DEF KidComputes, KidTerminates
<1>24. ASSUME FleetStep, UNCHANGED <<req, windowVars, kidVars, ipOf>> PROVE DirsAreHeld'
  <2>1. UNCHANGED <<at, kid, dirs>>
    BY <1>24 DEF FleetStep, WorkerClaims, WorkerEnds, WorkerRecords, WorkerForgets, FleetRestarts
  <2> QED
    BY <2>1
<1>25. CASE MonoTick /\ UNCHANGED <<storeVars, at, req, kidVars, ipOf>>
  BY <1>25 DEF MonoTick
<1>26. CASE UNCHANGED vars
  BY <1>26 DEF vars
<1> QED
  BY <1>1, <1>2, <1>3, <1>4, <1>5, <1>6, <1>7, <1>8, <1>9,
     <1>10, <1>11, <1>12, <1>13, <1>14, <1>15, <1>16, <1>17, <1>18,
     <1>19, <1>20, <1>21, <1>22, <1>23, <1>24, <1>25, <1>26
     DEF Next, Serving

-----------------------------------------------------------------------------
(* The limit of live jobs of an address.                                       *)

\* Whoever is about to queue a job is not on the instant tier.
CreatorsQueue == \A h \in Handlers : at[h] = "creating" => req[h].size # "instant"

LEMMA CreatorsStep == TypeInv /\ CreatorsQueue /\ [Next]_vars => CreatorsQueue'
<1> SUFFICES ASSUME TypeInv, CreatorsQueue, [Next]_vars PROVE CreatorsQueue'
  OBVIOUS
<1> USE DEF TypeInv, BooksTyped, CreatorsQueue, At, Goto, vars
<1>1. ASSUME NEW h \in Handlers, NEW kind \in Kinds, NEW ip \in Ips, NEW key \in Keys,
            Arrive(h, kind, ip, key)
     PROVE  CreatorsQueue'
  BY <1>1 DEF Arrive, Kinds
<1>2. ASSUME NEW h \in Handlers, Replay(h) PROVE CreatorsQueue'
  BY <1>2 DEF Replay, Answer
<1>3. ASSUME NEW h \in Handlers, MissCache(h) PROVE CreatorsQueue'
  BY <1>3 DEF MissCache
<1>4. ASSUME NEW h \in Handlers, Decline(h) PROVE CreatorsQueue'
  BY <1>4 DEF Decline, Answer
<1>5. ASSUME NEW h \in Handlers, NEW size \in {"instant", "queued"}, Classify(h, size)
     PROVE  CreatorsQueue'
  BY <1>5 DEF Classify, Sized
<1>6. ASSUME NEW h \in Handlers, CheckPending(h) PROVE CreatorsQueue'
  BY <1>6 DEF CheckPending, Gate, Answer
<1>7. ASSUME NEW h \in Handlers, CheckLoad(h) PROVE CreatorsQueue'
  BY <1>7 DEF CheckLoad, Gate, Answer
<1>8. ASSUME NEW h \in Handlers, CheckDaily(h) PROVE CreatorsQueue'
  BY <1>8 DEF CheckDaily, Gate, Answer
<1>9. ASSUME NEW h \in Handlers, CreateAnonymousJob(h) PROVE CreatorsQueue'
  BY <1>9 DEF CreateAnonymousJob, Answer
<1>10. ASSUME NEW h \in Handlers, EnterLimiter(h) PROVE CreatorsQueue'
  BY <1>10 DEF EnterLimiter
<1>11. ASSUME NEW h \in Handlers, LeaveLimiter(h) PROVE CreatorsQueue'
  BY <1>11 DEF LeaveLimiter, Answer
<1>12. ASSUME NEW h \in Handlers, ReserveSlot(h) PROVE CreatorsQueue'
  BY <1>12 DEF ReserveSlot, Answer
<1>13. ASSUME NEW h \in Handlers, MakeDir(h) PROVE CreatorsQueue'
  BY <1>13 DEF MakeDir, Returns
<1>14. ASSUME NEW h \in Handlers, Spawn(h) PROVE CreatorsQueue'
  BY <1>14 DEF Spawn, Returns
<1>15. ASSUME NEW h \in Handlers, JoinEnds(h) PROVE CreatorsQueue'
  BY <1>15 DEF JoinEnds, Alive
<1>16. ASSUME NEW h \in Handlers, WallPasses(h) PROVE CreatorsQueue'
  BY <1>16 DEF WallPasses, Returns
<1>17. ASSUME NEW h \in Handlers, GraceEnds(h) PROVE CreatorsQueue'
  BY <1>17 DEF GraceEnds
<1>18. ASSUME NEW h \in Handlers, TermIgnored(h) PROVE CreatorsQueue'
  BY <1>18 DEF TermIgnored
<1>19. ASSUME NEW h \in Handlers, ReadResult(h) PROVE CreatorsQueue'
  BY <1>19 DEF ReadResult, Returns
<1>20. ASSUME NEW h \in Handlers, RemoveDir(h) PROVE CreatorsQueue'
  BY <1>20 DEF RemoveDir
<1>21. ASSUME NEW h \in Handlers, ReleaseSlot(h) PROVE CreatorsQueue'
  BY <1>21 DEF ReleaseSlot
<1>22. ASSUME NEW h \in Handlers, UseResult(h) PROVE CreatorsQueue'
  BY <1>22 DEF UseResult, Sized, Answer, Returns
<1>23. ASSUME NEW h \in Handlers, KidComputes(h) \/ KidTerminates(h) PROVE CreatorsQueue'
  BY <1>23 DEF KidComputes, KidTerminates
<1>24. ASSUME FleetStep, UNCHANGED <<req, windowVars, kidVars, ipOf>> PROVE CreatorsQueue'
  <2>1. UNCHANGED <<at, req>>
    BY <1>24 DEF FleetStep, WorkerClaims, WorkerEnds, WorkerRecords, WorkerForgets, FleetRestarts
  <2> QED
    BY <2>1
<1>25. CASE MonoTick /\ UNCHANGED <<storeVars, at, req, kidVars, ipOf>>
  BY <1>25 DEF MonoTick
<1>26. CASE UNCHANGED vars
  BY <1>26 DEF vars
<1> QED
  BY <1>1, <1>2, <1>3, <1>4, <1>5, <1>6, <1>7, <1>8, <1>9,
     <1>10, <1>11, <1>12, <1>13, <1>14, <1>15, <1>16, <1>17, <1>18,
     <1>19, <1>20, <1>21, <1>22, <1>23, <1>24, <1>25, <1>26
     DEF Next, Serving

\* What a step can do to the load of an address and to the requests past the gate:
\* a job is created, by one of those requests; a request passes, having found the
\* load below the limit; otherwise neither grows.
LEMMA LoadMoves ==
  ASSUME TypeInv, CreatorsQueue, [Next]_vars, NEW i \in Ips
  PROVE  \/ \E h \in PastTheGate(i), j \in Jobs : /\ PastTheGate(i)' = PastTheGate(i) \ {h}
                                                  /\ Load(i)' \subseteq Load(i) \cup {j}
         \/ Load(i)' \subseteq Load(i) /\ Cardinality(Load(i)) < PerIp
         \/ Load(i)' \subseteq Load(i) /\ PastTheGate(i)' \subseteq PastTheGate(i)
<1> DEFINE Bounded == 
         \/ \E h \in PastTheGate(i), j \in Jobs : /\ PastTheGate(i)' = PastTheGate(i) \ {h}
                                                  /\ Load(i)' \subseteq Load(i) \cup {j}
         \/ Load(i)' \subseteq Load(i) /\ Cardinality(Load(i)) < PerIp
         \/ Load(i)' \subseteq Load(i) /\ PastTheGate(i)' \subseteq PastTheGate(i)
\* A step that leaves the store alone and lets nobody past the gate.
<1>q. ASSUME UNCHANGED <<status, ipOf>>, PastTheGate(i)' \subseteq PastTheGate(i)
      PROVE  Bounded
  <2>1. Load(i)' = Load(i)
    BY <1>q DEF Load, Active
  <2> QED
    BY <1>q, <2>1
<1> USE DEF TypeInv, BooksTyped, StoreTypeOK, CreatorsQueue, At, Goto, storeVars, jobVars
<1> HIDE DEF Bounded
<1>1. ASSUME NEW h \in Handlers, NEW kind \in Kinds, NEW ip \in Ips, NEW key \in Keys,
            Arrive(h, kind, ip, key)
     PROVE  Bounded
  BY <1>1, <1>q DEF Arrive, PastTheGate
<1>2. ASSUME NEW h \in Handlers, Replay(h) PROVE Bounded
  BY <1>2, <1>q DEF Replay, Answer, PastTheGate
<1>3. ASSUME NEW h \in Handlers, MissCache(h) PROVE Bounded
  BY <1>3, <1>q DEF MissCache, PastTheGate
<1>4. ASSUME NEW h \in Handlers, Decline(h) PROVE Bounded
  BY <1>4, <1>q DEF Decline, Answer, PastTheGate
<1>5. ASSUME NEW h \in Handlers, NEW size \in {"instant", "queued"}, Classify(h, size)
     PROVE  Bounded
  BY <1>5, <1>q DEF Classify, Sized, PastTheGate
<1>6. ASSUME NEW h \in Handlers, CheckPending(h) PROVE Bounded
  BY <1>6, <1>q DEF CheckPending, Gate, Answer, PastTheGate
<1>7. ASSUME NEW h \in Handlers, CheckLoad(h) PROVE Bounded
  <2>1. UNCHANGED <<status, ipOf>>
    BY <1>7 DEF CheckLoad, Gate
  <2>2. Load(i)' = Load(i)
    BY <2>1 DEF Load, Active
  <2>3. CASE req[h].ip = i /\ Cardinality(Load(i)) < PerIp
    BY <2>2, <2>3 DEF Bounded
  <2>4. CASE ~ (req[h].ip = i /\ Cardinality(Load(i)) < PerIp)
    <3>1. PastTheGate(i)' \subseteq PastTheGate(i)
      BY <1>7, <2>4 DEF CheckLoad, Gate, Answer, PastTheGate
    <3> QED
      BY <2>1, <3>1, <1>q
  <2> QED
    BY <2>3, <2>4
<1>8. ASSUME NEW h \in Handlers, CheckDaily(h) PROVE Bounded
  BY <1>8, <1>q DEF CheckDaily, Gate, Answer, PastTheGate
<1>9. ASSUME NEW h \in Handlers, CreateAnonymousJob(h) PROVE Bounded
  <2>1. PICK j \in Unminted : CreateJob(j, "anonymous") /\ ipOf' = [ipOf EXCEPT ![j] = req[h].ip]
    BY <1>9 DEF CreateAnonymousJob
  <2>2. /\ j \in Jobs /\ status[j] = "new"
        /\ \A k \in Jobs \ {j} : status'[k] = status[k] /\ ipOf'[k] = ipOf[k]
        /\ ipOf'[j] = req[h].ip
    BY <2>1 DEF CreateJob, Unminted
  <2>3. at[h] = "creating" /\ req[h].size # "instant"
    BY <1>9 DEF CreateAnonymousJob
  <2>4. at' = [at EXCEPT ![h] = "free"] /\ req' = [req EXCEPT ![h] = NoRequest]
    BY <1>9 DEF CreateAnonymousJob, Answer
  <2>5. PastTheGate(i)' = PastTheGate(i) \ {h}
    BY <2>4 DEF PastTheGate
  <2>6. CASE req[h].ip = i
    <3>1. h \in PastTheGate(i)
      BY <2>3, <2>6 DEF PastTheGate
    <3>2. Load(i)' \subseteq Load(i) \cup {j}
      BY <2>2 DEF Load, Active
    <3> QED
      BY <2>2, <2>5, <3>1, <3>2 DEF Bounded
  <2>7. CASE req[h].ip # i
    <3>1. Load(i)' \subseteq Load(i)
      BY <2>2, <2>7 DEF Load, Active
    <3> QED
      BY <2>5, <3>1 DEF Bounded
  <2> QED
    BY <2>6, <2>7
<1>10. ASSUME NEW h \in Handlers, EnterLimiter(h) PROVE Bounded
  BY <1>10, <1>q DEF EnterLimiter, PastTheGate
<1>11. ASSUME NEW h \in Handlers, LeaveLimiter(h) PROVE Bounded
  BY <1>11, <1>q DEF LeaveLimiter, Answer, PastTheGate
<1>12. ASSUME NEW h \in Handlers, ReserveSlot(h) PROVE Bounded
  BY <1>12, <1>q DEF ReserveSlot, Answer, PastTheGate
<1>13. ASSUME NEW h \in Handlers, MakeDir(h) PROVE Bounded
  BY <1>13, <1>q DEF MakeDir, Returns, PastTheGate
<1>14. ASSUME NEW h \in Handlers, Spawn(h) PROVE Bounded
  BY <1>14, <1>q DEF Spawn, Returns, PastTheGate
<1>15. ASSUME NEW h \in Handlers, JoinEnds(h) PROVE Bounded
  BY <1>15, <1>q DEF JoinEnds, Alive, PastTheGate
<1>16. ASSUME NEW h \in Handlers, WallPasses(h) PROVE Bounded
  BY <1>16, <1>q DEF WallPasses, Returns, PastTheGate
<1>17. ASSUME NEW h \in Handlers, GraceEnds(h) PROVE Bounded
  BY <1>17, <1>q DEF GraceEnds, PastTheGate
<1>18. ASSUME NEW h \in Handlers, TermIgnored(h) PROVE Bounded
  BY <1>18, <1>q DEF TermIgnored, PastTheGate
<1>19. ASSUME NEW h \in Handlers, ReadResult(h) PROVE Bounded
  BY <1>19, <1>q DEF ReadResult, Returns, PastTheGate
<1>20. ASSUME NEW h \in Handlers, RemoveDir(h) PROVE Bounded
  BY <1>20, <1>q DEF RemoveDir, PastTheGate
<1>21. ASSUME NEW h \in Handlers, ReleaseSlot(h) PROVE Bounded
  BY <1>21, <1>q DEF ReleaseSlot, PastTheGate
<1>22. ASSUME NEW h \in Handlers, UseResult(h) PROVE Bounded
  BY <1>22, <1>q DEF UseResult, Sized, Answer, Returns, PastTheGate
<1>23. ASSUME NEW h \in Handlers, KidComputes(h) \/ KidTerminates(h) PROVE Bounded
  BY <1>23, <1>q DEF KidComputes, KidTerminates, PastTheGate
<1>24. ASSUME FleetStep, UNCHANGED <<req, windowVars, kidVars, ipOf>> PROVE Bounded
  <2>1. UNCHANGED <<at, req>> /\ ipOf' = ipOf
    BY <1>24 DEF FleetStep, WorkerClaims, WorkerEnds, WorkerRecords, WorkerForgets, FleetRestarts
  <2>2. PastTheGate(i)' = PastTheGate(i)
    BY <2>1 DEF PastTheGate
  <2>3. \A j \in Jobs : status'[j] \in {"pending", "running"}
                          => status[j] \in {"pending", "running"}
    <3>1. ASSUME NEW j \in Jobs, WorkerClaims(j)
          PROVE  status' = [status EXCEPT ![j] = "running"] /\ status[j] = "pending"
      BY <3>1 DEF WorkerClaims, ClaimNext, Oldest, Eligible
    <3>2. ASSUME NEW j \in Jobs, WorkerEnds(j)
          PROVE  \E v \in {"done", "failed"} : status' = [status EXCEPT ![j] = v]
      BY <3>2 DEF WorkerEnds, MarkDone, MarkFailed
    <3>3. ASSUME NEW j \in Jobs, WorkerRecords(j) \/ WorkerForgets(j) PROVE status' = status
      BY <3>3 DEF WorkerRecords, WorkerForgets, ClearEmail
    <3>4. CASE FleetRestarts
      BY <3>4 DEF FleetRestarts, RequeueStaleRunning
    <3> QED
      BY <1>24, <3>1, <3>2, <3>3, <3>4 DEF FleetStep
  <2>4. Load(i)' \subseteq Load(i)
    BY <2>1, <2>3 DEF Load, Active
  <2> QED
    BY <2>2, <2>4 DEF Bounded
<1>25. CASE MonoTick /\ UNCHANGED <<storeVars, at, req, kidVars, ipOf>>
  <2>1. UNCHANGED <<at, req, status, ipOf>>
    BY <1>25
  <2>2. PastTheGate(i)' \subseteq PastTheGate(i)
    BY <2>1 DEF PastTheGate
  <2>3. UNCHANGED <<status, ipOf>>
    BY <2>1
  <2> QED
    BY <2>2, <2>3, <1>q DEF Bounded
<1>26. CASE UNCHANGED vars
  <2>1. UNCHANGED <<at, req, status, ipOf>>
    BY <1>26 DEF vars
  <2>2. PastTheGate(i)' \subseteq PastTheGate(i)
    BY <2>1 DEF PastTheGate
  <2>3. UNCHANGED <<status, ipOf>>
    BY <2>1
  <2> QED
    BY <2>2, <2>3, <1>q DEF Bounded
<1> QED
  BY <1>1, <1>2, <1>3, <1>4, <1>5, <1>6, <1>7, <1>8, <1>9,
     <1>10, <1>11, <1>12, <1>13, <1>14, <1>15, <1>16, <1>17, <1>18,
     <1>19, <1>20, <1>21, <1>22, <1>23, <1>24, <1>25, <1>26
     DEF Next, Serving, Bounded

LEMMA LoadStep == TypeInv /\ CreatorsQueue /\ LoadIsBounded /\ [Next]_vars => LoadIsBounded'
<1> SUFFICES ASSUME TypeInv, CreatorsQueue, LoadIsBounded, [Next]_vars, NEW i \in Ips
             PROVE  Cardinality(Load(i)') + Cardinality(PastTheGate(i)')
                      <= PerIp + Cardinality(Handlers) - 1
  BY DEF LoadIsBounded, Load, PastTheGate
<1>1. Cardinality(Load(i)) + Cardinality(PastTheGate(i)) <= PerIp + Cardinality(Handlers) - 1
  BY DEF LoadIsBounded
<1>2. /\ IsFiniteSet(Load(i)) /\ Cardinality(Load(i)) \in Nat
      /\ IsFiniteSet(Load(i)') /\ Cardinality(Load(i)') \in Nat
  <2>1. Load(i) \in SUBSET Jobs /\ Load(i)' \in SUBSET Jobs
    BY DEF Load
  <2> QED
    BY <2>1, PoolAssumption, FS_Subset, FS_CardinalityType
<1>3. /\ IsFiniteSet(PastTheGate(i)) /\ Cardinality(PastTheGate(i)) \in Nat
      /\ IsFiniteSet(PastTheGate(i)') /\ Cardinality(PastTheGate(i)') \in Nat
      /\ Cardinality(PastTheGate(i)') <= Cardinality(Handlers)
  <2>1. PastTheGate(i) \in SUBSET Handlers /\ PastTheGate(i)' \in SUBSET Handlers
    BY DEF PastTheGate
  <2> QED
    BY <2>1, PoolAssumption, FS_Subset, FS_CardinalityType
<1>4. PerIp \in Nat /\ Cardinality(Handlers) \in Nat
  BY ApiAssumption, PoolAssumption, FS_CardinalityType
<1>5. ASSUME NEW h \in PastTheGate(i), NEW j \in Jobs,
             PastTheGate(i)' = PastTheGate(i) \ {h}, Load(i)' \subseteq Load(i) \cup {j}
      PROVE  Cardinality(Load(i)') + Cardinality(PastTheGate(i)')
               <= PerIp + Cardinality(Handlers) - 1
  <2>1. /\ IsFiniteSet(Load(i) \cup {j})
        /\ Cardinality(Load(i) \cup {j})
             = IF j \in Load(i) THEN Cardinality(Load(i)) ELSE Cardinality(Load(i)) + 1
    BY <1>2, FS_AddElement
  <2>2. Cardinality(Load(i)') <= Cardinality(Load(i) \cup {j})
    BY <1>5, <2>1, FS_Subset
  <2>3. Cardinality(PastTheGate(i)') = Cardinality(PastTheGate(i)) - 1
    BY <1>3, <1>5, FS_RemoveElement
  <2> QED
    BY <1>1, <1>2, <1>3, <1>4, <2>1, <2>2, <2>3
<1>6. ASSUME Load(i)' \subseteq Load(i), Cardinality(Load(i)) < PerIp
      PROVE  Cardinality(Load(i)') + Cardinality(PastTheGate(i)')
               <= PerIp + Cardinality(Handlers) - 1
  <2>1. Cardinality(Load(i)') <= Cardinality(Load(i))
    BY <1>2, <1>6, FS_Subset
  <2> QED
    BY <1>2, <1>3, <1>4, <1>6, <2>1
<1>7. ASSUME Load(i)' \subseteq Load(i), PastTheGate(i)' \subseteq PastTheGate(i)
      PROVE  Cardinality(Load(i)') + Cardinality(PastTheGate(i)')
               <= PerIp + Cardinality(Handlers) - 1
  <2>1. /\ Cardinality(Load(i)') <= Cardinality(Load(i))
        /\ Cardinality(PastTheGate(i)') <= Cardinality(PastTheGate(i))
    BY <1>2, <1>3, <1>7, FS_Subset
  <2> QED
    BY <1>1, <1>2, <1>3, <1>4, <2>1
<1> QED
  BY <1>5, <1>6, <1>7, LoadMoves

-----------------------------------------------------------------------------
(* The rate.  The deque is what is left of the stamps admitted.  For a window  *)
(* that ends at t, either nothing of it was dropped yet, and the deque bounds  *)
(* it; or a thread with a stamp after t has come to the lock, and only those   *)
(* who read the clock before are still let into that window.                   *)

Gone(i)    == Len(admits[i]) - Len(hits[i])
Early(i, t) == {h \in Handlers : asking[h] = i /\ now[h] <= t}

DequeIsRest ==
    \A i \in Ips : /\ Gone(i) \in Nat
                   /\ Len(hits[i]) <= RateMax
                   /\ \A n \in 1..Len(hits[i]) : hits[i][n] = admits[i][n + Gone(i)]

WindowKept(i, t)   == \A n \in 1..Gone(i) : admits[i][n] <= t - Window
WindowPassed(i, t) ==
    /\ t < mono
    /\ Cardinality(InWindow(i, t)) + Cardinality(Early(i, t)) <= RateMax + Cardinality(Handlers) - 1

RateInv ==
    /\ DequeIsRest
    /\ \A h \in Handlers : now[h] <= mono
    /\ \A i \in Ips, t \in Nat : WindowKept(i, t) \/ WindowPassed(i, t)

LEMMA SetsFinite ==
  ASSUME LimiterTypeOK, NEW i \in Ips, NEW t \in Nat
  PROVE  /\ IsFiniteSet(InWindow(i, t)) /\ Cardinality(InWindow(i, t)) \in Nat
         /\ IsFiniteSet(Early(i, t)) /\ Cardinality(Early(i, t)) \in Nat
<1>1. Len(admits[i]) \in Nat /\ DOMAIN admits[i] = 1..Len(admits[i])
  BY DEF LimiterTypeOK
<1>2. IsFiniteSet(DOMAIN admits[i])
  BY <1>1, FS_Interval
<1>3. InWindow(i, t) \subseteq DOMAIN admits[i] /\ Early(i, t) \subseteq Handlers
  BY DEF InWindow, Early
<1> QED
  BY <1>2, <1>3, PoolAssumption, FS_Subset, FS_CardinalityType

\* The last k places of a sequence of length m.
LEMMA IntervalOfRest ==
  ASSUME NEW g \in Nat, NEW m \in Nat, NEW k \in Nat, g = m - k
  PROVE  IsFiniteSet((g + 1)..m) /\ Cardinality((g + 1)..m) = k
<1>1. /\ IsFiniteSet((g + 1)..m)
      /\ Cardinality((g + 1)..m) = IF g + 1 > m THEN 0 ELSE m - (g + 1) + 1
  <2>1. g + 1 \in Int /\ m \in Int
    OBVIOUS
  <2> QED
    BY <2>1, FS_Interval
<1>2. (IF g + 1 > m THEN 0 ELSE m - (g + 1) + 1) = k
  OBVIOUS
<1> QED
  BY <1>1, <1>2

\* A window of which nothing was dropped holds at most RateMax stamps.
LEMMA KeptIsSmall ==
  ASSUME LimiterTypeOK, DequeIsRest, NEW i \in Ips, NEW t \in Nat, WindowKept(i, t)
  PROVE  Cardinality(InWindow(i, t)) <= RateMax
<1> DEFINE rest == (Gone(i) + 1)..Len(admits[i])
<1>1. /\ Len(admits[i]) \in Nat /\ Len(hits[i]) \in Nat /\ Gone(i) \in Nat
      /\ DOMAIN admits[i] = 1..Len(admits[i])
      /\ \A n \in DOMAIN admits[i] : admits[i][n] \in Nat
  BY DEF LimiterTypeOK, DequeIsRest
<1>2. InWindow(i, t) \subseteq rest
  <2> SUFFICES ASSUME NEW n \in InWindow(i, t) PROVE n \in rest
    OBVIOUS
  <2>1. n \in 1..Len(admits[i]) /\ t - Window < admits[i][n] /\ admits[i][n] \in Nat
    BY <1>1 DEF InWindow
  <2>2. n \notin 1..Gone(i)
    BY <2>1, ApiAssumption DEF WindowKept
  <2> QED
    BY <1>1, <2>1, <2>2
<1>3. IsFiniteSet(rest) /\ Cardinality(rest) = Len(hits[i])
  <2>1. Gone(i) = Len(admits[i]) - Len(hits[i])
    BY DEF Gone
  <2> QED
    BY <1>1, <2>1, IntervalOfRest
<1>4. Cardinality(InWindow(i, t)) <= Cardinality(rest)
  BY <1>2, <1>3, FS_Subset
<1>5. Len(hits[i]) <= RateMax
  BY DEF DequeIsRest
<1>6. Cardinality(InWindow(i, t)) \in Nat /\ RateMax \in Nat
  BY SetsFinite, ApiAssumption
<1> HIDE DEF rest
<1> QED
  BY <1>1, <1>3, <1>4, <1>5, <1>6

LEMMA RateInit == LimiterInit => RateInv
<1> SUFFICES ASSUME LimiterInit PROVE RateInv
  OBVIOUS
<1>1. \A i \in Ips : admits[i] = <<>> /\ hits[i] = <<>>
  BY DEF LimiterInit
<1>2. \A i \in Ips : Gone(i) = 0 /\ Len(hits[i]) = 0
  BY <1>1 DEF Gone
<1> QED
  BY <1>2, ApiAssumption DEF LimiterInit, RateInv, DequeIsRest, WindowKept

LEMMA RateAsk ==
  ASSUME LimiterTypeOK, RateInv, NEW h \in Handlers, NEW ip \in Ips \cup {NoIp}, Ask(h, ip)
  PROVE  RateInv'
<1>1. /\ UNCHANGED <<mono, hits, admits>>
      /\ asking[h] = NoIp /\ asking' = [asking EXCEPT ![h] = ip]
      /\ now' = [now EXCEPT ![h] = mono]
  BY DEF Ask
<1>2. mono \in Nat /\ now \in [Handlers -> Nat] /\ asking \in [Handlers -> Ips \cup {NoIp}]
  BY DEF LimiterTypeOK
<1>3. DequeIsRest'
  BY <1>1 DEF RateInv, DequeIsRest, Gone
<1>4. \A g \in Handlers : now'[g] <= mono'
  BY <1>1, <1>2 DEF RateInv
<1>5. ASSUME NEW i \in Ips, NEW t \in Nat PROVE WindowKept(i, t)' \/ WindowPassed(i, t)'
  <2>1. CASE WindowKept(i, t)
    BY <1>1, <2>1 DEF WindowKept, Gone
  <2>2. CASE WindowPassed(i, t)
    <3>1. InWindow(i, t)' = InWindow(i, t)
      BY <1>1 DEF InWindow
    <3>2. Early(i, t)' = Early(i, t)
      BY <1>1, <1>2, <2>2, ApiAssumption DEF Early, WindowPassed
    <3> QED
      BY <1>1, <2>2, <3>1, <3>2 DEF WindowPassed
  <2> QED
    BY <2>1, <2>2 DEF RateInv
<1> QED
  BY <1>3, <1>4, <1>5 DEF RateInv

\* What a decision does to the address it is about: the deque loses `f' stamps that
\* are out of the thread's window, and gains the thread's own if it is admitted.
LEMMA DecisionEffect ==
  ASSUME LimiterTypeOK, DequeIsRest, NEW h \in Handlers, Decided(h), Admit(h) \/ Throttle(h),
         NEW i \in Ips, i = asking[h]
  PROVE  /\ DequeIsRest'
         /\ \A n \in 1..Len(admits[i]) : admits'[i][n] = admits[i][n]
         /\ \A n \in 1..Gone(i)' : n \in 1..Len(admits[i])
         /\ \A n \in 1..Gone(i)' : n \notin 1..Gone(i) => admits[i][n] <= now[h] - Window
         /\ \/ Len(admits'[i]) = Len(admits[i])
            \/ Len(admits'[i]) = Len(admits[i]) + 1 /\ admits'[i][Len(admits[i]) + 1] = now[h]
         /\ \A k \in Ips \ {i} : hits'[k] = hits[k] /\ admits'[k] = admits[k]
<1>1. /\ now[h] \in Nat /\ hits \in [Ips -> Seq(Nat)] /\ admits \in [Ips -> Seq(Nat)]
      /\ hits[i] \in Seq(Nat) /\ admits[i] \in Seq(Nat)
      /\ Len(hits[i]) \in Nat /\ Len(admits[i]) \in Nat
  BY DEF LimiterTypeOK
<1>2. now[h] - Window \in Int /\ RateMax \in Nat \ {0}
  BY <1>1, ApiAssumption
<1>a. Seen(h) = Fresh(hits[i], now[h] - Window)
  BY DEF Seen
<1>3. PICK f \in 0..Len(hits[i]) :
        /\ Seen(h) \in Seq(Nat) /\ Len(Seen(h)) = Len(hits[i]) - f
        /\ \A n \in 1..Len(Seen(h)) : Seen(h)[n] = hits[i][n + f]
        /\ \A n \in 1..f : hits[i][n] <= now[h] - Window
  <2>1. \E f \in 0..Len(hits[i]) :
          /\ Fresh(hits[i], now[h] - Window) \in Seq(Nat)
          /\ Len(Fresh(hits[i], now[h] - Window)) = Len(hits[i]) - f
          /\ \A n \in 1..Len(Fresh(hits[i], now[h] - Window)) :
                Fresh(hits[i], now[h] - Window)[n] = hits[i][n + f]
          /\ \A n \in 1..f : hits[i][n] <= now[h] - Window
    BY <1>1, <1>2, FreshIsRest
  <2> QED
    BY <1>a, <2>1
<1>4. /\ Gone(i) \in Nat /\ Len(hits[i]) <= RateMax
      /\ \A n \in 1..Len(hits[i]) : hits[i][n] = admits[i][n + Gone(i)]
  BY DEF DequeIsRest
<1>b. Gone(i) = Len(admits[i]) - Len(hits[i])
  BY DEF Gone
<1>n. /\ f \in Nat /\ f <= Len(hits[i]) /\ Gone(i) \in Nat
      /\ Len(hits[i]) \in Nat /\ Len(admits[i]) \in Nat /\ Len(Seen(h)) \in Nat
      /\ Len(Seen(h)) = Len(hits[i]) - f /\ Len(admits[i]) = Gone(i) + Len(hits[i])
  <2>1. f \in Nat /\ f <= Len(hits[i]) /\ Len(Seen(h)) = Len(hits[i]) - f
    BY <1>1, <1>3
  <2>2. Gone(i) \in Nat
    BY <1>4
  <2> QED
    BY <1>1, <1>b, <2>1, <2>2
<1>5. \A n \in 1..(Gone(i) + f) : /\ n \in 1..Len(admits[i])
                                  /\ n \notin 1..Gone(i) => admits[i][n] <= now[h] - Window
  <2> SUFFICES ASSUME NEW n \in 1..(Gone(i) + f)
               PROVE  /\ n \in 1..Len(admits[i])
                      /\ n \notin 1..Gone(i) => admits[i][n] <= now[h] - Window
    OBVIOUS
  <2>1. n \in 1..Len(admits[i])
    BY <1>n
  <2>2. ASSUME n \notin 1..Gone(i) PROVE admits[i][n] <= now[h] - Window
    <3>1. n - Gone(i) \in 1..f /\ n - Gone(i) \in 1..Len(hits[i])
      BY <1>n, <2>2
    <3>2. (n - Gone(i)) + Gone(i) = n
      BY <1>4
    <3>3. hits[i][n - Gone(i)] = admits[i][n]
      BY <1>4, <3>1, <3>2
    <3> QED
      BY <1>3, <3>1, <3>3
  <2> QED
    BY <2>1, <2>2
<1>6. \A n \in 1..Len(Seen(h)) : Seen(h)[n] = admits[i][n + (Gone(i) + f)]
  <2> SUFFICES ASSUME NEW n \in 1..Len(Seen(h))
               PROVE  Seen(h)[n] = admits[i][n + (Gone(i) + f)]
    OBVIOUS
  <2>1. n + f \in 1..Len(hits[i]) /\ (n + f) + Gone(i) = n + (Gone(i) + f)
    BY <1>n
  <2>2. hits[i][n + f] = admits[i][(n + f) + Gone(i)]
    BY <1>4, <2>1
  <2> QED
    BY <1>3, <2>1, <2>2
<1>7. CASE Admit(h)
  <2>1. /\ ~Full(h)
        /\ hits' = [hits EXCEPT ![i] = Append(Seen(h), now[h])]
        /\ admits' = [admits EXCEPT ![i] = Append(admits[i], now[h])]
    BY <1>7 DEF Admit
  <2>2. /\ Len(hits'[i]) = Len(Seen(h)) + 1 /\ hits'[i][Len(Seen(h)) + 1] = now[h]
        /\ \A n \in 1..Len(Seen(h)) : hits'[i][n] = Seen(h)[n]
    <3>1. /\ Seen(h) \in Seq(Nat) /\ now[h] \in Nat /\ i \in DOMAIN hits
      BY <1>1, <1>3
    <3>2. hits'[i] = Append(Seen(h), now[h])
      BY <2>1, <3>1
    <3> QED
      BY <3>1, <3>2, AppendProperties
  <2>3. /\ Len(admits'[i]) = Len(admits[i]) + 1 /\ admits'[i][Len(admits[i]) + 1] = now[h]
        /\ \A n \in 1..Len(admits[i]) : admits'[i][n] = admits[i][n]
    <3>1. /\ admits[i] \in Seq(Nat) /\ now[h] \in Nat /\ i \in DOMAIN admits
      BY <1>1, <1>3
    <3>2. admits'[i] = Append(admits[i], now[h])
      BY <2>1, <3>1
    <3> QED
      BY <3>1, <3>2, AppendProperties
  <2>4. Gone(i)' = Gone(i) + f
    <3>1. Gone(i)' = Len(admits'[i]) - Len(hits'[i])
      BY DEF Gone
    <3>2. Gone(i)' = (Len(admits[i]) + 1) - (Len(Seen(h)) + 1)
      BY <2>2, <2>3, <3>1
    <3> QED
      BY <1>n, <3>2
  <2>5. \A k \in Ips \ {i} : hits'[k] = hits[k] /\ admits'[k] = admits[k]
    BY <1>1, <2>1
  <2>6. Len(hits'[i]) <= RateMax
    <3>1. ~ (Len(Seen(h)) >= RateMax)
      BY <2>1 DEF Full
    <3> QED
      BY <1>2, <1>n, <2>2, <3>1
  <2>7. \A n \in 1..Len(hits'[i]) : hits'[i][n] = admits'[i][n + (Gone(i) + f)]
    <3> SUFFICES ASSUME NEW n \in 1..Len(hits'[i])
                 PROVE  hits'[i][n] = admits'[i][n + (Gone(i) + f)]
      OBVIOUS
    <3>1. CASE n \in 1..Len(Seen(h))
      <4>1. n + (Gone(i) + f) \in 1..Len(admits[i])
        BY <1>n, <3>1
      <4> QED
        BY <1>6, <2>2, <2>3, <3>1, <4>1
    <3>2. CASE n = Len(Seen(h)) + 1
      <4>1. n + (Gone(i) + f) = Len(admits[i]) + 1
        BY <1>n, <3>2
      <4> QED
        BY <2>2, <2>3, <3>2, <4>1
    <3>3. n \in 1..(Len(Seen(h)) + 1)
      BY <2>2
    <3> QED
      BY <1>n, <3>1, <3>2, <3>3
  <2>8. DequeIsRest'
    <3> SUFFICES ASSUME NEW k \in Ips
                 PROVE  /\ Gone(k)' \in Nat
                        /\ Len(hits'[k]) <= RateMax
                        /\ \A n \in 1..Len(hits'[k]) : hits'[k][n] = admits'[k][n + Gone(k)']
      BY DEF DequeIsRest
    <3>1. CASE k = i
      <4>1. Gone(i)' \in Nat
        BY <1>n, <2>4
      <4> QED
        BY <2>4, <2>6, <2>7, <3>1, <4>1
    <3>2. CASE k # i
      <4>1. hits'[k] = hits[k] /\ admits'[k] = admits[k]
        BY <2>5, <3>2
      <4>2. Gone(k)' = Gone(k)
        BY <4>1 DEF Gone
      <4> QED
        BY <4>1, <4>2 DEF DequeIsRest
    <3> QED
      BY <3>1, <3>2
  <2> QED
    BY <1>5, <2>3, <2>4, <2>5, <2>8
<1>8. CASE Throttle(h)
  <2>1. hits' = [hits EXCEPT ![i] = Seen(h)] /\ admits' = admits
    BY <1>8 DEF Throttle
  <2>2. hits'[i] = Seen(h) /\ \A k \in Ips \ {i} : hits'[k] = hits[k]
    BY <1>1, <2>1
  <2>3. Gone(i)' = Gone(i) + f
    <3>1. Gone(i)' = Len(admits[i]) - Len(Seen(h))
      BY <2>1, <2>2 DEF Gone
    <3> QED
      BY <1>n, <3>1
  <2>4. DequeIsRest'
    <3> SUFFICES ASSUME NEW k \in Ips
                 PROVE  /\ Gone(k)' \in Nat
                        /\ Len(hits'[k]) <= RateMax
                        /\ \A n \in 1..Len(hits'[k]) : hits'[k][n] = admits'[k][n + Gone(k)']
      BY DEF DequeIsRest
    <3>1. CASE k = i
      <4>1. Gone(i)' \in Nat
        BY <1>n, <2>3
      <4>2. Len(hits'[i]) <= RateMax
        BY <1>2, <1>4, <1>n, <2>2
      <4>3. \A n \in 1..Len(hits'[i]) : hits'[i][n] = admits'[i][n + Gone(i)']
        BY <1>6, <2>1, <2>2, <2>3
      <4> QED
        BY <3>1, <4>1, <4>2, <4>3
    <3>2. CASE k # i
      <4>1. hits'[k] = hits[k] /\ admits'[k] = admits[k]
        BY <2>1, <2>2, <3>2
      <4>2. Gone(k)' = Gone(k)
        BY <4>1 DEF Gone
      <4> QED
        BY <4>1, <4>2 DEF DequeIsRest
    <3> QED
      BY <3>1, <3>2
  <2> QED
    BY <1>5, <2>1, <2>2, <2>3, <2>4
<1> QED
  BY <1>7, <1>8

LEMMA RateDecision ==
  ASSUME LimiterTypeOK, RateInv, NEW h \in Handlers, Decided(h), Admit(h) \/ Throttle(h)
  PROVE  RateInv'
<1>0. asking[h] \in Ips
  BY DEF Decided, LimiterTypeOK
<1> SUFFICES ASSUME NEW a \in Ips, a = asking[h] PROVE RateInv'
  BY <1>0
<1>1. asking' = [asking EXCEPT ![h] = NoIp] /\ now' = [now EXCEPT ![h] = 0]
      /\ mono' = mono
  BY DEF Decided
<1>2. mono \in Nat /\ now \in [Handlers -> Nat] /\ asking \in [Handlers -> Ips \cup {NoIp}]
  BY DEF LimiterTypeOK
<1>3. /\ DequeIsRest'
      /\ \A n \in 1..Len(admits[a]) : admits'[a][n] = admits[a][n]
      /\ \A n \in 1..Gone(a)' : n \in 1..Len(admits[a])
      /\ \A n \in 1..Gone(a)' : n \notin 1..Gone(a) => admits[a][n] <= now[h] - Window
      /\ \/ Len(admits'[a]) = Len(admits[a])
         \/ Len(admits'[a]) = Len(admits[a]) + 1 /\ admits'[a][Len(admits[a]) + 1] = now[h]
      /\ \A k \in Ips \ {a} : hits'[k] = hits[k] /\ admits'[k] = admits[k]
  BY <1>1, DecisionEffect DEF RateInv
<1>4. LimiterTypeOK'
  BY DecisionTyped
<1>5. \A g \in Handlers : now'[g] <= mono'
  BY <1>1, <1>2 DEF RateInv
<1>6. ASSUME NEW i \in Ips \ {a}, NEW t \in Nat PROVE WindowKept(i, t)' \/ WindowPassed(i, t)'
  <2>1. InWindow(i, t)' = InWindow(i, t) /\ Gone(i)' = Gone(i)
    BY <1>3, <1>6 DEF InWindow, Gone
  <2>2. Early(i, t)' = Early(i, t)
    BY <1>1, <1>2, <1>6, ApiAssumption DEF Early
  <2>3. WindowKept(i, t)' = WindowKept(i, t)
    BY <1>3, <1>6, <2>1 DEF WindowKept
  <2>4. WindowPassed(i, t) => WindowPassed(i, t)'
    BY <1>1, <2>1, <2>2 DEF WindowPassed
  <2> QED
    BY <2>3, <2>4 DEF RateInv
<1>7. ASSUME NEW t \in Nat PROVE WindowKept(a, t)' \/ WindowPassed(a, t)'
  <2>a. /\ Len(admits[a]) \in Nat /\ DOMAIN admits[a] = 1..Len(admits[a])
        /\ Len(admits'[a]) \in Nat /\ DOMAIN admits'[a] = 1..Len(admits'[a])
        /\ \A n \in 1..Len(admits[a]) : admits[a][n] \in Nat
        /\ now[h] \in Nat /\ Window \in Nat /\ Gone(a) \in Nat
    <3>1. admits[a] \in Seq(Nat) /\ hits[a] \in Seq(Nat)
      BY DEF LimiterTypeOK
    <3>2. admits'[a] \in Seq(Nat)
      BY <1>4 DEF LimiterTypeOK
    <3>3. Gone(a) \in Nat
      BY DEF RateInv, DequeIsRest
    <3>4. now[h] \in Nat /\ Window \in Nat
      BY <1>2, ApiAssumption
    <3>5. Len(admits[a]) \in Nat /\ DOMAIN admits[a] = 1..Len(admits[a])
      BY <3>1
    <3>6. Len(admits'[a]) \in Nat /\ DOMAIN admits'[a] = 1..Len(admits'[a])
      BY <3>2
    <3>7. \A n \in 1..Len(admits[a]) : admits[a][n] \in Nat
      BY <3>1
    <3> QED
      BY <3>3, <3>4, <3>5, <3>6, <3>7
  <2>b. Early(a, t)' = Early(a, t) \ {h}
    BY <1>1, <1>2, ApiAssumption DEF Early
  <2>1. CASE WindowKept(a, t) /\ now[h] <= t
    <3> SUFFICES ASSUME NEW n \in 1..Gone(a)' PROVE admits'[a][n] <= t - Window
      BY DEF WindowKept
    <3>1. n \in 1..Len(admits[a]) /\ admits'[a][n] = admits[a][n] /\ admits[a][n] \in Nat
      BY <1>3, <2>a
    <3>2. CASE n \in 1..Gone(a)
      BY <2>1, <3>1, <3>2 DEF WindowKept
    <3>3. CASE n \notin 1..Gone(a)
      BY <1>3, <2>1, <2>a, <3>1, <3>3
    <3> QED
      BY <3>2, <3>3
  <2>2. CASE WindowKept(a, t) /\ ~ (now[h] <= t)
    <3>1. t < mono'
      BY <1>1, <1>2, <2>2, <2>a DEF RateInv
    <3>2. InWindow(a, t)' \subseteq InWindow(a, t)
      <4> SUFFICES ASSUME NEW n \in InWindow(a, t)' PROVE n \in InWindow(a, t)
        OBVIOUS
      <4>1. n \in 1..Len(admits'[a]) /\ t - Window < admits'[a][n] /\ admits'[a][n] <= t
        BY <2>a DEF InWindow
      <4>2. n # Len(admits[a]) + 1 \/ Len(admits'[a]) = Len(admits[a])
        BY <1>3, <2>2, <4>1
      <4>3. n \in 1..Len(admits[a])
        BY <1>3, <2>a, <4>1, <4>2
      <4> QED
        BY <1>3, <2>a, <4>1, <4>3 DEF InWindow
    <3>3. Cardinality(InWindow(a, t)) <= RateMax
      BY <1>1, <2>2, KeptIsSmall DEF RateInv
    <3>4. Cardinality(InWindow(a, t)') <= Cardinality(InWindow(a, t))
      BY <1>1, <3>2, SetsFinite, FS_Subset
    <3>5. Cardinality(Early(a, t)') <= Cardinality(Handlers) - 1
      <4>1. Early(a, t)' \subseteq Handlers \ {h}
        BY <2>b DEF Early
      <4>2. IsFiniteSet(Handlers \ {h}) /\ Cardinality(Handlers \ {h}) = Cardinality(Handlers) - 1
        BY PoolAssumption, FS_RemoveElement
      <4> QED
        BY <4>1, <4>2, FS_Subset
    <3>6. /\ Cardinality(InWindow(a, t)') \in Nat /\ Cardinality(Early(a, t)') \in Nat
          /\ Cardinality(InWindow(a, t)) \in Nat /\ Cardinality(Handlers) \in Nat
          /\ RateMax \in Nat
      <4>1. InWindow(a, t)' \subseteq InWindow(a, t) /\ Early(a, t)' \subseteq Handlers
        BY <3>2, <2>b DEF Early
      <4>2. IsFiniteSet(InWindow(a, t)) /\ IsFiniteSet(Handlers)
        BY <1>1, SetsFinite, PoolAssumption
      <4> QED
        BY <4>1, <4>2, ApiAssumption, FS_Subset, FS_CardinalityType
    <3> QED
      BY <3>1, <3>3, <3>4, <3>5, <3>6 DEF WindowPassed
  <2>3. CASE WindowPassed(a, t)
    <3>0. /\ IsFiniteSet(InWindow(a, t)) /\ Cardinality(InWindow(a, t)) \in Nat
          /\ IsFiniteSet(Early(a, t)) /\ Cardinality(Early(a, t)) \in Nat
          /\ RateMax \in Nat /\ Cardinality(Handlers) \in Nat
      BY <1>1, SetsFinite, PoolAssumption, FS_CardinalityType, ApiAssumption
    <3>1. CASE InWindow(a, t)' \subseteq InWindow(a, t)
      <4>1. /\ Cardinality(InWindow(a, t)') <= Cardinality(InWindow(a, t))
            /\ IsFiniteSet(InWindow(a, t)')
        BY <3>0, <3>1, FS_Subset
      <4>2. /\ Cardinality(Early(a, t)') <= Cardinality(Early(a, t))
            /\ IsFiniteSet(Early(a, t)')
        BY <3>0, <2>b, FS_Subset
      <4>3. Cardinality(InWindow(a, t)') \in Nat /\ Cardinality(Early(a, t)') \in Nat
        BY <4>1, <4>2, FS_CardinalityType
      <4> QED
        BY <1>1, <2>3, <3>0, <4>1, <4>2, <4>3 DEF WindowPassed
    <3>2. CASE ~ (InWindow(a, t)' \subseteq InWindow(a, t))
      <4> DEFINE top == Len(admits[a]) + 1
      <4>1. InWindow(a, t)' \subseteq InWindow(a, t) \cup {top} /\ now[h] <= t
        <5>1. ASSUME NEW n \in InWindow(a, t)', n \notin InWindow(a, t)
              PROVE  n = top /\ now[h] <= t
          <6>1. n \in 1..Len(admits'[a]) /\ t - Window < admits'[a][n] /\ admits'[a][n] <= t
            BY <2>a DEF InWindow
          <6>2. n \notin 1..Len(admits[a])
            BY <1>3, <2>a, <5>1, <6>1 DEF InWindow
          <6>3. n = top /\ Len(admits'[a]) = Len(admits[a]) + 1
            BY <1>3, <2>a, <6>1, <6>2
          <6> QED
            BY <1>3, <2>a, <6>1, <6>3
        <5> QED
          BY <3>2, <5>1
      <4>2. h \in Early(a, t)
        BY <1>1, <4>1 DEF Early
      <4>3. /\ IsFiniteSet(InWindow(a, t) \cup {top})
            /\ Cardinality(InWindow(a, t) \cup {top})
                 = IF top \in InWindow(a, t) THEN Cardinality(InWindow(a, t))
                                             ELSE Cardinality(InWindow(a, t)) + 1
        BY <3>0, FS_AddElement
      <4>4. /\ Cardinality(InWindow(a, t)') <= Cardinality(InWindow(a, t) \cup {top})
            /\ IsFiniteSet(InWindow(a, t)')
        BY <4>1, <4>3, FS_Subset
      <4>5. /\ Cardinality(Early(a, t) \ {h}) = Cardinality(Early(a, t)) - 1
            /\ IsFiniteSet(Early(a, t) \ {h})
        BY <3>0, <4>2, FS_RemoveElement
      <4>6. Cardinality(InWindow(a, t)') \in Nat /\ Cardinality(Early(a, t)') \in Nat
        BY <2>b, <4>4, <4>5, FS_CardinalityType
      <4>7. Cardinality(InWindow(a, t)') <= Cardinality(InWindow(a, t)) + 1
        BY <3>0, <4>3, <4>4, <4>6
      <4> QED
        BY <1>1, <2>3, <2>b, <3>0, <4>5, <4>6, <4>7 DEF WindowPassed
    <3> QED
      BY <3>1, <3>2
  <2> QED
    BY <1>1, <2>1, <2>2, <2>3 DEF RateInv
<1> QED
  BY <1>3, <1>5, <1>6, <1>7 DEF RateInv

LEMMA RateTick == ASSUME LimiterTypeOK, RateInv, MonoTick PROVE RateInv'
<1>1. mono' = mono + 1 /\ UNCHANGED <<asking, now, hits, admits>> /\ mono \in Nat
      /\ now \in [Handlers -> Nat]
  BY DEF MonoTick, LimiterTypeOK
<1>2. DequeIsRest'
  BY <1>1 DEF RateInv, DequeIsRest, Gone
<1>3. \A h \in Handlers : now'[h] <= mono'
  BY <1>1 DEF RateInv
<1>4. ASSUME NEW i \in Ips, NEW t \in Nat PROVE WindowKept(i, t)' \/ WindowPassed(i, t)'
  <2>1. CASE WindowKept(i, t)
    BY <1>1, <2>1 DEF WindowKept, Gone
  <2>2. CASE WindowPassed(i, t)
    <3>1. InWindow(i, t)' = InWindow(i, t) /\ Early(i, t)' = Early(i, t)
      BY <1>1 DEF InWindow, Early
    <3> QED
      BY <1>1, <2>2, <3>1 DEF WindowPassed
  <2> QED
    BY <2>1, <2>2 DEF RateInv
<1> QED
  BY <1>2, <1>3, <1>4 DEF RateInv

LEMMA RateIdle == ASSUME RateInv, UNCHANGED windowVars PROVE RateInv'
<1>1. UNCHANGED <<mono, asking, now, hits, admits>>
  BY DEF windowVars
<1>2. \A i \in Ips, t \in Nat : /\ InWindow(i, t)' = InWindow(i, t)
                                /\ Early(i, t)' = Early(i, t) /\ Gone(i)' = Gone(i)
  BY <1>1 DEF InWindow, Early, Gone
<1>3. DequeIsRest'
  BY <1>1, <1>2 DEF RateInv, DequeIsRest, Gone
<1>4. ASSUME NEW i \in Ips, NEW t \in Nat PROVE WindowKept(i, t)' \/ WindowPassed(i, t)'
  <2>1. CASE WindowKept(i, t)
    BY <1>1, <2>1 DEF WindowKept, Gone
  <2>2. CASE WindowPassed(i, t)
    BY <1>1, <1>2, <2>2 DEF WindowPassed
  <2> QED
    BY <2>1, <2>2 DEF RateInv
<1> QED
  BY <1>1, <1>3, <1>4 DEF RateInv

LEMMA RateStep == TypeInv /\ RateInv /\ [Next]_vars => RateInv'
<1> SUFFICES ASSUME TypeInv, RateInv, [Next]_vars PROVE RateInv'
  OBVIOUS
<1>1. LimiterMove
  BY LimiterMoves DEF TypeInv, BooksTyped
<1> QED
  BY <1>1, RateAsk, RateDecision, RateTick, RateIdle DEF LimiterMove, TypeInv

LEMMA RateBound == LimiterTypeOK /\ RateInv => RateIsBounded
<1> SUFFICES ASSUME LimiterTypeOK, RateInv, NEW i \in Ips, NEW t \in 0..MaxMono
             PROVE  Cardinality(InWindow(i, t)) <= RateMax + Cardinality(Handlers) - 1
  BY DEF RateIsBounded
<1>1. t \in Nat
  BY ApiAssumption
<1>2. /\ RateMax \in Nat /\ Cardinality(Handlers) \in Nat /\ Cardinality(Handlers) # 0
      /\ Cardinality(InWindow(i, t)) \in Nat /\ Cardinality(Early(i, t)) \in Nat
  BY <1>1, ApiAssumption, PoolAssumption, SetsFinite, FS_CardinalityType, FS_EmptySet
<1>3. CASE WindowKept(i, t)
  <2>1. Cardinality(InWindow(i, t)) <= RateMax
    BY <1>1, <1>3, KeptIsSmall DEF RateInv
  <2> QED
    BY <1>2, <2>1
<1>4. CASE WindowPassed(i, t)
  BY <1>2, <1>4 DEF WindowPassed
<1> QED
  BY <1>1, <1>3, <1>4 DEF RateInv

-----------------------------------------------------------------------------
(* The theorems. *)

ApiInv == /\ TypeInv /\ SlotsAreHeld /\ DirsAreHeld /\ CreatorsQueue /\ LoadIsBounded
          /\ RateInv

LEMMA ApiInit == Init => ApiInv
<1> SUFFICES ASSUME Init PROVE ApiInv
  OBVIOUS
<1>1. Holders = {} /\ inflight = 0
  BY DEF Init, WebInit, Holders, HoldingPlaces
<1>2. SlotsAreHeld
  BY <1>1, ApiAssumption, FS_EmptySet DEF SlotsAreHeld, Holders
<1>3. DirsAreHeld /\ CreatorsQueue
  BY DEF Init, WebInit, DirsAreHeld, NothingLeftBehind, CreatorsQueue, Alive
<1>4. ASSUME NEW i \in Ips
      PROVE  Cardinality(Load(i)) + Cardinality(PastTheGate(i))
               <= PerIp + Cardinality(Handlers) - 1
  <2>1. Load(i) = {} /\ PastTheGate(i) = {}
    BY DEF Init, WebInit, StoreInit, Load, Active, PastTheGate
  <2>2. Cardinality({}) = 0
    BY FS_EmptySet
  <2>3. PerIp \in Nat /\ Cardinality(Handlers) \in Nat /\ Cardinality(Handlers) # 0
    BY ApiAssumption, PoolAssumption, FS_CardinalityType, FS_EmptySet
  <2> QED
    BY <2>1, <2>2, <2>3
<1> QED
  BY <1>2, <1>3, <1>4, TypeInit, RateInit DEF ApiInv, LoadIsBounded, Init

LEMMA Invariance == Spec => []ApiInv
<1>1. ApiInv /\ [Next]_vars => ApiInv'
  BY TypeStep, SlotsStep, DirsStep, CreatorsStep, LoadStep, RateStep DEF ApiInv
<1> QED
  BY <1>1, ApiInit, PTL DEF Spec

\* Every variable of the request handlers keeps its type; the slot counter is
\* never negative and the deques hold stamps.
THEOREM TypeCorrect == Spec => []TypeOK
<1>1. ApiInv => TypeOK
  <2> SUFFICES ASSUME ApiInv PROVE TypeOK
    OBVIOUS
  <2>1. inflight = Cardinality(Holders)
    BY DEF ApiInv, SlotsAreHeld, Holders
  <2>2. inflight \in Nat
    BY <2>1, HoldersFinite
  <2> QED
    BY <2>2 DEF ApiInv, TypeInv, BooksTyped, TypeOK, Requests
<1> QED
  BY <1>1, Invariance, PTL

\* The counter of instant slots is the number of requests inside run_with_timeout,
\* and never above the ceiling: none is lost on an error path (instant.py:48).
THEOREM SlotsBalance == Spec => []SlotsAreHeld
<1>1. ApiInv => SlotsAreHeld
  BY DEF ApiInv
<1> QED
  BY <1>1, Invariance, PTL

\* No instant child and no directory outlives its request (instant.py:186).
THEOREM RequestsCleanUp == Spec => []NothingLeftBehind
<1>1. ApiInv => NothingLeftBehind
  BY DEF ApiInv, DirsAreHeld
<1> QED
  BY <1>1, Invariance, PTL

\* Racing requests exceed the limit of live jobs of an address by at most one for
\* each other handler (limits.py:16, app.py:262).
THEOREM OvershootIsBounded == Spec => []LoadIsBounded
<1>1. ApiInv => LoadIsBounded
  BY DEF ApiInv
<1> QED
  BY <1>1, Invariance, PTL

\* In every window an address is admitted at most RateMax times, and once more for
\* each other thread that read the clock before it came to the lock (instant.py:98).
THEOREM WindowIsBounded == Spec => []RateIsBounded
<1>1. ApiInv => RateIsBounded
  BY RateBound DEF ApiInv, TypeInv
<1> QED
  BY <1>1, Invariance, PTL
=============================================================================
