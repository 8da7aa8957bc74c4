------------------------------ MODULE LinkProofs ------------------------------
(***************************************************************************)
(* Proofs about MagicLink, for any number of handlers, links and jobs and  *)
(* every setting of the caps, the time to live and the clock.              *)
(***************************************************************************)
EXTENDS MagicLink, FiniteSetTheorems, TLAPS

-----------------------------------------------------------------------------
(* Types. *)

LinkTypeOK ==
    /\ at       \in [Handlers -> Places]
    /\ started  \in SUBSET Jobs
    /\ link     \in [Links -> LinkStates]
    /\ asked    \in [Links -> Nat]
    /\ expires  \in [Links -> Int]
    /\ mailed   \in SUBSET Links
    /\ hand     \in [Handlers -> Links \cup {NoLink}]
    /\ from     \in [Jobs -> Links \cup {NoLink}]
    /\ crashes  \in Nat

\* A handler has a link in hand exactly while it is not free.
Busy == \A h \in Handlers : IF at[h] = "free" THEN hand[h] = NoLink ELSE hand[h] \in Links

TypeInv == StoreTypeOK /\ LinkTypeOK /\ Busy

LEMMA TypeInit == Init => TypeInv
<1> SUFFICES ASSUME Init PROVE TypeInv
  OBVIOUS
<1>1. StoreTypeOK
  BY StoreAssumption DEF Init, WebInit, StoreInit, StoreTypeOK, Statuses, Tiers, Errors, Null
<1>2. LinkTypeOK /\ Busy
  BY DEF Init, WebInit, LinkTypeOK, Busy, Places, LinkStates, Null
<1> QED
  BY <1>1, <1>2 DEF TypeInv

LEMMA StoreStep == StoreTypeOK /\ [Next]_vars => StoreTypeOK'
<1> SUFFICES ASSUME StoreTypeOK, [Next]_vars PROVE StoreTypeOK'
  OBVIOUS
<1> USE DEF StoreTypeOK, storeVars, jobVars
<1>1. ASSUME NEW h \in Handlers, Submit(h) PROVE StoreTypeOK'
  <2>1. CASE Decline(h) \/ Size(h)
    BY <2>1 DEF Decline, Size, Miss
  <2>2. CASE ~(Decline(h) \/ Size(h))
    BY <1>1, <2>2 DEF Submit, Request, Replay, CheckRunningCap, CheckWeeklyCap,
         CreatePendingBig, SignToken, SendLink, SendFails, DropRequest
  <2> QED
    BY <2>1, <2>2
<1>2. ASSUME NEW h \in Handlers, CreateBigJob(h) PROVE StoreTypeOK'
  BY <1>2 DEF CreateBigJob, CreateJob, Unminted, Statuses, Tiers
<1>3. ASSUME NEW h \in Handlers, Verify(h), ~CreateBigJob(h) PROVE StoreTypeOK'
  BY <1>3 DEF Verify, Click, VerifyToken, CheckQueue, Consume
<1>4. CASE Tick
  BY <1>4 DEF Tick
<1>5. CASE SweepLinks \/ ServerCrashes \/ UNCHANGED vars
  BY <1>5 DEF SweepLinks, ServerCrashes, vars
<1>6. ASSUME NEW j \in Jobs, WorkerClaims(j) PROVE StoreTypeOK'
  BY <1>6 DEF WorkerClaims, ClaimNext, Statuses
<1>7. ASSUME NEW j \in Jobs, WorkerEnds(j) PROVE StoreTypeOK'
  BY <1>7 DEF WorkerEnds, MarkDone, MarkFailed, Statuses, Errors
<1>8. ASSUME NEW j \in Jobs, WorkerRecords(j) PROVE StoreTypeOK'
  BY <1>8 DEF WorkerRecords, CachePut
<1>9. ASSUME NEW j \in Jobs, WorkerForgets(j) PROVE StoreTypeOK'
  BY <1>9 DEF WorkerForgets, ClearEmail
<1>10. CASE FleetRestarts
  BY <1>10 DEF FleetRestarts, RequeueStaleRunning, Statuses
<1> QED
  BY <1>1, <1>2, <1>3, <1>4, <1>5, <1>6, <1>7, <1>8, <1>9, <1>10
     DEF Next, FleetMoves, FleetStep

LEMMA LinkStep == TypeInv /\ [Next]_vars => LinkTypeOK' /\ Busy'
<1> SUFFICES ASSUME TypeInv, [Next]_vars PROVE LinkTypeOK' /\ Busy'
  OBVIOUS
<1> USE LinkAssumption DEF TypeInv, LinkTypeOK, Busy, Places, LinkStates, At, Goto, Take, Answer
<1>0. clock \in Nat
  BY DEF StoreTypeOK
<1>1. ASSUME NEW h \in Handlers, NEW l \in Links, Request(h, l) PROVE LinkTypeOK' /\ Busy'
  BY <1>1 DEF Request
<1>2. ASSUME NEW h \in Handlers, Replay(h) \/ Decline(h) PROVE LinkTypeOK' /\ Busy'
  BY <1>2 DEF Replay, Decline
<1>3. ASSUME NEW h \in Handlers, Size(h) PROVE LinkTypeOK' /\ Busy'
  BY <1>3 DEF Size, linkVars
<1>4. ASSUME NEW h \in Handlers, CheckRunningCap(h) \/ CheckWeeklyCap(h)
      PROVE LinkTypeOK' /\ Busy'
  BY <1>4 DEF CheckRunningCap, CheckWeeklyCap
<1>5. ASSUME NEW h \in Handlers, CreatePendingBig(h) PROVE LinkTypeOK' /\ Busy'
  BY <1>0, <1>5 DEF CreatePendingBig
<1>6. ASSUME NEW h \in Handlers, SignToken(h) PROVE LinkTypeOK' /\ Busy'
  BY <1>0, <1>6 DEF SignToken
<1>7. ASSUME NEW h \in Handlers, SendLink(h) PROVE LinkTypeOK' /\ Busy'
  BY <1>7 DEF SendLink
<1>8. ASSUME NEW h \in Handlers, SendFails(h) PROVE LinkTypeOK' /\ Busy'
  BY <1>8 DEF SendFails
<1>9. ASSUME NEW h \in Handlers, DropRequest(h) PROVE LinkTypeOK' /\ Busy'
  BY <1>9 DEF DropRequest
<1>10. ASSUME NEW h \in Handlers, NEW l \in Links, Click(h, l) PROVE LinkTypeOK' /\ Busy'
  BY <1>10 DEF Click
<1>11. ASSUME NEW h \in Handlers, VerifyToken(h) \/ CheckQueue(h)
       PROVE LinkTypeOK' /\ Busy'
  BY <1>11 DEF VerifyToken, CheckQueue
<1>12. ASSUME NEW h \in Handlers, Consume(h) PROVE LinkTypeOK' /\ Busy'
  BY <1>12 DEF Consume
<1>13. ASSUME NEW h \in Handlers, CreateBigJob(h) PROVE LinkTypeOK' /\ Busy'
  BY <1>13 DEF CreateBigJob
<1>14. CASE FleetMoves
  BY <1>14 DEF FleetMoves, FleetStep, WorkerClaims, WorkerEnds, WorkerRecords, WorkerForgets,
               FleetRestarts, linkVars
<1>15. CASE Tick \/ UNCHANGED vars
  BY <1>15 DEF Tick, linkVars, vars
<1>16. CASE SweepLinks
  BY <1>16 DEF SweepLinks
<1>17. CASE ServerCrashes
  BY <1>17 DEF ServerCrashes
<1> QED
  BY <1>1, <1>2, <1>3, <1>4, <1>5, <1>6, <1>7, <1>8, <1>9, <1>10, <1>11, <1>12, <1>13,
     <1>14, <1>15, <1>16, <1>17 DEF Next, Submit, Verify

LEMMA TypeStep == TypeInv /\ [Next]_vars => TypeInv'
BY StoreStep, LinkStep DEF TypeInv

\* The type invariant.
THEOREM TypeCorrect == Spec => []TypeOK
<1>1. TypeInv => TypeOK
  BY DEF TypeInv, LinkTypeOK, TypeOK
<1> QED
  BY <1>1, TypeInit, TypeStep, PTL DEF Spec
-----------------------------------------------------------------------------
(* A link in hand.  Which link a handler holds, by how far it has come. *)

Fresh    == {"wanted", "running_cap", "weekly_cap", "storing"}
Stored   == {"signing", "sending", "undoing"}
Followed == {"clicked", "queue", "consuming", "creating"}

\* A request has its pending id for itself, before the row exists.
FreshIsNew ==
    \A h \in Handlers : at[h] \in Fresh =>
        /\ link[hand[h]] = "new"
        /\ \A g \in Handlers : g # h => hand[g] # hand[h]

\* Whoever follows a link, or mails one, has a row that was stored.
StoredIsAsked == \A h \in Handlers : at[h] \in Stored \cup Followed => link[hand[h]] # "new"
MailedIsAsked == \A l \in mailed : link[l] # "new"
FollowedIsMailed == \A h \in Handlers : at[h] \in Followed => hand[h] \in mailed

\* Only the handler that consumed a link creates its job.
CreatingIsAlone ==
    \A h \in Handlers : at[h] = "creating" =>
        /\ link[hand[h]] = "spent"
        /\ Bought(hand[h]) = {}
        /\ \A g \in Handlers : g # h /\ at[g] = "creating" => hand[g] # hand[h]

JobsAreNew    == \A j \in Jobs : status[j] = "new" => from[j] = NoLink
BoughtIsSpent == \A l \in Links : Bought(l) # {} => link[l] = "spent"

\* A link starts at most one job however often, and from however many tabs, it is
\* followed.
OneJobPerLink == \A l \in Links : \A i, j \in Bought(l) : i = j

\* A row is swept only once its link has lapsed.
SweptIsOld == \A l \in Links : link[l] = "swept" => asked[l] + Ttl < clock

LinkInv ==
    /\ FreshIsNew /\ StoredIsAsked /\ MailedIsAsked /\ FollowedIsMailed
    /\ CreatingIsAlone /\ JobsAreNew /\ BoughtIsSpent /\ OneJobPerLink
    /\ SweptIsOld /\ SpentLinkHasItsJob /\ UnsentLeavesNoAddress

LEMMA LinkInit == Init => LinkInv
<1> SUFFICES ASSUME Init PROVE LinkInv
  OBVIOUS
<1> QED
  BY LinkAssumption DEF Init, WebInit, StoreInit, LinkInv, FreshIsNew, StoredIsAsked, MailedIsAsked,
       FollowedIsMailed, CreatingIsAlone, JobsAreNew, BoughtIsSpent, OneJobPerLink, SweptIsOld,
       SpentLinkHasItsJob, UnsentLeavesNoAddress, Bought, Fresh, Stored, Followed

\* No step of the store takes a row back to an id not yet minted, nor time back.
LEMMA StoreGoesOn ==
  ASSUME TypeInv, [Next]_vars
  PROVE  /\ clock \in Nat /\ clock' \in Nat /\ clock <= clock'
         /\ \A j \in Jobs : status'[j] = "new" => status[j] = "new"
<1> USE DEF TypeInv, StoreTypeOK, storeVars, jobVars
<1>1. CASE Tick
  BY <1>1 DEF Tick
<1>2. ASSUME NEW h \in Handlers, CreateBigJob(h)
      PROVE UNCHANGED clock /\ \A j \in Jobs : status'[j] = "new" => status[j] = "new"
  BY <1>2 DEF CreateBigJob, CreateJob
<1>3. CASE FleetMoves
  <2>1. UNCHANGED clock
    BY <1>3 DEF FleetMoves, FleetStep, WorkerClaims, WorkerEnds, WorkerRecords, WorkerForgets,
                FleetRestarts
  <2>2. ASSUME NEW j \in Jobs, WorkerClaims(j) \/ WorkerRecords(j) \/ WorkerForgets(j)
        PROVE \A i \in Jobs : status'[i] = "new" => status[i] = "new"
    BY <2>2 DEF WorkerClaims, ClaimNext, WorkerRecords, WorkerForgets, ClearEmail
  <2>3. ASSUME NEW j \in Jobs, WorkerEnds(j)
        PROVE \A i \in Jobs : status'[i] = "new" => status[i] = "new"
    BY <2>3 DEF WorkerEnds, MarkDone, MarkFailed
  <2>4. CASE FleetRestarts
    BY <2>4 DEF FleetRestarts, RequeueStaleRunning
  <2> QED
    BY <1>3, <2>1, <2>2, <2>3, <2>4 DEF FleetMoves, FleetStep
<1>4. CASE SweepLinks \/ ServerCrashes \/ UNCHANGED vars
  BY <1>4 DEF SweepLinks, ServerCrashes, vars
<1>5. ASSUME NEW h \in Handlers, Submit(h) \/ (Verify(h) /\ ~CreateBigJob(h))
      PROVE UNCHANGED <<clock, status>>
  BY <1>5 DEF Submit, Request, Replay, Decline, Size, CheckRunningCap, CheckWeeklyCap,
       CreatePendingBig, SignToken, SendLink, SendFails, DropRequest,
       Verify, Click, VerifyToken, CheckQueue, Consume
<1> QED
  BY <1>1, <1>2, <1>3, <1>4, <1>5 DEF Next

\* create_job writes a row that was not there, and the link it came from.
LEMMA BigJobMinted ==
  ASSUME TypeInv, NEW h \in Handlers, CreateBigJob(h)
  PROVE  \E j \in Jobs : /\ status[j] = "new" /\ status'[j] # "new"
                         /\ from' = [from EXCEPT ![j] = hand[h]]
<1>1. PICK j \in Unminted : CreateJob(j, "big") /\ from' = [from EXCEPT ![j] = hand[h]]
  BY DEF CreateBigJob
<1>2. j \in Jobs /\ status[j] = "new" /\ status'[j] = "pending"
  BY <1>1 DEF Unminted, CreateJob, TypeInv, StoreTypeOK
<1> QED
  BY <1>1, <1>2

LEMMA LinkInvStep == TypeInv /\ LinkInv /\ [Next]_vars => LinkInv'
<1> SUFFICES ASSUME TypeInv, LinkInv, [Next]_vars PROVE LinkInv'
  OBVIOUS
<1>0. /\ clock \in Nat /\ clock' \in Nat /\ clock <= clock' /\ Ttl \in Nat
      /\ \A j \in Jobs : status'[j] = "new" => status[j] = "new"
      /\ NoLink \notin Links
  BY StoreGoesOn, LinkAssumption
<1> USE DEF TypeInv, LinkTypeOK, Busy, LinkInv, FreshIsNew, StoredIsAsked, MailedIsAsked,
       FollowedIsMailed, CreatingIsAlone, JobsAreNew, BoughtIsSpent, OneJobPerLink, SweptIsOld,
       SpentLinkHasItsJob, UnsentLeavesNoAddress, Bought, Fresh, Stored, Followed, LinkStates, Places,
       At, Goto, Take, Answer
<1>1. ASSUME NEW h \in Handlers, NEW l \in Links, Request(h, l) PROVE LinkInv'
  BY <1>0, <1>1 DEF Request
<1>2. ASSUME NEW h \in Handlers, Replay(h) \/ Decline(h) PROVE LinkInv'
  BY <1>0, <1>2 DEF Replay, Decline
<1>3. ASSUME NEW h \in Handlers, Size(h) PROVE LinkInv'
  BY <1>0, <1>3 DEF Size, linkVars
<1>4. ASSUME NEW h \in Handlers, CheckRunningCap(h) \/ CheckWeeklyCap(h)
      PROVE LinkInv'
  BY <1>0, <1>4 DEF CheckRunningCap, CheckWeeklyCap
<1>5. ASSUME NEW h \in Handlers, CreatePendingBig(h) PROVE LinkInv'
  BY <1>0, <1>5 DEF CreatePendingBig
<1>6. ASSUME NEW h \in Handlers, SignToken(h) PROVE LinkInv'
  BY <1>0, <1>6 DEF SignToken
<1>7. ASSUME NEW h \in Handlers, SendLink(h) PROVE LinkInv'
  BY <1>0, <1>7 DEF SendLink
<1>8. ASSUME NEW h \in Handlers, SendFails(h) PROVE LinkInv'
  BY <1>0, <1>8 DEF SendFails
<1>9. ASSUME NEW h \in Handlers, DropRequest(h) PROVE LinkInv'
  BY <1>0, <1>9 DEF DropRequest
<1>10. ASSUME NEW h \in Handlers, NEW l \in Links, Click(h, l) PROVE LinkInv'
  BY <1>0, <1>10 DEF Click
<1>11. ASSUME NEW h \in Handlers, VerifyToken(h) \/ CheckQueue(h)
       PROVE LinkInv'
  BY <1>0, <1>11 DEF VerifyToken, CheckQueue
<1>12. ASSUME NEW h \in Handlers, Consume(h) PROVE LinkInv'
  BY <1>0, <1>12 DEF Consume
<1>13. ASSUME NEW h \in Handlers, CreateBigJob(h) PROVE LinkInv'
  <2>1. PICK j \in Jobs : status[j] = "new" /\ from' = [from EXCEPT ![j] = hand[h]]
                            /\ status'[j] # "new"
    BY <1>13, BigJobMinted
  <2>2. at[h] = "creating" /\ hand[h] \in Links
    BY <1>13 DEF CreateBigJob
  <2>3. \A i \in Jobs : from'[i] = IF i = j THEN hand[h] ELSE from[i]
    BY <2>1, <2>2
  <2>4. \A g \in Handlers : /\ at'[g] = IF g = h THEN "free" ELSE at[g]
                            /\ hand'[g] = IF g = h THEN NoLink ELSE hand[g]
    BY <1>13 DEF CreateBigJob
  <2>5. UNCHANGED <<clock, link, asked, expires, mailed, crashes>>
    BY <1>13 DEF CreateBigJob
  <2>6. FreshIsNew' /\ StoredIsAsked' /\ MailedIsAsked' /\ FollowedIsMailed' /\ SweptIsOld'
        /\ UnsentLeavesNoAddress'
    BY <2>2, <2>4, <2>5, <1>0
  <2>7. JobsAreNew'
    BY <2>1, <2>3, <1>0
  <2>8. BoughtIsSpent' /\ OneJobPerLink'
    BY <2>2, <2>3, <2>5
  <2>9. CreatingIsAlone'
    BY <2>2, <2>3, <2>4, <2>5
  <2>10. SpentLinkHasItsJob'
    <3>1. from[j] = NoLink
      BY <2>1
    <3>2. \A i \in Jobs : from[i] \in Links => from'[i] = from[i]
      BY <2>3, <3>1, <1>0
    <3>3. from'[j] = hand[h]
      BY <2>3
    <3>4. ASSUME NEW l \in Links, Bought(l) # {} \/ l = hand[h] PROVE Bought(l)' # {}
      BY <3>2, <3>3, <3>4
    <3> QED
      BY <2>4, <2>5, <3>4
  <2> QED
    BY <2>6, <2>7, <2>8, <2>9, <2>10
<1>14. CASE FleetMoves
  <2>1. UNCHANGED <<at, linkVars>>
    BY <1>14 DEF FleetMoves, FleetStep, WorkerClaims, WorkerEnds, WorkerRecords, WorkerForgets,
                 FleetRestarts
  <2> QED
    BY <1>0, <2>1 DEF linkVars
<1>15. CASE Tick \/ UNCHANGED vars
  BY <1>0, <1>15 DEF Tick, linkVars, vars
<1>16. CASE SweepLinks
  BY <1>0, <1>16 DEF SweepLinks, Lapsed
<1>17. CASE ServerCrashes
  BY <1>0, <1>17 DEF ServerCrashes
<1> QED
  BY <1>1, <1>2, <1>3, <1>4, <1>5, <1>6, <1>7, <1>8, <1>9, <1>10, <1>11, <1>12, <1>13,
     <1>14, <1>15, <1>16, <1>17 DEF Next, Submit, Verify

LEMMA Invariance == Spec => [](TypeInv /\ LinkInv)
BY TypeInit, LinkInit, TypeStep, LinkInvStep, PTL DEF Spec

\* A full queue or a second click never burns a link.
THEOREM LinksAreNotBurnt == Spec => []SpentLinkHasItsJob
<1>1. LinkInv => SpentLinkHasItsJob
  BY DEF LinkInv
<1> QED
  BY <1>1, Invariance, PTL

\* A mail that was not sent leaves no address.
THEOREM NoAddressIsStranded == Spec => []UnsentLeavesNoAddress
<1>1. LinkInv => UnsentLeavesNoAddress
  BY DEF LinkInv
<1> QED
  BY <1>1, Invariance, PTL

\* The sweep never takes a link that can still be followed.
THEOREM SweepIsLate == Spec => []SweptLinksAreDead
<1>1. TypeInv /\ LinkInv => SweptLinksAreDead
  BY LinkAssumption DEF TypeInv, LinkTypeOK, StoreTypeOK, LinkInv, SweptIsOld, SweptLinksAreDead
<1> QED
  BY <1>1, Invariance, PTL

-----------------------------------------------------------------------------
(* The refinement. *)

PromiseVars == <<[l \in Links |-> LinkState(l)], [l \in Links |-> Bought(l)]>>
PromiseStep == Promise!Next \/ UNCHANGED PromiseVars

LEMMA PromiseStarts == Init => Promise!Init
<1> SUFFICES ASSUME Init PROVE Promise!Init
  OBVIOUS
<1> QED
  BY LinkAssumption DEF Init, Promise!Init, LinkState, Bought

\* Which steps move a link, and how.
LEMMA SameLinks ==
  ASSUME UNCHANGED <<link, from>>
  PROVE  PromiseStep
BY DEF PromiseStep, PromiseVars, LinkState, Bought

LEMMA PromiseKept == TypeInv /\ LinkInv /\ [Next]_vars => PromiseStep
<1> SUFFICES ASSUME TypeInv, LinkInv, [Next]_vars PROVE PromiseStep
  OBVIOUS
<1>1. ASSUME NEW h \in Handlers, CreatePendingBig(h) PROVE PromiseStep
  <2>1. hand[h] \in Links /\ link[hand[h]] = "new"
    BY <1>1 DEF CreatePendingBig, At, TypeInv, Busy, LinkInv, FreshIsNew, Fresh
  <2>2. Promise!Requested(hand[h])
    BY <1>1, <2>1 DEF CreatePendingBig, Promise!Requested, LinkState, Bought, TypeInv, LinkTypeOK
  <2> QED
    BY <2>1, <2>2 DEF PromiseStep, Promise!Next
<1>2. ASSUME NEW h \in Handlers, Consume(h), link' # link PROVE PromiseStep
  <2>1. hand[h] \in Links /\ link[hand[h]] = "open"
    BY <1>2 DEF Consume, At, TypeInv, Busy
  <2>2. Promise!Redeemed(hand[h])
    BY <1>2, <2>1 DEF Consume, Promise!Redeemed, LinkState, Bought, TypeInv, LinkTypeOK
  <2> QED
    BY <2>1, <2>2 DEF PromiseStep, Promise!Next
<1>3. ASSUME NEW h \in Handlers, DropRequest(h), link' # link PROVE PromiseStep
  <2>1. hand[h] \in Links /\ link[hand[h]] = "open"
    BY <1>3 DEF DropRequest, At, TypeInv, Busy
  <2>2. Promise!Lapsed({hand[h]})
    BY <1>3, <2>1 DEF DropRequest, Promise!Lapsed, LinkState, Bought, TypeInv, LinkTypeOK
  <2> QED
    BY <2>1, <2>2 DEF PromiseStep, Promise!Next
<1>4. ASSUME SweepLinks PROVE PromiseStep
  <2>1. PICK now \in 0..clock : Lapsed(now) # {}
          /\ link' = [l \in Links |-> IF l \in Lapsed(now) THEN "swept" ELSE link[l]]
    BY <1>4 DEF SweepLinks
  <2>2. Lapsed(now) \in SUBSET Links /\ \A l \in Lapsed(now) : link[l] = "open"
    BY DEF Lapsed
  <2>3. Promise!Lapsed(Lapsed(now))
    BY <1>4, <2>1, <2>2 DEF SweepLinks, Promise!Lapsed, LinkState, Bought, TypeInv, LinkTypeOK
  <2> QED
    BY <2>1, <2>2, <2>3 DEF PromiseStep, Promise!Next
<1>5. ASSUME NEW h \in Handlers, CreateBigJob(h) PROVE PromiseStep
  <2>1. PICK j \in Jobs : /\ status[j] = "new" /\ status'[j] # "new"
                          /\ from' = [from EXCEPT ![j] = hand[h]]
    BY <1>5, BigJobMinted
  <2>2. at[h] = "creating" /\ hand[h] \in Links /\ UNCHANGED link
    BY <1>5 DEF CreateBigJob, At, TypeInv, Busy
  <2>3. /\ link[hand[h]] = "spent" /\ Bought(hand[h]) = {}
        /\ \A k \in Links : j \notin Bought(k)
    BY <2>1, <2>2, LinkAssumption DEF LinkInv, CreatingIsAlone, JobsAreNew, Bought
  <2>4. \A l \in Links : {i \in Jobs : from'[i] = l}
                          = IF l = hand[h] THEN {j} ELSE {i \in Jobs : from[i] = l}
    BY <2>1, <2>2, <2>3 DEF TypeInv, LinkTypeOK, Bought
  <2>5. Promise!Started(hand[h], j)
    BY <2>2, <2>3, <2>4 DEF Promise!Started, LinkState, Bought
  <2> QED
    BY <2>1, <2>2, <2>5 DEF PromiseStep, Promise!Next
<1>6. ASSUME NEW h \in Handlers, Submit(h), ~CreatePendingBig(h), ~DropRequest(h)
      PROVE UNCHANGED <<link, from>>
  BY <1>6 DEF Submit, Request, Replay, Decline, Size, CheckRunningCap, CheckWeeklyCap,
       SignToken, SendLink, SendFails, linkVars
<1>7. ASSUME NEW h \in Handlers, Verify(h), ~Consume(h), ~CreateBigJob(h)
      PROVE UNCHANGED <<link, from>>
  BY <1>7 DEF Verify, Click, VerifyToken, CheckQueue
<1>8. ASSUME NEW h \in Handlers, Consume(h) \/ DropRequest(h) PROVE UNCHANGED from
  BY <1>8 DEF Consume, DropRequest
<1>9. CASE FleetMoves \/ Tick \/ ServerCrashes \/ UNCHANGED vars
  <2>1. UNCHANGED <<link, from>>
    BY <1>9 DEF FleetMoves, Tick, ServerCrashes, vars, linkVars
  <2> QED
    BY <2>1, SameLinks
<1> QED
  BY <1>1, <1>2, <1>3, <1>4, <1>5, <1>6, <1>7, <1>8, <1>9, SameLinks DEF Next, Submit, Verify

\* The links keep the abstract promise.
THEOREM LinksKeepPromise == Spec => ImplementsLinks
<1>1. Spec => [][PromiseStep]_PromiseVars
  BY Invariance, PromiseKept, PTL DEF Spec
<1> QED
  BY <1>1, PromiseStarts, PTL DEF Spec, ImplementsLinks, Promise!Spec, PromiseStep, PromiseVars

-----------------------------------------------------------------------------
(* The queue of big jobs. *)

Waiting == BigJobs({"pending"}) \ started

\* What a restart may requeue was claimed before.
RunningWasStarted == \A j \in Jobs : status[j] = "running" => j \in started

LEMMA Finite ==
    /\ IsFiniteSet(PastTheCheck) /\ IsFiniteSet(Waiting) /\ IsFiniteSet(BigJobs({"pending"}))
    /\ Cardinality(PastTheCheck) \in Nat /\ Cardinality(Waiting) \in Nat
    /\ Cardinality(BigJobs({"pending"})) \in Nat
    /\ Cardinality(Waiting) <= Cardinality(BigJobs({"pending"}))
    /\ BigQueueMax \in Nat
    /\ Cardinality(Handlers) \in Nat \ {0}
<1>1. IsFiniteSet(PastTheCheck)
  BY PoolAssumption, FS_Subset DEF PastTheCheck
<1>2. IsFiniteSet(BigJobs({"pending"}))
  BY PoolAssumption, FS_Subset DEF BigJobs
<1>3. IsFiniteSet(Waiting) /\ Cardinality(Waiting) <= Cardinality(BigJobs({"pending"}))
  BY <1>2, FS_Subset DEF Waiting
<1>4. Cardinality(Handlers) \in Nat \ {0}
  BY PoolAssumption, FS_CardinalityType, FS_EmptySet
<1> QED
  BY <1>1, <1>2, <1>3, <1>4, FS_CardinalityType, LinkAssumption

\* No step but CreateBigJob lets a job wait that was never claimed.
LEMMA WaitingShrinks ==
  ASSUME TypeInv, RunningWasStarted, [Next]_vars, \A h \in Handlers : ~CreateBigJob(h)
  PROVE  Waiting' \subseteq Waiting /\ RunningWasStarted'
<1> USE DEF Waiting, BigJobs, RunningWasStarted, TypeInv, StoreTypeOK, LinkTypeOK, jobVars, storeVars
<1>1. ASSUME UNCHANGED <<jobVars, started>> PROVE Waiting' \subseteq Waiting /\ RunningWasStarted'
  BY <1>1
<1>2. ASSUME NEW h \in Handlers, Submit(h) \/ Verify(h) PROVE UNCHANGED <<jobVars, started>>
  BY <1>2 DEF Submit, Request, Replay, Decline, Size, CheckRunningCap, CheckWeeklyCap,
       CreatePendingBig, SignToken, SendLink, SendFails, DropRequest,
       Verify, Click, VerifyToken, CheckQueue, Consume
<1>3. CASE Tick \/ SweepLinks \/ ServerCrashes \/ UNCHANGED vars
  BY <1>1, <1>3 DEF Tick, SweepLinks, ServerCrashes, vars
<1>4. ASSUME FleetMoves, NEW j \in Jobs, WorkerClaims(j)
      PROVE Waiting' \subseteq Waiting /\ RunningWasStarted'
  BY <1>4 DEF FleetMoves, WorkerClaims, ClaimNext, Oldest, Eligible
<1>5. ASSUME FleetMoves, NEW j \in Jobs, WorkerEnds(j)
      PROVE Waiting' \subseteq Waiting /\ RunningWasStarted'
  BY <1>5 DEF FleetMoves, WorkerEnds, MarkDone, MarkFailed
<1>6. ASSUME FleetMoves, NEW j \in Jobs, WorkerRecords(j) \/ WorkerForgets(j)
      PROVE Waiting' \subseteq Waiting /\ RunningWasStarted'
  BY <1>6 DEF FleetMoves, WorkerRecords, WorkerForgets, ClearEmail
<1>7. CASE FleetMoves /\ FleetRestarts
  BY <1>7 DEF FleetMoves, FleetRestarts, RequeueStaleRunning
<1> QED
  BY <1>1, <1>2, <1>3, <1>4, <1>5, <1>6, <1>7 DEF Next, FleetMoves, FleetStep

\* No step but CheckQueue puts a handler past the check.
LEMMA PastShrinks ==
  ASSUME TypeInv, [Next]_vars, NEW h \in Handlers, h \in PastTheCheck', h \notin PastTheCheck
  PROVE  CheckQueue(h)
<1> USE DEF PastTheCheck, TypeInv, LinkTypeOK, Places, At, Goto, Take, Answer
<1>1. ASSUME NEW g \in Handlers, Submit(g) PROVE FALSE
  BY <1>1 DEF Submit, Request, Replay, Decline, Size, CheckRunningCap, CheckWeeklyCap,
       CreatePendingBig, SignToken, SendLink, SendFails, DropRequest
<1>2. ASSUME NEW g \in Handlers, Verify(g), ~CheckQueue(g) PROVE FALSE
  BY <1>2 DEF Verify, Click, VerifyToken, Consume, CreateBigJob
<1>3. ASSUME NEW g \in Handlers, CheckQueue(g) PROVE g = h
  BY <1>3 DEF CheckQueue
<1>4. CASE FleetMoves
  BY <1>4 DEF FleetMoves, FleetStep, WorkerClaims, WorkerEnds, WorkerRecords, WorkerForgets,
               FleetRestarts
<1>5. CASE Tick \/ SweepLinks \/ ServerCrashes \/ UNCHANGED vars
  BY <1>5 DEF Tick, SweepLinks, ServerCrashes, vars
<1> QED
  BY <1>1, <1>2, <1>3, <1>4, <1>5 DEF Next

OvershootInv == QueueOvershoot /\ RunningWasStarted

LEMMA OvershootStep == TypeInv /\ OvershootInv /\ [Next]_vars => OvershootInv'
<1> SUFFICES ASSUME TypeInv, OvershootInv, [Next]_vars PROVE OvershootInv'
  OBVIOUS
<1>bound. Cardinality(Waiting) + Cardinality(PastTheCheck) <= BigQueueMax + Cardinality(Handlers) - 1
  BY DEF OvershootInv, QueueOvershoot, Waiting
<1> SUFFICES /\ RunningWasStarted'
                /\ Cardinality(Waiting') + Cardinality(PastTheCheck')
                     <= BigQueueMax + Cardinality(Handlers) - 1
  BY DEF OvershootInv, QueueOvershoot, Waiting
<1>finite. /\ IsFiniteSet(PastTheCheck') /\ IsFiniteSet(Waiting')
        /\ Cardinality(PastTheCheck') \in Nat /\ Cardinality(Waiting') \in Nat
  <2>1. PastTheCheck' \in SUBSET Handlers /\ Waiting' \in SUBSET Jobs
    BY DEF PastTheCheck, Waiting, BigJobs
  <2> QED
    BY <2>1, PoolAssumption, FS_Subset, FS_CardinalityType
<1>1. ASSUME NEW h \in Handlers, CreateBigJob(h)
      PROVE  /\ RunningWasStarted'
             /\ Cardinality(Waiting') + Cardinality(PastTheCheck')
                  <= BigQueueMax + Cardinality(Handlers) - 1
  <2>1. PICK j \in Unminted : CreateJob(j, "big")
    BY <1>1 DEF CreateBigJob
  <2>2. UNCHANGED started /\ h \in PastTheCheck
    BY <1>1 DEF CreateBigJob, At, PastTheCheck
  <2>3. \A i \in Jobs \ {j} : status'[i] = status[i] /\ tier'[i] = tier[i]
    BY <2>1 DEF CreateJob, TypeInv, StoreTypeOK
  <2>4. j \in Jobs /\ status'[j] = "pending"
    BY <2>1 DEF CreateJob, Unminted, TypeInv, StoreTypeOK
  <2>5. Waiting' \subseteq Waiting \cup {j}
    BY <2>2, <2>3 DEF Waiting, BigJobs
  <2>6. PastTheCheck' \subseteq PastTheCheck \ {h}
    BY <1>1 DEF CreateBigJob, Answer, Goto, At, PastTheCheck, TypeInv, LinkTypeOK
  <2>7. Cardinality(Waiting') <= Cardinality(Waiting) + 1
    <3>1. IsFiniteSet(Waiting) /\ Cardinality(Waiting) \in Nat
      BY Finite
    <3>2. /\ IsFiniteSet(Waiting \cup {j})
          /\ Cardinality(Waiting \cup {j})
               = IF j \in Waiting THEN Cardinality(Waiting) ELSE Cardinality(Waiting) + 1
      BY <3>1, FS_AddElement
    <3>3. Cardinality(Waiting') <= Cardinality(Waiting \cup {j})
      BY <2>5, <3>2, FS_Subset
    <3>4. Cardinality(Waiting \cup {j}) \in Nat
      BY <3>2, FS_CardinalityType
    <3> QED
      BY <1>finite, <3>1, <3>2, <3>3, <3>4
  <2>8. Cardinality(PastTheCheck') <= Cardinality(PastTheCheck) - 1
    <3>1. /\ IsFiniteSet(PastTheCheck \ {h})
          /\ Cardinality(PastTheCheck \ {h}) = Cardinality(PastTheCheck) - 1
      BY <2>2, Finite, FS_RemoveElement
    <3>2. Cardinality(PastTheCheck') <= Cardinality(PastTheCheck \ {h})
      BY <2>6, <3>1, FS_Subset
    <3> QED
      BY <3>1, <3>2
  <2>9. RunningWasStarted'
    BY <2>2, <2>3, <2>4 DEF OvershootInv, RunningWasStarted
  <2> QED
    BY <1>bound, <1>finite, <2>7, <2>8, <2>9, Finite
<1>2. ASSUME \A h \in Handlers : ~CreateBigJob(h),
             NEW g \in Handlers, g \in PastTheCheck', g \notin PastTheCheck
      PROVE  /\ RunningWasStarted'
             /\ Cardinality(Waiting') + Cardinality(PastTheCheck')
                  <= BigQueueMax + Cardinality(Handlers) - 1
  <2>1. CheckQueue(g)
    BY <1>2, PastShrinks
  <2>2. Cardinality(BigJobs({"pending"})) < BigQueueMax
    BY <1>2, <2>1 DEF CheckQueue, Answer, Goto, At, PastTheCheck, TypeInv, LinkTypeOK
  <2>3. Waiting' \subseteq Waiting /\ RunningWasStarted'
    BY <1>2, WaitingShrinks DEF OvershootInv
  <2>4. Cardinality(Waiting') <= Cardinality(Waiting)
    BY <2>3, Finite, FS_Subset
  <2>5. Cardinality(PastTheCheck') <= Cardinality(Handlers)
    BY PoolAssumption, FS_Subset DEF PastTheCheck
  <2> QED
    BY <1>finite, <2>2, <2>3, <2>4, <2>5, Finite
<1>3. ASSUME \A h \in Handlers : ~CreateBigJob(h), PastTheCheck' \subseteq PastTheCheck
      PROVE  /\ RunningWasStarted'
             /\ Cardinality(Waiting') + Cardinality(PastTheCheck')
                  <= BigQueueMax + Cardinality(Handlers) - 1
  <2>1. Waiting' \subseteq Waiting /\ RunningWasStarted'
    BY <1>3, WaitingShrinks DEF OvershootInv
  <2>2. Cardinality(Waiting') <= Cardinality(Waiting)
    BY <2>1, Finite, FS_Subset
  <2>3. Cardinality(PastTheCheck') <= Cardinality(PastTheCheck)
    BY <1>3, Finite, FS_Subset
  <2> QED
    BY <1>bound, <1>finite, <2>1, <2>2, <2>3, Finite
<1>4. PastTheCheck' \subseteq Handlers
  BY DEF PastTheCheck
<1> QED
  BY <1>1, <1>2, <1>3, <1>4

\* Racing clicks exceed the big queue by at most one for each other handler.
THEOREM OvershootIsBounded == Spec => []QueueOvershoot
<1>1. Init => OvershootInv
  <2> SUFFICES ASSUME Init PROVE OvershootInv
    OBVIOUS
  <2>1. PastTheCheck = {} /\ Waiting = {} /\ RunningWasStarted
    BY DEF Init, WebInit, StoreInit, PastTheCheck, Waiting, BigJobs, RunningWasStarted
  <2> QED
    BY <2>1, Finite, FS_EmptySet DEF OvershootInv, QueueOvershoot, Waiting
<1>2. OvershootInv => QueueOvershoot
  BY DEF OvershootInv
<1> QED
  BY <1>1, <1>2, TypeInit, TypeStep, OvershootStep, PTL DEF Spec
=============================================================================
