------------------------------ MODULE MagicLink ------------------------------
(***************************************************************************)
(* Big jobs behind a verification link (src/webapp/server/bigjobs.py):     *)
(* submit_big stores the request with the plaintext address, signs a token *)
(* and mails the link; verify checks the token, looks at the queue,        *)
(* consumes the row (single use) and creates the job.  The sweeper deletes *)
(* rows whose link has lapsed.  Each store operation is a transaction, so  *)
(* it is a step; the clock may move between any two.                       *)
(*                                                                         *)
(* Forged and malformed tokens carry no link and are left out: a click     *)
(* presents a token that submit_big signed.  The spec bound into the token *)
(* is the row's own, so the hash comparison always succeeds.  All requests *)
(* come from one address, the case in which the caps bind.                 *)
(***************************************************************************)
EXTENDS WebJobs

CONSTANTS Links,        \* pending ids (ULIDs) that may ever be minted
          NoLink,       \* not a pending id
          KeyOfLink,    \* the cache key of each link's request
          Ttl,          \* cfg.big_token_ttl_seconds, in clock units
          Week,         \* the seven days of the weekly cap, in clock units
          EmailMax,     \* cfg.per_email_running_max
          WeekMax,      \* cfg.per_email_weekly_max
          BigQueueMax,  \* cfg.big_queue_max
          MaxCrashes    \* bound on the crashes of the server

ASSUME LinkAssumption ==
    /\ NoLink \notin Links
    /\ KeyOfLink \in [Links -> Keys]
    /\ {Ttl, Week, EmailMax, WeekMax, BigQueueMax, MaxCrashes} \subseteq Nat

VARIABLES link,     \* of each pending id: "new", "open" (a row of pending_big),
                    \* "spent" (consumed by a click), "void" (consumed because
                    \* the mail failed), "swept"
          asked,    \* created_at of the row
          expires,  \* exp in the signed token, Null before it is signed
          mailed,   \* the links handed to the relay
          hand,     \* the link a handler works on, or NoLink
          started,  \* the jobs a worker has claimed at least once
          from,     \* the link each job was created from, or NoLink
          crashes   \* crashes of the server so far

linkVars == <<link, asked, expires, mailed, hand, from, crashes>>
vars     == <<storeVars, at, started, linkVars>>

LinkStates == {"new", "open", "spent", "void", "swept"}
Places     == {"free", "wanted", "running_cap", "weekly_cap", "storing", "signing",
               "sending", "undoing", "clicked", "queue", "consuming", "creating"}

Init ==
    /\ WebInit
    /\ link    = [l \in Links |-> "new"]
    /\ asked   = [l \in Links |-> 0]
    /\ expires = [l \in Links |-> Null]
    /\ mailed  = {}
    /\ hand    = [h \in Handlers |-> NoLink]
    /\ started = {}
    /\ from    = [j \in Jobs |-> NoLink]
    /\ crashes = 0

Take(h, l) == hand' = [hand EXCEPT ![h] = l]
Answer(h)  == Goto(h, "free") /\ Take(h, NoLink)

BigJobs(states) == {j \in Jobs : tier[j] = "big" /\ status[j] \in states}

-----------------------------------------------------------------------------
(* submit_big.  hand[h] names the request before its row exists. *)

\* A request arrives; the ids other handlers hold are not minted again.
Request(h, l) ==
    /\ At(h, "free")
    /\ link[l] = "new"
    /\ \A g \in Handlers : hand[g] # l
    /\ Take(h, l)
    /\ Goto(h, "wanted")
    /\ UNCHANGED <<storeVars, started, link, asked, expires, mailed, from, crashes>>

\* 200 from the cache.
Replay(h) ==
    /\ At(h, "wanted")
    /\ Cached(KeyOfLink[hand[h]])
    /\ Answer(h)
    /\ UNCHANGED <<storeVars, started, link, asked, expires, mailed, from, crashes>>

\* 503, an honest build error or 422 NotBig: the request never needs a link.
Decline(h) ==
    /\ At(h, "wanted")
    /\ Miss(KeyOfLink[hand[h]])
    /\ Answer(h)
    /\ UNCHANGED <<clock, jobVars, cancelReq, started, link, asked, expires, mailed,
                   from, crashes>>

Size(h) ==
    /\ At(h, "wanted")
    /\ Miss(KeyOfLink[hand[h]])
    /\ Goto(h, "running_cap")
    /\ UNCHANGED <<clock, jobVars, cancelReq, started, linkVars>>

CheckRunningCap(h) ==
    /\ At(h, "running_cap")
    /\ IF Cardinality(BigJobs({"pending", "running"})) >= EmailMax
         THEN Answer(h)
         ELSE Goto(h, "weekly_cap") /\ UNCHANGED hand
    /\ UNCHANGED <<storeVars, started, link, asked, expires, mailed, from, crashes>>

\* Rows retention has purged are not counted.
ThisWeek == {j \in BigJobs({"pending", "running", "done", "failed"}) :
                created[j] >= clock - Week}

CheckWeeklyCap(h) ==
    /\ At(h, "weekly_cap")
    /\ IF Cardinality(ThisWeek) >= WeekMax
         THEN Answer(h)
         ELSE Goto(h, "storing") /\ UNCHANGED hand
    /\ UNCHANGED <<storeVars, started, link, asked, expires, mailed, from, crashes>>

CreatePendingBig(h) ==
    /\ At(h, "storing")
    /\ link'  = [link EXCEPT ![hand[h]] = "open"]
    /\ asked' = [asked EXCEPT ![hand[h]] = clock]
    /\ Goto(h, "signing")
    /\ UNCHANGED <<storeVars, started, expires, mailed, hand, from, crashes>>

SignToken(h) ==
    /\ At(h, "signing")
    /\ expires' = [expires EXCEPT ![hand[h]] = clock + Ttl]
    /\ Goto(h, "sending")
    /\ UNCHANGED <<storeVars, started, link, asked, mailed, hand, from, crashes>>

\* The relay takes the mail.
SendLink(h) ==
    /\ At(h, "sending")
    /\ mailed' = mailed \cup {hand[h]}
    /\ Answer(h)
    /\ UNCHANGED <<storeVars, started, link, asked, expires, from, crashes>>

\* The send raises.  A relay may raise after it has taken the mail.
SendFails(h) ==
    /\ At(h, "sending")
    /\ \/ mailed' = mailed \cup {hand[h]}
       \/ UNCHANGED mailed
    /\ Goto(h, "undoing")
    /\ UNCHANGED <<storeVars, started, link, asked, expires, hand, from, crashes>>

\* Mutant of DropRequest: 502 without dropping the row.
DropNothing(h) ==
    /\ At(h, "undoing")
    /\ Answer(h)
    /\ UNCHANGED <<storeVars, started, link, asked, expires, mailed, from, crashes>>

\* The half-created row is consumed (if a click or the sweep did not), then 502.
DropRequest(h) ==
    /\ At(h, "undoing")
    /\ link' = IF link[hand[h]] = "open" THEN [link EXCEPT ![hand[h]] = "void"] ELSE link
    /\ Answer(h)
    /\ UNCHANGED <<storeVars, started, asked, expires, mailed, from, crashes>>

Submit(h) ==
    \/ \E l \in Links : Request(h, l)
    \/ Replay(h) \/ Decline(h) \/ Size(h)
    \/ CheckRunningCap(h) \/ CheckWeeklyCap(h)
    \/ CreatePendingBig(h) \/ SignToken(h)
    \/ SendLink(h) \/ SendFails(h) \/ DropRequest(h)

-----------------------------------------------------------------------------
(* verify. *)

\* Somebody follows a link: at any time, any number of times, in either
\* language, or a mail scanner does.
Click(h, l) ==
    /\ At(h, "free")
    /\ l \in mailed
    /\ Take(h, l)
    /\ Goto(h, "clicked")
    /\ UNCHANGED <<storeVars, started, link, asked, expires, mailed, from, crashes>>

VerifyToken(h) ==
    /\ At(h, "clicked")
    /\ IF expires[hand[h]] < clock THEN Answer(h)
                                   ELSE Goto(h, "queue") /\ UNCHANGED hand
    /\ UNCHANGED <<storeVars, started, link, asked, expires, mailed, from, crashes>>

\* Mutant of CheckQueue: the bound itself is let through.
CheckQueueLoosely(h) ==
    /\ At(h, "queue")
    /\ IF Cardinality(BigJobs({"pending"})) <= BigQueueMax
         THEN Goto(h, "consuming") /\ UNCHANGED hand
         ELSE Answer(h)
    /\ UNCHANGED <<storeVars, started, link, asked, expires, mailed, from, crashes>>

CheckQueue(h) ==
    /\ At(h, "queue")
    /\ IF Cardinality(BigJobs({"pending"})) < BigQueueMax
         THEN Goto(h, "consuming") /\ UNCHANGED hand
         ELSE Answer(h)
    /\ UNCHANGED <<storeVars, started, link, asked, expires, mailed, from, crashes>>

\* Mutant of Consume: the row is read, and not deleted with it.
ReadOnly(h) ==
    /\ At(h, "consuming")
    /\ IF link[hand[h]] = "open" THEN Goto(h, "creating") /\ UNCHANGED hand
                                 ELSE Answer(h)
    /\ UNCHANGED <<storeVars, started, link, asked, expires, mailed, from, crashes>>

\* Mutant of Consume: the queue is looked at only after the row is gone.
ConsumeThenCheck(h) ==
    /\ At(h, "consuming")
    /\ IF link[hand[h]] = "open"
         THEN /\ link' = [link EXCEPT ![hand[h]] = "spent"]
              /\ IF Cardinality(BigJobs({"pending"})) < BigQueueMax
                   THEN Goto(h, "creating") /\ UNCHANGED hand
                   ELSE Answer(h)
         ELSE Answer(h) /\ UNCHANGED link
    /\ UNCHANGED <<storeVars, started, asked, expires, mailed, from, crashes>>

\* consume_pending_big: one transaction reads the row and deletes it.
Consume(h) ==
    /\ At(h, "consuming")
    /\ IF link[hand[h]] = "open"
         THEN /\ link' = [link EXCEPT ![hand[h]] = "spent"]
              /\ Goto(h, "creating")
              /\ UNCHANGED hand
         ELSE Answer(h) /\ UNCHANGED link
    /\ UNCHANGED <<storeVars, started, asked, expires, mailed, from, crashes>>

CreateBigJob(h) ==
    /\ At(h, "creating")
    /\ \E j \in Unminted :
          /\ KeyOf[j] = KeyOfLink[hand[h]]
          /\ CreateJob(j, "big")
          /\ from' = [from EXCEPT ![j] = hand[h]]
    /\ Answer(h)
    /\ UNCHANGED <<clock, cancelReq, cache, started, link, asked, expires, mailed, crashes>>

Verify(h) ==
    \/ \E l \in Links : Click(h, l)
    \/ VerifyToken(h) \/ CheckQueue(h) \/ Consume(h) \/ CreateBigJob(h)

-----------------------------------------------------------------------------
(* Time, the sweep and the server process. *)

Tick ==
    /\ clock < MaxClock
    /\ clock' = clock + 1
    /\ UNCHANGED <<jobVars, cancelReq, cache, at, started, linkVars>>

\* Mutant of Lapsed: off by one.
LapsedEarly(now) == {l \in Links : link[l] = "open" /\ asked[l] <= now - Ttl}

\* Mutant of Lapsed: the table is never swept.
LapsedNever(now) == {}

Lapsed(now) == {l \in Links : link[l] = "open" /\ asked[l] < now - Ttl}

\* purge_pending_big.  The sweep took its time stamp before its other passes.
SweepLinks ==
    \E now \in 0..clock :
        /\ Lapsed(now) # {}
        /\ link' = [l \in Links |-> IF l \in Lapsed(now) THEN "swept" ELSE link[l]]
        /\ UNCHANGED <<storeVars, at, started, asked, expires, mailed, hand, from, crashes>>

\* The server process dies between two transactions of its handlers.
ServerCrashes ==
    /\ crashes < MaxCrashes
    /\ \E h \in Handlers : ~At(h, "free")
    /\ at'   = [h \in Handlers |-> "free"]
    /\ hand' = [h \in Handlers |-> NoLink]
    /\ crashes' = crashes + 1
    /\ UNCHANGED <<storeVars, started, link, asked, expires, mailed, from>>

FleetMoves ==
    /\ FleetStep
    /\ started' = started \cup {j \in Jobs : status[j] = "pending" /\ status'[j] = "running"}
    /\ UNCHANGED linkVars

Next ==
    \/ \E h \in Handlers : Submit(h) \/ Verify(h)
    \/ FleetMoves
    \/ Tick
    \/ SweepLinks
    \/ ServerCrashes

Spec == Init /\ [][Next]_vars

\* A step of a request in hand.  Its start is up to the client.
Serving(h) ==
    \/ Replay(h) \/ Size(h)
    \/ CheckRunningCap(h) \/ CheckWeeklyCap(h)
    \/ CreatePendingBig(h) \/ SignToken(h) \/ SendLink(h) \/ DropRequest(h)
    \/ VerifyToken(h) \/ CheckQueue(h) \/ Consume(h) \/ CreateBigJob(h)

\* Time passes, the sweep comes round, and a handler finishes what it began.
FairSpec ==
    /\ Spec
    /\ WF_vars(Tick)
    /\ WF_vars(SweepLinks)
    /\ \A h \in Handlers : WF_vars(Serving(h))

-----------------------------------------------------------------------------
(* Properties. *)

TypeOK ==
    /\ StoreTypeOK
    /\ at       \in [Handlers -> Places]
    /\ started  \in SUBSET Jobs
    /\ link     \in [Links -> LinkStates]
    /\ asked    \in [Links -> Nat]
    /\ expires  \in [Links -> Int]
    /\ mailed   \in SUBSET Links
    /\ hand     \in [Handlers -> Links \cup {NoLink}]
    /\ from     \in [Jobs -> Links \cup {NoLink}]
    /\ crashes  \in Nat

Bought(l) == {j \in Jobs : from[j] = l}

\* A link that was consumed has its job, or a handler is about to create it,
\* unless the server died in between: a full queue or a second click never
\* burns a link (bigjobs.py:263).
SpentLinkHasItsJob ==
    \A l \in Links :
        link[l] = "spent" =>
            \/ Bought(l) # {}
            \/ \E h \in Handlers : at[h] = "creating" /\ hand[h] = l
            \/ crashes > 0

\* The check of the big queue is not atomic with the insertion: the jobs that
\* wait for their first claim and the clicks that have passed the check exceed
\* the cap by at most one for each other handler (bigjobs.py:264).  Jobs that a
\* restart of the fleet requeued are not counted.
PastTheCheck == {h \in Handlers : at[h] \in {"consuming", "creating"}}

QueueOvershoot ==
    Cardinality(BigJobs({"pending"}) \ started) + Cardinality(PastTheCheck)
        <= BigQueueMax + Cardinality(Handlers) - 1

\* A request whose mail was not sent leaves no address behind, unless the
\* server died while it was in hand (bigjobs.py:246).
UnsentLeavesNoAddress ==
    \A l \in Links :
        link[l] = "open" /\ l \notin mailed =>
            \/ \E h \in Handlers : hand[h] = l
            \/ crashes > 0

\* The sweep and the token agree on when a link is dead: a link that was signed
\* in the second its row was stored is never swept while it can still be
\* followed (sweeper.py:53 against bigjobs.py:126).
SweptLinksAreDead ==
    \A l \in Links :
        link[l] = "swept" /\ expires[l] = asked[l] + Ttl => expires[l] < clock

\* An address that is never confirmed does not stay: every row of pending_big
\* asked for early enough to lapse within the clock's bound is deleted in the
\* end, crashes included (sweeper.py:53).
AddressForgotten ==
    \A l \in Links :
        (link[l] = "open" /\ asked[l] < MaxClock - Ttl) ~> (link[l] # "open")

\* The links keep the abstract promise: redeemed at most once, for at most one
\* job, and never after they lapsed.
LinkState(l) == IF link[l] \in {"void", "swept"} THEN "over" ELSE link[l]

Promise == INSTANCE LinkLifecycle WITH
    Ids    <- Jobs,
    state  <- [l \in Links |-> LinkState(l)],
    bought <- [l \in Links |-> Bought(l)]

ImplementsLinks == Promise!Spec
=============================================================================
