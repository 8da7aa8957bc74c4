------------------------------ MODULE ComputeApi ------------------------------
(***************************************************************************)
(* Anonymous requests (src/webapp/server/app.py: /api/compute, /api/jobs,  *)
(* /api/gui/probe) and the instant tier behind the first                   *)
(* (src/webapp/server/instant.py).  A compute request looks in the cache,  *)
(* is sized, and is then refused, offered the big tier, queued, or         *)
(* computed at once in a spawned child under three gates: the queue        *)
(* limits, a sliding window per address, and a ceiling on live children.   *)
(* A child that overruns the wall is ended and the request is queued.      *)
(*                                                                         *)
(* The counters of one server process live in its memory, under locks; the *)
(* limits read the store.  The sizes and the wall are data: a request is   *)
(* sized to any tier, and the wall may pass at any time.  The sliding      *)
(* window is module RateLimiter's, on a clock of its own.                  *)
(***************************************************************************)
EXTENDS WebJobs

CONSTANTS Ips,          \* hashed client addresses
          NoIp,         \* the ip of no job
          GlobalQueue,  \* cfg.global_queue_max
          PerIp,        \* cfg.per_ip_running_max
          Daily,        \* cfg.per_ip_daily_max
          RateMax,      \* cfg.instant_rate_max, at least 1: the limiter is on
          Window,       \* cfg.instant_rate_window_seconds, in clock units
          MaxMono,      \* bound on the limiter's clock
          SlotMax       \* cfg.instant_global_max, at least 1: the gate is on

ASSUME ApiAssumption ==
    /\ NoIp \notin Ips /\ Keys # {}
    /\ {GlobalQueue, PerIp, Daily, MaxMono} \subseteq Nat
    /\ {RateMax, Window, SlotMax} \subseteq Nat \ {0}

VARIABLES req,       \* the request each handler serves
          mono, asking, now, hits, admits,   \* see RateLimiter
          inflight,  \* _instant_inflight
          kid,       \* the instant child of each handler
          dirs,      \* the handlers whose temporary directory exists
          out,       \* what run_with_timeout is about to return
          ipOf       \* the ip column of jobs

INSTANCE RateLimiter

windowVars == <<mono, asking, now, hits, admits>>
kidVars    == <<inflight, kid, dirs, out>>
vars       == <<storeVars, at, req, windowVars, kidVars, ipOf>>

Kinds     == {"compute", "jobs", "probe"}
\* "unsized" until the algebra is built; "overrun" is an instant request whose
\* child gave no answer.
Sizes     == {"unsized", "instant", "queued", "overrun"}
NoRequest == [kind |-> "jobs", ip |-> NoIp, key |-> CHOOSE k \in Keys : TRUE,
              size |-> "unsized"]
KidStates == {"none", "computing", "ok", "fail", "silent"}
Alive(h)  == kid[h] = "computing"
Places    == {"free", "lookup", "build", "pending", "load", "daily", "clock", "limit",
              "slot", "mkdir", "spawn", "joining", "terminating", "reading",
              "removing", "releasing", "returned", "creating"}

Init ==
    /\ WebInit
    /\ req      = [h \in Handlers |-> NoRequest]
    /\ LimiterInit
    /\ inflight = 0
    /\ kid      = [h \in Handlers |-> "none"]
    /\ dirs     = {}
    /\ out      = [h \in Handlers |-> "none"]
    /\ ipOf     = [j \in Jobs |-> NoIp]

Answer(h)     == Goto(h, "free") /\ req' = [req EXCEPT ![h] = NoRequest]
Sized(h, s)   == req' = [req EXCEPT ![h].size = s]
Returns(h, o) == out' = [out EXCEPT ![h] = o]

-----------------------------------------------------------------------------
(* Arrival, cache and size. *)

Arrive(h, kind, ip, key) ==
    /\ At(h, "free")
    /\ req' = [req EXCEPT ![h] = [kind |-> kind, ip |-> ip, key |-> key, size |-> "unsized"]]
    /\ Goto(h, IF kind = "probe" THEN "clock" ELSE "lookup")
    /\ UNCHANGED <<storeVars, windowVars, kidVars, ipOf>>

Replay(h) ==
    /\ At(h, "lookup")
    /\ Cached(req[h].key)
    /\ Answer(h)
    /\ UNCHANGED <<storeVars, windowVars, kidVars, ipOf>>

MissCache(h) ==
    /\ At(h, "lookup")
    /\ Miss(req[h].key)
    /\ Goto(h, IF req[h].kind = "compute" THEN "build" ELSE "pending")
    /\ UNCHANGED <<clock, jobVars, cancelReq, req, windowVars, kidVars, ipOf>>

\* Answered without touching any state: an algebra that does not build, the
\* offer of the big tier, or TooLarge.
Decline(h) ==
    /\ At(h, "build")
    /\ Answer(h)
    /\ UNCHANGED <<storeVars, windowVars, kidVars, ipOf>>

Classify(h, size) ==
    /\ At(h, "build")
    /\ Sized(h, size)
    /\ Goto(h, "pending")
    /\ UNCHANGED <<storeVars, windowVars, kidVars, ipOf>>

-----------------------------------------------------------------------------
(* check_can_queue: three counts, three transactions. *)

Load(ip)  == {j \in Jobs : ipOf[j] = ip /\ Active(j)}
\* The clock of the model does not reach the next day.
Today(ip) == {j \in Jobs : ipOf[j] = ip /\ status[j] # "purged"}

Gate(h, place, open, next) ==
    /\ At(h, place)
    /\ IF open THEN Goto(h, next) /\ UNCHANGED req ELSE Answer(h)
    /\ UNCHANGED <<storeVars, windowVars, kidVars, ipOf>>

CheckPending(h) == Gate(h, "pending", Cardinality(PendingJobs) < GlobalQueue, "load")

\* Mutant of CheckLoad: only the jobs a worker has claimed count.
CheckRunning(h) ==
    Gate(h, "load",
         Cardinality({j \in Load(req[h].ip) : status[j] = "running"}) < PerIp, "daily")

CheckLoad(h) == Gate(h, "load", Cardinality(Load(req[h].ip)) < PerIp, "daily")
CheckDaily(h) == Gate(h, "daily", Cardinality(Today(req[h].ip)) < Daily,
                      IF req[h].size = "instant" THEN "clock" ELSE "creating")

\* create_job for the caller's hashed address.
CreateAnonymousJob(h) ==
    /\ At(h, "creating")
    /\ \E j \in Unminted :
          /\ KeyOf[j] = req[h].key
          /\ CreateJob(j, "anonymous")
          /\ ipOf' = [ipOf EXCEPT ![j] = req[h].ip]
    /\ Answer(h)
    /\ UNCHANGED <<clock, cancelReq, cache, windowVars, kidVars>>

-----------------------------------------------------------------------------
(* The flood gate of the instant tier and of the probe. *)

EnterLimiter(h) ==
    /\ At(h, "clock")
    /\ Ask(h, req[h].ip)
    /\ Goto(h, "limit")
    /\ UNCHANGED <<storeVars, req, kidVars, ipOf>>

\* A probe only builds the algebra once it is let through.
LeaveLimiter(h) ==
    /\ At(h, "limit")
    /\ Decided(h)
    /\ \/ Admit(h) /\ req[h].kind # "probe" /\ Goto(h, "slot") /\ UNCHANGED req
       \/ Admit(h) /\ req[h].kind = "probe" /\ Answer(h)
       \/ Throttle(h) /\ Answer(h)
    /\ UNCHANGED <<storeVars, kidVars, ipOf>>

-----------------------------------------------------------------------------
(* run_with_timeout.  out[h] is what it returns or raises. *)

ReserveSlot(h) ==
    /\ At(h, "slot")
    /\ IF inflight >= SlotMax
         THEN Answer(h) /\ UNCHANGED inflight
         ELSE /\ inflight' = inflight + 1
              /\ Goto(h, "mkdir")
              /\ UNCHANGED req
    /\ UNCHANGED <<storeVars, windowVars, kid, dirs, out, ipOf>>

\* mkdtemp, which may raise before the inner try block is entered.
MakeDir(h) ==
    /\ At(h, "mkdir")
    /\ \/ dirs' = dirs \cup {h} /\ Goto(h, "spawn") /\ UNCHANGED out
       \/ Returns(h, "error") /\ Goto(h, "releasing") /\ UNCHANGED dirs
    /\ UNCHANGED <<storeVars, req, windowVars, inflight, kid, ipOf>>

\* p.start, which may raise as well.
Spawn(h) ==
    /\ At(h, "spawn")
    /\ \/ kid' = [kid EXCEPT ![h] = "computing"] /\ Goto(h, "joining") /\ UNCHANGED out
       \/ Returns(h, "error") /\ Goto(h, "removing") /\ UNCHANGED kid
    /\ UNCHANGED <<storeVars, req, windowVars, inflight, dirs, ipOf>>

\* The child ends: with a result or an error in the pipe, or without a verdict
\* (a resource cap, the kernel).  A child that has its result but not the
\* room for it in the pipe goes on until somebody reads: it is still computing.
KidComputes(h) ==
    /\ kid[h] = "computing"
    /\ \E state \in {"ok", "fail", "silent"} : kid' = [kid EXCEPT ![h] = state]
    /\ UNCHANGED <<storeVars, at, req, windowVars, inflight, dirs, out, ipOf>>

\* The child has ended before the wall.
JoinEnds(h) ==
    /\ At(h, "joining")
    /\ ~Alive(h)
    /\ Goto(h, "reading")
    /\ UNCHANGED <<storeVars, req, windowVars, kidVars, ipOf>>

\* Mutant of WallPasses: the overrun is answered with the child left alone.
WallPassesAndLeave(h) ==
    /\ At(h, "joining")
    /\ Alive(h)
    /\ Returns(h, "overrun")
    /\ Goto(h, "removing")
    /\ UNCHANGED <<storeVars, req, windowVars, inflight, kid, dirs, ipOf>>

\* The wall passes with the child alive: terminate, and five seconds of grace.
WallPasses(h) ==
    /\ At(h, "joining")
    /\ Alive(h)
    /\ Returns(h, "overrun")
    /\ Goto(h, "terminating")
    /\ UNCHANGED <<storeVars, req, windowVars, inflight, kid, dirs, ipOf>>

\* The child obeys SIGTERM.
KidTerminates(h) ==
    /\ At(h, "terminating")
    /\ Alive(h)
    /\ kid' = [kid EXCEPT ![h] = "silent"]
    /\ UNCHANGED <<storeVars, at, req, windowVars, inflight, dirs, out, ipOf>>

GraceEnds(h) ==
    /\ At(h, "terminating")
    /\ ~Alive(h)
    /\ Goto(h, "removing")
    /\ UNCHANGED <<storeVars, req, windowVars, kidVars, ipOf>>

\* Mutant of TermIgnored: wait for the child without end.
TermAwaited(h) ==
    /\ At(h, "terminating")
    /\ ~Alive(h)
    /\ Goto(h, "removing")
    /\ UNCHANGED <<storeVars, req, windowVars, kidVars, ipOf>>

\* The grace passes with the child alive: kill, and join.
TermIgnored(h) ==
    /\ At(h, "terminating")
    /\ Alive(h)
    /\ kid' = [kid EXCEPT ![h] = "silent"]
    /\ Goto(h, "removing")
    /\ UNCHANGED <<storeVars, req, windowVars, inflight, dirs, out, ipOf>>

\* get_nowait after the join: a verdict, or nothing when the child left none.
ReadResult(h) ==
    /\ At(h, "reading")
    /\ Returns(h, CASE kid[h] = "ok"     -> "result"
                    [] kid[h] = "fail"   -> "error"
                    [] kid[h] = "silent" -> "overrun")
    /\ Goto(h, "removing")
    /\ UNCHANGED <<storeVars, req, windowVars, inflight, kid, dirs, ipOf>>

\* Mutant of RemoveDir: an error skips the two finally blocks.
RemoveDirUnlessError(h) ==
    /\ At(h, "removing")
    /\ dirs' = IF out[h] = "error" THEN dirs ELSE dirs \ {h}
    /\ Goto(h, IF out[h] = "error" THEN "returned" ELSE "releasing")
    /\ UNCHANGED <<storeVars, req, windowVars, inflight, kid, out, ipOf>>

\* The inner finally block.
RemoveDir(h) ==
    /\ At(h, "removing")
    /\ dirs' = dirs \ {h}
    /\ Goto(h, "releasing")
    /\ UNCHANGED <<storeVars, req, windowVars, inflight, kid, out, ipOf>>

\* The finally block of _instant_slot.
ReleaseSlot(h) ==
    /\ At(h, "releasing")
    /\ inflight' = inflight - 1
    /\ Goto(h, "returned")
    /\ UNCHANGED <<storeVars, req, windowVars, kid, dirs, out, ipOf>>

\* An answer goes back to the client; None queues the request.
UseResult(h) ==
    /\ At(h, "returned")
    /\ IF out[h] = "overrun" THEN Sized(h, "overrun") /\ Goto(h, "pending")
                             ELSE Answer(h)
    /\ Returns(h, "none")
    /\ kid' = [kid EXCEPT ![h] = "none"]
    /\ UNCHANGED <<storeVars, windowVars, inflight, dirs, ipOf>>

-----------------------------------------------------------------------------
(* The system. *)

\* A step of a handler.  The request's size is data.
Serving(h) ==
    \/ Replay(h) \/ MissCache(h)
    \/ Decline(h)
    \/ \E size \in {"instant", "queued"} : Classify(h, size)
    \/ CheckPending(h) \/ CheckLoad(h) \/ CheckDaily(h) \/ CreateAnonymousJob(h)
    \/ EnterLimiter(h) \/ LeaveLimiter(h)
    \/ ReserveSlot(h) \/ MakeDir(h) \/ Spawn(h)
    \/ JoinEnds(h) \/ WallPasses(h) \/ GraceEnds(h) \/ TermIgnored(h) \/ ReadResult(h)
    \/ RemoveDir(h) \/ ReleaseSlot(h) \/ UseResult(h)

Next ==
    \/ \E h \in Handlers, kind \in Kinds, ip \in Ips, key \in Keys : Arrive(h, kind, ip, key)
    \/ \E h \in Handlers : Serving(h) \/ KidComputes(h) \/ KidTerminates(h)
    \/ FleetStep /\ UNCHANGED <<req, windowVars, kidVars, ipOf>>
    \/ MonoTick /\ UNCHANGED <<storeVars, at, req, kidVars, ipOf>>

Spec == Init /\ [][Next]_vars

\* A handler goes on with its request, and both graces pass in the end; no
\* child has to end by itself.
FairSpec == Spec /\ \A h \in Handlers : WF_vars(Serving(h))

-----------------------------------------------------------------------------
(* Properties. *)

TypeOK ==
    /\ StoreTypeOK
    /\ at       \in [Handlers -> Places]
    /\ req      \in [Handlers -> [kind : Kinds, ip : Ips \cup {NoIp}, key : Keys,
                                  size : Sizes]]
    /\ LimiterTypeOK
    /\ inflight \in Nat
    /\ kid      \in [Handlers -> KidStates]
    /\ dirs     \in SUBSET Handlers
    /\ out      \in [Handlers -> {"none", "result", "error", "overrun"}]
    /\ ipOf     \in [Jobs -> Ips \cup {NoIp}]

HoldingPlaces == {"mkdir", "spawn", "joining", "terminating", "reading", "removing",
                  "releasing"}

\* The counter of instant slots is the number of requests inside
\* run_with_timeout, whatever fails there: no slot is lost and no slot is given
\* twice (instant.py:48, "a crashing child never leaks a slot").
SlotsAreHeld ==
    /\ inflight = Cardinality({h \in Handlers : at[h] \in HoldingPlaces})
    /\ inflight <= SlotMax

\* What an instant request used is gone when it has its answer: no child
\* computes on for nobody, and no directory stays (instant.py:186).
NothingLeftBehind ==
    \A h \in Handlers :
        /\ Alive(h) => at[h] \in {"joining", "terminating"}
        /\ h \in dirs => at[h] \in HoldingPlaces

\* The per-address limit of live jobs is read before the job is created: the
\* live jobs of an address and its requests that are past the gate exceed the
\* limit by at most one for each other handler, and an overrun instant request
\* passes the gate again (app.py:262, limits.py:16).
PastTheGate(i) ==
    {h \in Handlers : /\ at[h] \in {"daily", "creating"}
                      /\ req[h].ip = i
                      /\ req[h].size # "instant"}

LoadIsBounded ==
    \A i \in Ips : Cardinality(Load(i)) + Cardinality(PastTheGate(i))
                     <= PerIp + Cardinality(Handlers) - 1

\* Every request is answered, even when its child ignores SIGTERM
\* (instant.py:193).  A job that finds no id left to mint is the end of the model,
\* not of the server.
RequestsEnd ==
    \A h \in Handlers :
        ~At(h, "free") ~> (At(h, "free") \/ (At(h, "creating") /\ Unminted = {}))
=============================================================================
