------------------------------- MODULE WebJobs -------------------------------
(***************************************************************************)
(* What the request handlers of the web server share (src/webapp/server):  *)
(* the job store, the place each handler has reached, and the worker fleet *)
(* as the server sees it.  A handler is one thread of the server's pool    *)
(* serving one request at a time; between two transactions of a handler    *)
(* the other handlers, the workers and the sweeper may take steps.         *)
(*                                                                         *)
(* The fleet is modelled in full by Fleet; here its transactions come in   *)
(* the order run_one_job makes them, and a restart requeues at any time.   *)
(***************************************************************************)
EXTENDS JobStore

CONSTANT Handlers    \* the threads of the server's pool

ASSUME PoolAssumption ==
    /\ IsFiniteSet(Handlers) /\ Handlers # {}
    /\ IsFiniteSet(Jobs)

VARIABLE at    \* the place of each handler, "free" between requests

WebInit ==
    /\ StoreInit
    /\ at = [h \in Handlers |-> "free"]

At(h, place)   == at[h] = place
Goto(h, place) == at' = [at EXCEPT ![h] = place]

PendingJobs == {j \in Jobs : status[j] = "pending"}

\* The id create_job mints: any id not in the table.
Unminted == {j \in Jobs : status[j] = "new"}

\* lookup and cache_get: the row of the key, when its job is still done.
Cached(k) == cache[k] # NoJob /\ status[cache[k]] = "done"

\* A lookup that misses drops a row whose job is gone or not done.
Miss(k) ==
    /\ ~Cached(k)
    /\ cache' = [cache EXCEPT ![k] = NoJob]

-----------------------------------------------------------------------------
(* The fleet, seen from the server. *)

WorkerClaims(j) ==
    /\ ClaimNext(j, {})
    /\ UNCHANGED <<clock, cancelReq, cache, at>>

WorkerEnds(j) ==
    /\ status[j] = "running"
    /\ MarkDone(j) \/ MarkFailed(j, "other")
    /\ UNCHANGED <<clock, cancelReq, cache, at>>

WorkerRecords(j) ==
    /\ status[j] = "done"
    /\ KeyOf[j] \notin Rows
    /\ CachePut(j)
    /\ UNCHANGED <<clock, jobVars, cancelReq, at>>

WorkerForgets(j) ==
    /\ Terminal(j)
    /\ email[j]
    /\ ClearEmail(j)
    /\ UNCHANGED <<clock, cancelReq, cache, at>>

FleetRestarts ==
    /\ \E j \in Jobs : status[j] = "running"
    /\ RequeueStaleRunning
    /\ UNCHANGED <<clock, cancelReq, cache, at>>

FleetStep ==
    \/ \E j \in Jobs : \/ WorkerClaims(j)
                       \/ WorkerEnds(j)
                       \/ WorkerRecords(j)
                       \/ WorkerForgets(j)
    \/ FleetRestarts
=============================================================================
