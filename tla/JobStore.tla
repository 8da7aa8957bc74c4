------------------------------ MODULE JobStore ------------------------------
(***************************************************************************)
(* The SQLite job store of the web service (src/webapp/server/store.py):   *)
(* the `jobs' table, the `cancel_requests' table and the `result_cache'    *)
(* table, and the operations on them.  Every operation below is one SQLite *)
(* transaction: a single auto-committed statement, or a BEGIN IMMEDIATE    *)
(* block (claim_next, request_cancel_for_ip), so it is one step.           *)
(*                                                                         *)
(* A row of `jobs' is spread over one function per column.  A column that  *)
(* no operation reads back (spec, progress, started_at, artifact_dir, the  *)
(* caps) is left out.  An operation constrains the columns only; the       *)
(* action that calls it says what happens to the other tables.             *)
(***************************************************************************)
EXTENDS Integers, FiniteSets

CONSTANTS Jobs,         \* the job ids (ULIDs) that may ever be minted
          NoJob,        \* not a job id
          Keys,         \* canonical cache keys
          KeyOf,        \* the key of each job's request
          MaxEntries,   \* cfg.cache_max_entries
          Retention,    \* cfg.retention_days, in clock units
          MaxClock      \* bound on the clock

ASSUME StoreAssumption ==
    /\ NoJob \notin Jobs
    /\ KeyOf \in [Jobs -> Keys]
    /\ MaxEntries \in Nat
    /\ Retention \in Nat
    /\ MaxClock \in Nat

VARIABLES clock,      \* the time stamped on rows; several rows may share one
          status,     \* "new": not inserted yet; "purged": row deleted
          tier,
          created,    \* created_at
          finished,   \* finished_at, Null when the column is NULL
          error,
          email,      \* whether the plaintext address is still in the row
          cancelReq,  \* the ids in cancel_requests
          cache       \* result_cache: the job each key replays, or NoJob

jobVars   == <<status, tier, created, finished, error, email>>
storeVars == <<clock, status, tier, created, finished, error, email,
               cancelReq, cache>>

Null     == -1
Statuses == {"new", "pending", "running", "done", "failed", "purged"}
Tiers    == {"anonymous", "big"}
\* "other" stands for every error that is not a cancellation: the wall cap, a
\* dead child, an error the child reports, an exception in the worker.
Errors   == {"none", "cancelled", "closed", "other"}

StoreTypeOK ==
    /\ clock     \in Nat
    /\ status    \in [Jobs -> Statuses]
    /\ tier      \in [Jobs -> Tiers]
    /\ created   \in [Jobs -> Nat]
    /\ finished  \in [Jobs -> Int]
    /\ error     \in [Jobs -> Errors]
    /\ email     \in [Jobs -> BOOLEAN]
    /\ cancelReq \in SUBSET Jobs
    /\ cache     \in [Keys -> Jobs \cup {NoJob}]

\* An empty database.
StoreInit ==
    /\ clock     = 0
    /\ status    = [j \in Jobs |-> "new"]
    /\ tier      = [j \in Jobs |-> "anonymous"]
    /\ created   = [j \in Jobs |-> 0]
    /\ finished  = [j \in Jobs |-> Null]
    /\ error     = [j \in Jobs |-> "none"]
    /\ email     = [j \in Jobs |-> FALSE]
    /\ cancelReq = {}
    /\ cache     = [k \in Keys |-> NoJob]

Terminal(j) == status[j] \in {"done", "failed"}
Active(j)   == status[j] \in {"pending", "running"}

-----------------------------------------------------------------------------
(* The operations on jobs. *)

\* create_job: a big job is the only one that carries an address.
CreateJob(j, t) ==
    /\ status[j] = "new"
    /\ status'  = [status EXCEPT ![j] = "pending"]
    /\ tier'    = [tier EXCEPT ![j] = t]
    /\ created' = [created EXCEPT ![j] = clock]
    /\ email'   = [email EXCEPT ![j] = (t = "big")]
    /\ UNCHANGED <<finished, error>>

Eligible(excluded) == {j \in Jobs : status[j] = "pending" /\ tier[j] \notin excluded}

\* Mutant of Oldest: no ORDER BY.
AnyOfThem(rows) == rows

\* ORDER BY created_at LIMIT 1: rows of the same second come in any order.
Oldest(rows) == {j \in rows : \A i \in rows : created[j] <= created[i]}

ClaimNext(j, excluded) ==
    /\ j \in Oldest(Eligible(excluded))
    /\ status' = [status EXCEPT ![j] = "running"]
    /\ UNCHANGED <<tier, created, finished, error, email>>

RequeueStaleRunning ==
    /\ status' = [j \in Jobs |-> IF status[j] = "running" THEN "pending" ELSE status[j]]
    /\ UNCHANGED <<tier, created, finished, error, email>>

\* The three marks are updates by id, whatever the row's status is.
MarkRunning(j) ==
    /\ status' = [status EXCEPT ![j] = "running"]
    /\ UNCHANGED <<tier, created, finished, error, email>>

MarkDone(j) ==
    /\ status'   = [status EXCEPT ![j] = "done"]
    /\ finished' = [finished EXCEPT ![j] = clock]
    /\ UNCHANGED <<tier, created, error, email>>

MarkFailed(j, e) ==
    /\ status'   = [status EXCEPT ![j] = "failed"]
    /\ finished' = [finished EXCEPT ![j] = clock]
    /\ error'    = [error EXCEPT ![j] = e]
    /\ UNCHANGED <<tier, created, email>>

ClearEmail(j) ==
    /\ email' = [email EXCEPT ![j] = FALSE]
    /\ UNCHANGED <<status, tier, created, finished, error>>

-----------------------------------------------------------------------------
(* Cancellation and retention. *)

\* Mutant of RequestCancel: a running job is marked failed at once.
CancelAtOnce(j, mine) ==
    /\ j \in Oldest({i \in mine : Active(i)})
    /\ MarkFailed(j, "cancelled")
    /\ UNCHANGED cancelReq

\* request_cancel_for_ip for a caller who owns the jobs `mine': a pending job
\* is finalised in place, a running one is signalled to its worker.
RequestCancel(j, mine) ==
    /\ j \in Oldest({i \in mine : Active(i)})
    /\ IF status[j] = "pending"
         THEN MarkFailed(j, "cancelled") /\ UNCHANGED cancelReq
         ELSE cancelReq' = cancelReq \cup {j} /\ UNCHANGED jobVars

ClearCancelRequest(j) == cancelReq' = cancelReq \ {j}

\* Mutant of Pinned: retention does not look at the cache.
NothingPinned == {}

Pinned == {cache[k] : k \in Keys} \ {NoJob}

\* The rows purge_older_than selects, and deletes in a second statement.
Purgeable ==
    {j \in Jobs \ Pinned : /\ status[j] # "purged"
                           /\ finished[j] # Null
                           /\ finished[j] + Retention < clock}

DeletePurgeable ==
    /\ status' = [j \in Jobs |-> IF j \in Purgeable THEN "purged" ELSE status[j]]
    /\ email'  = [j \in Jobs |-> email[j] /\ j \notin Purgeable]
    /\ UNCHANGED <<tier, created, finished, error>>

-----------------------------------------------------------------------------
(* The result cache. *)

Rows == {k \in Keys : cache[k] # NoJob}

\* cache_put: the first writer of a key wins.
CachePut(j) ==
    cache' = IF KeyOf[j] \in Rows THEN cache ELSE [cache EXCEPT ![KeyOf[j]] = j]

\* cache_sweep.  Its first statement removes the rows of other versions of the
\* package; a model is of one version, whose keys name it, so there are none.  The
\* second one keeps MaxEntries rows.  Which rows are the least recently hit
\* is data; any choice of the right size is allowed.
CacheSweep ==
    \E keep \in SUBSET Rows :
        /\ IF Cardinality(Rows) <= MaxEntries THEN keep = Rows
                                              ELSE Cardinality(keep) = MaxEntries
        /\ cache' = [k \in Keys |-> IF k \in keep THEN cache[k] ELSE NoJob]
=============================================================================
