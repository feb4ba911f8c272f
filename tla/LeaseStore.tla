----------------------------- MODULE LeaseStore -----------------------------
(***************************************************************************)
(* The durable state of the v0 prototype (control/db.py): one job, its     *)
(* shards and its results, and one action per SQLite transaction that      *)
(* writes them.  Every transaction is atomic (BEGIN IMMEDIATE, or a single *)
(* autocommitted statement), and survives a crash of the process that ran  *)
(* it.                                                                     *)
(*                                                                         *)
(* Time is abstract: lease_exp_ts is replaced by the one thing the code    *)
(* compares it for, whether it has passed.  The events table, the attempts *)
(* counter and the timestamps are only ever reported, and are left out.    *)
(***************************************************************************)
EXTENDS Integers, FiniteSets

CONSTANTS
  NumRequests,  (* requests of the job, n_requests                         *)
  ShardSize,    (* requests per shard, shard_size                          *)
  Workers,      (* worker ids                                              *)
  NoWorker      (* the NULL of lease_worker                                *)

ASSUME SizesAssumption  == NumRequests \in Nat \ {0} /\ ShardSize \in Nat \ {0}
ASSUME WorkerAssumption == NoWorker \notin Workers

Requests == 1 .. NumRequests

\* create_job cuts the request list into chunks of shard_size, in order; a
\* shard is named by its idx column, counted from 1.
ShardOf(r) == ((r - 1) \div ShardSize) + 1
Shards == { ShardOf(r) : r \in Requests }
RequestsOf(s) == { r \in Requests : ShardOf(r) = s }

Verdict == {"accepted", "rejected"}

VARIABLES
  jobStatus,    (* jobs.status                                             *)
  shard,        (* shards: state, lease_worker, lease_exp_ts < now         *)
  result        (* results.accepted, or "none" where there is no row       *)

storeVars == <<jobStatus, shard, result>>

JobStatus  == {"running", "done", "cancelled"}
ShardState == {"pending", "leased", "done"}
ShardRow   == [state : ShardState, worker : Workers \cup {NoWorker}, lapsed : BOOLEAN]

StoreTypeOK ==
  /\ jobStatus \in JobStatus
  /\ shard \in [Shards -> ShardRow]
  /\ result \in [Requests -> Verdict \cup {"none"}]

Pending  == [state |-> "pending", worker |-> NoWorker, lapsed |-> FALSE]
Finished == [state |-> "done",    worker |-> NoWorker, lapsed |-> FALSE]
LeasedTo(w) == [state |-> "leased", worker |-> w, lapsed |-> FALSE]

Answered == { r \in Requests : result[r] # "none" }

\* The requests of a shard with no result row: claim()'s LEFT JOIN.
Unanswered(s) == RequestsOf(s) \ Answered

PendingShards == { s \in Shards : shard[s].state = "pending" }

\* Mutant: only what is still in the pool counts as outstanding.
OutstandingPendingOnly == PendingShards # {}

\* outstanding() # 0
Outstanding == \E s \in Shards : shard[s].state # "done"

Holds(w, s) == shard[s].state = "leased" /\ shard[s].worker = w

StoreInit ==
  /\ jobStatus = "running"
  /\ shard  = [s \in Shards |-> Pending]
  /\ result = [r \in Requests |-> "none"]

(***************************************************************************)
(* The transactions.                                                       *)
(***************************************************************************)
\* Mutant: the holder is cleared and the state forgotten.
ReapKeepsState ==
  /\ \E s \in Shards : shard[s].state = "leased" /\ shard[s].lapsed
  /\ shard' = [s \in Shards |->
                 IF shard[s].state = "leased" /\ shard[s].lapsed
                   THEN [shard[s] EXCEPT !.worker = NoWorker] ELSE shard[s]]
  /\ UNCHANGED <<jobStatus, result>>

\* reap: every expired lease goes back to the pool, in one transaction.
Reap ==
  /\ \E s \in Shards : shard[s].state = "leased" /\ shard[s].lapsed
  /\ shard' = [s \in Shards |->
                 IF shard[s].state = "leased" /\ shard[s].lapsed
                   THEN Pending ELSE shard[s]]
  /\ UNCHANGED <<jobStatus, result>>

\* claim: lease the pending shard of least idx.  The requests handed out are
\* Unanswered(s), read in the same transaction.
ClaimShard(w, s) ==
  /\ s \in PendingShards
  /\ \A t \in PendingShards : s <= t
  /\ shard' = [shard EXCEPT ![s] = LeasedTo(w)]
  /\ UNCHANGED <<jobStatus, result>>

\* The new contents of one shard row under extend_lease(s, w): guarded by the
\* holder and the state, not by whether the lease has already run out.
Extended(s, w) ==
  IF Holds(w, s) THEN [shard EXCEPT ![s].lapsed = FALSE] ELSE shard

\* finish_shard: no ownership check and no state guard.
FinishShard(s) ==
  /\ shard' = [shard EXCEPT ![s] = Finished]
  /\ UNCHANGED <<jobStatus, result>>

\* put_results upserts every row; a later verdict replaces an earlier one.
Upserted(rows) ==
  [r \in Requests |-> IF r \in DOMAIN rows THEN rows[r] ELSE result[r]]

\* The lease half of kill_worker: everything w holds goes back to the pool.
ReleaseLeases(w) ==
  /\ shard' = [s \in Shards |-> IF Holds(w, s) THEN Pending ELSE shard[s]]
  /\ UNCHANGED <<jobStatus, result>>

\* set_job_status: unconditional.
SetJobStatus(status) ==
  /\ jobStatus' = status
  /\ UNCHANGED <<shard, result>>

\* Time passes: lease_exp_ts of a leased shard falls into the past.
LeaseLapses(s) ==
  /\ shard[s].state = "leased"
  /\ ~ shard[s].lapsed
  /\ shard' = [shard EXCEPT ![s].lapsed = TRUE]
  /\ UNCHANGED <<jobStatus, result>>
=============================================================================
