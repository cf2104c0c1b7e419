------------------------------ MODULE JobsRepo ------------------------------
(***************************************************************************)
(* The durable job queue: the jobs table and the operations of             *)
(* JobsRepository (src/repositories/jobs.py) and its Postgres twin         *)
(* JobsPgRepository (src/repositories/jobs_pg.py).  Every operation runs   *)
(* under _JOBS_LOCK (DuckDB) or as one transaction (Postgres), so it is    *)
(* one atomic change of the variable jobs.  This module defines the        *)
(* operations; WorkerRuntime composes them with the processes that call    *)
(* them.                                                                   *)
(*                                                                         *)
(* Row ids are numbered in insertion order, so that created_at ASC is      *)
(* id order.  Timestamps are kept as their distance from the current time: *)
(* lease is lease_expires_at - now (expired when negative) and run_after   *)
(* is max(run_after - now, 0); Elapse lets one unit of time pass.  The     *)
(* uuid4 lease_token minted by every claim is the number of that claim,    *)
(* fresh because attempts only grows.  result_of remembers which claim's   *)
(* result complete() merged into payload_json.  Columns that no property   *)
(* tells apart (leased_by, started_at, finished_at, error) are left out.   *)
(***************************************************************************)
EXTENDS Integers

CONSTANTS
    MaxJobs,        \* how many rows may ever be inserted
    Kinds,          \* the job kinds callers enqueue
    Keys,           \* the idempotency keys callers use
    NoKey,          \* idempotency_key = NULL
    Priorities,     \* the priorities callers pass
    Budgets,        \* the max_attempts callers pass
    Delays,         \* initial run_after, as a distance from now (0: NULL)
    NoRetry         \* retry_in_seconds = None

ASSUME RepoAssumption ==
    /\ MaxJobs \in Nat
    /\ NoKey \notin Keys
    /\ Priorities \subseteq Int
    /\ Budgets \subseteq Nat \ {0}
    /\ Delays \subseteq Nat
    /\ NoRetry \notin Nat

VARIABLE jobs

JobIds == 1..MaxJobs

NoToken == 0        \* lease_token IS NULL

Statuses == {"absent", "queued", "running", "done", "failed"}
LiveStatuses == {"queued", "running"}
TerminalStatuses == {"done", "failed"}

Rows == [status: Statuses, kind: Kinds \cup {"none"}, key: Keys \cup {NoKey},
         priority: Int, attempts: Nat, max_attempts: Nat, lease_token: Nat,
         lease: Int, run_after: Nat, result_of: Nat]

NoRow == [status |-> "absent", kind |-> "none", key |-> NoKey, priority |-> 0,
          attempts |-> 0, max_attempts |-> 0, lease_token |-> NoToken,
          lease |-> 0, run_after |-> 0, result_of |-> NoToken]

JobsInit == jobs = [j \in JobIds |-> NoRow]

-----------------------------------------------------------------------------
(* enqueue *)

\* Bug: dedup only against queued rows, not against the running one.
BlocksWhileQueued(r, key) == key # NoKey /\ r.key = key /\ r.status = "queued"

\* A row that makes enqueue() return it instead of inserting.
Blocks(r, key) == key # NoKey /\ r.key = key /\ r.status \in LiveStatuses

Inserted(kind, key, priority, budget, delay) ==
    [status |-> "queued", kind |-> kind, key |-> key, priority |-> priority,
     attempts |-> 0, max_attempts |-> budget, lease_token |-> NoToken,
     lease |-> 0, run_after |-> delay, result_of |-> NoToken]

\* enqueue(): insert a queued row unless a live row has the same key (in
\* that case nothing changes, and the existing row is returned).
EnqueueRow(kind, key, priority, budget, delay) ==
    /\ \A i \in JobIds : ~ Blocks(jobs[i], key)
    /\ \E j \in JobIds :
         /\ jobs[j].status = "absent"
         /\ \A i \in JobIds : i < j => jobs[i].status # "absent"
         /\ jobs' = [jobs EXCEPT ![j] = Inserted(kind, key, priority, budget, delay)]

-----------------------------------------------------------------------------
(* claim_next *)

Expired(r) == r.status = "running" /\ r.lease < 0

\* Bug: the crash-recovery branch hands out one attempt too many.
ReclaimableOneTooMany(r) == Expired(r) /\ r.attempts <= r.max_attempts

Reclaimable(r) == Expired(r) /\ r.attempts < r.max_attempts

Eligible(r, kinds) ==
    /\ r.kind \in kinds
    /\ \/ r.status = "queued" /\ r.run_after = 0
       \/ Reclaimable(r)

\* ORDER BY priority DESC, created_at ASC
Precedes(i, j) ==
    \/ jobs[i].priority > jobs[j].priority
    \/ jobs[i].priority = jobs[j].priority /\ i <= j

\* The row claim_next(kinds) selects, when one is eligible.
Selected(j, kinds) ==
    /\ Eligible(jobs[j], kinds)
    /\ \A i \in JobIds : Eligible(jobs[i], kinds) => Precedes(j, i)

Claimed(r, lease) ==
    [r EXCEPT !.status = "running", !.attempts = @ + 1,
              !.lease_token = r.attempts + 1, !.lease = lease]

ClaimRow(j, kinds, lease) ==
    /\ Selected(j, kinds)
    /\ jobs' = [jobs EXCEPT ![j] = Claimed(@, lease)]

-----------------------------------------------------------------------------
(* heartbeat, complete, fail: all guarded by this claim's lease_token *)

\* Bug: the guard the code had before lease_token, worker_id only: another
\* slot of the same process passes it.
RunningAtAll(j, token) == jobs[j].status = "running"

\* Bug: the status guard is dropped; complete() and fail() leave the token
\* in the row they finalize, so it still matches afterwards.
TokenMatches(j, token) == jobs[j].lease_token = token

\* WHERE id = ? AND lease_token = ? AND status = 'running'
HoldsClaim(j, token) ==
    jobs[j].status = "running" /\ jobs[j].lease_token = token

HeartbeatRow(j, lease) == jobs' = [jobs EXCEPT ![j].lease = lease]

Completed(r, token) ==
    [r EXCEPT !.status = "done", !.lease = 0, !.result_of = token]

\* complete(): True iff the row was mutated.
CompleteRow(j, token) ==
    jobs' = [jobs EXCEPT ![j] = IF HoldsClaim(j, token) THEN Completed(@, token) ELSE @]

\* Bug: a failed attempt is requeued although the budget is spent.
RequeuesAlways(r, retry) == retry # NoRetry

Requeues(r, retry) == r.attempts < r.max_attempts /\ retry # NoRetry

\* Bug: a status that no query of the table looks for.
FailedUnderOtherName(r) == [r EXCEPT !.status = "error", !.lease = 0]

Failed(r) == [r EXCEPT !.status = "failed", !.lease = 0]

Requeued(r, retry) ==
    [r EXCEPT !.status = "queued", !.run_after = retry,
              !.lease = 0, !.lease_token = NoToken]

\* fail(): requeue with a backoff while attempts remain, else finalize.
FailRow(j, token, retry) ==
    jobs' = [jobs EXCEPT ![j] =
               IF ~ HoldsClaim(j, token) THEN @
               ELSE IF Requeues(@, retry) THEN Requeued(@, retry) ELSE Failed(@)]

\* fail() returns True only when it finalized the row.
FailFinalizes(j, token, retry) == HoldsClaim(j, token) /\ ~ Requeues(jobs[j], retry)

-----------------------------------------------------------------------------
(* reap_exhausted *)

\* Bug: the sweep does not look at the lease, only at the attempts.
ExhaustedEvenIfLeased(r) == r.status = "running" /\ r.attempts >= r.max_attempts

\* Bug: the last attempt is not taken for the last one.
ExhaustedStrictly(r) == Expired(r) /\ r.attempts > r.max_attempts

Exhausted(r) == Expired(r) /\ r.attempts >= r.max_attempts

ExhaustedJobs == {j \in JobIds : Exhausted(jobs[j])}

ReapRows ==
    jobs' = [j \in JobIds |-> IF Exhausted(jobs[j]) THEN Failed(jobs[j]) ELSE jobs[j]]

-----------------------------------------------------------------------------
(* Time *)

Aged(r) ==
    CASE r.status = "running" /\ r.lease >= 0 -> [r EXCEPT !.lease = @ - 1]
      [] r.status = "queued" /\ r.run_after > 0 -> [r EXCEPT !.run_after = @ - 1]
      [] OTHER -> r

\* One unit of time passes for every stored timestamp.
Elapse == jobs' = [j \in JobIds |-> Aged(jobs[j])]

=============================================================================
