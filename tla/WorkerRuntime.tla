---------------------------- MODULE WorkerRuntime ----------------------------
(***************************************************************************)
(* The worker runtime (app/worker/runtime.py): processes whose lane slots  *)
(* claim jobs, run their handlers in threads under a heartbeat, finalize   *)
(* them and announce the outcome of agent_response jobs to webhooks; the   *)
(* reaper task; graceful shutdown with a bounded drain; crashes.           *)
(*                                                                         *)
(* A slot is <<p, i>>: the i-th lane task of process p, in the order       *)
(* worker_loop creates them.  A slot's pc is                               *)
(*   idle     between two polls                                            *)
(*   claimed  claim_next() committed, the handler is not started yet       *)
(*            (the await returns, the heavy lane sweeps scratch files)     *)
(*   running  handler thread and heartbeat task exist                      *)
(*   notify   complete()/fail() committed a terminal state; the coroutine  *)
(*            has not yet enqueued the webhook notification                *)
(*   handed   cancelled by shutdown with the handler still in its thread   *)
(*            and registered in in_flight                                  *)
(*   pending  handed, and its handler had not finished at the drain limit  *)
(*   dropped  cancelled likewise, but a later slot of the process runs the *)
(*            same job and overwrote its entry of in_flight                *)
(*                                                                         *)
(* Heartbeats are never obliged to come in time: an event loop that        *)
(* stalls, or a database that refuses heartbeats, lets a lease expire      *)
(* under a live handler, which is what lease_token exists for.             *)
(***************************************************************************)
EXTENDS JobsRepo, Sequences

CONSTANTS
    Procs,          \* worker processes
    SlotLane,       \* the lane of each slot of a process, in creation order
    JOB_KINDS,      \* the registry: kind -> [lane, lease_seconds, retry_in_seconds]
    Registered,     \* the kinds each process registers at startup
    NotifyKinds,    \* kinds whose outcome is announced (agent_response)
    MaxFaults       \* bound on crashes, shutdowns and failed calls

Lanes == {"heavy", "light"}
SlotIdx == 1..Len(SlotLane)
Slots == Procs \X SlotIdx

ASSUME RuntimeAssumption ==
    /\ SlotLane \in Seq(Lanes)
    /\ JOB_KINDS \in [Kinds -> [lane: Lanes, lease_seconds: Nat,
                                retry_in_seconds: Nat \cup {NoRetry}]]
    /\ Registered \in [Procs -> SUBSET Kinds]
    /\ NotifyKinds \subseteq Kinds
    /\ MaxFaults \in Nat

VARIABLES
    proc,           \* process -> up, draining, settling, stopped or crashed
    slot,           \* slot -> what its coroutine and handler thread are doing
    in_flight,      \* process -> (job id -> slot handed off for it, 0: none)
    reaped,         \* process -> jobs reap_exhausted() returned, not announced yet
    webhooks,       \* job -> announcements of each status that were enqueued
    faults          \* faults so far

vars == <<jobs, proc, slot, in_flight, reaped, webhooks, faults>>

Outcomes == {"ok", "exc"}
Announcements == {"completed", "failed"}

SlotStates == [pc: {"idle", "claimed", "running", "notify", "handed", "pending", "dropped"},
               job: JobIds \cup {0}, token: Nat, hb: BOOLEAN,
               outcome: Outcomes \cup {"none"}]

Idle == [pc |-> "idle", job |-> 0, token |-> NoToken, hb |-> FALSE, outcome |-> "none"]

NothingInFlight == [j \in JobIds |-> 0]

Init ==
    /\ JobsInit
    /\ proc = [p \in Procs |-> "up"]
    /\ slot = [s \in Slots |-> Idle]
    /\ in_flight = [p \in Procs |-> NothingInFlight]
    /\ reaped = [p \in Procs |-> {}]
    /\ webhooks = [j \in JobIds |-> [completed |-> 0, failed |-> 0]]
    /\ faults = 0

\* The loop of process p still runs tasks and reaches the database.
Alive(p) == proc[p] \in {"up", "draining", "settling"}

Fault == faults < MaxFaults /\ faults' = faults + 1

-----------------------------------------------------------------------------
(* Callers of enqueue(), and time *)

Enqueue ==
    /\ \E kind \in Kinds, key \in Keys \cup {NoKey}, priority \in Priorities,
          budget \in Budgets, delay \in Delays :
         EnqueueRow(kind, key, priority, budget, delay)
    /\ UNCHANGED <<proc, slot, in_flight, reaped, webhooks, faults>>

Tick ==
    /\ Elapse
    /\ UNCHANGED <<proc, slot, in_flight, reaped, webhooks, faults>>

-----------------------------------------------------------------------------
(* A lane slot: claim, run, finalize, announce *)

KindsForLane(p, lane) == {k \in Registered[p] : JOB_KINDS[k].lane = lane}

Leases(kinds) == {JOB_KINDS[k].lease_seconds : k \in kinds}

\* claim_next() is called before the kind is known, so with the longest lease
\* of the lane; the first heartbeat corrects it to the kind's own.
Claim(p, i) ==
    /\ proc[p] = "up"
    /\ slot[<<p, i>>].pc = "idle"
    /\ LET kinds == KindsForLane(p, SlotLane[i])
       IN  \E j \in JobIds, max_lease \in Leases(kinds) :
             /\ \A l \in Leases(kinds) : l <= max_lease
             /\ ClaimRow(j, kinds, max_lease)
             /\ slot' = [slot EXCEPT ![<<p, i>>] =
                           [Idle EXCEPT !.pc = "claimed", !.job = j,
                                        !.token = jobs[j].attempts + 1]]
    /\ UNCHANGED <<proc, in_flight, reaped, webhooks, faults>>

\* _run_one starts the heartbeat task and the shielded handler thread.
StartHandler(p, i) ==
    /\ proc[p] = "up"
    /\ slot[<<p, i>>].pc = "claimed"
    /\ slot' = [slot EXCEPT ![<<p, i>>] = [@ EXCEPT !.pc = "running", !.hb = TRUE]]
    /\ UNCHANGED <<jobs, proc, in_flight, reaped, webhooks, faults>>

\* The handler thread returns or raises; shutdown does not stop it.
HandlerReturns(p, i) ==
    /\ Alive(p)
    /\ slot[<<p, i>>].pc \in {"running", "handed", "dropped"}
    /\ slot[<<p, i>>].outcome = "none"
    /\ \E o \in Outcomes : slot' = [slot EXCEPT ![<<p, i>>].outcome = o]
    /\ UNCHANGED <<jobs, proc, in_flight, reaped, webhooks, faults>>

\* _heartbeat_loop extends the lease to the kind's own lease_seconds, and
\* ends when the claim is lost.
Heartbeat(p, i) ==
    LET s == slot[<<p, i>>]
    IN  /\ Alive(p)
        /\ s.hb
        /\ IF HoldsClaim(s.job, s.token)
           THEN /\ HeartbeatRow(s.job, JOB_KINDS[jobs[s.job].kind].lease_seconds)
                /\ UNCHANGED slot
           ELSE /\ slot' = [slot EXCEPT ![<<p, i>>].hb = FALSE]
                /\ UNCHANGED jobs
        /\ UNCHANGED <<proc, in_flight, reaped, webhooks, faults>>

\* complete() or fail() for the claim of slot s, by its handler's outcome.
FinalizeRow(s) ==
    IF s.outcome = "ok"
    THEN CompleteRow(s.job, s.token)
    ELSE FailRow(s.job, s.token, JOB_KINDS[jobs[s.job].kind].retry_in_seconds)

\* Bug: announce whatever complete()/fail() returned.
AnnouncesAlways(s) == jobs[s.job].kind \in NotifyKinds

\* complete() returned True, or fail() finalized the job, and it is a job
\* whose outcome is announced.
Announces(s) ==
    /\ jobs[s.job].kind \in NotifyKinds
    /\ IF s.outcome = "ok"
       THEN HoldsClaim(s.job, s.token)
       ELSE FailFinalizes(s.job, s.token, JOB_KINDS[jobs[s.job].kind].retry_in_seconds)

Finalize(p, i) ==
    LET s == slot[<<p, i>>]
    IN  /\ proc[p] = "up"
        /\ s.pc = "running"
        /\ s.outcome # "none"
        /\ FinalizeRow(s)
        /\ slot' = [slot EXCEPT ![<<p, i>>] =
                      IF Announces(s) THEN [s EXCEPT !.pc = "notify", !.hb = FALSE]
                                      ELSE Idle]
        /\ UNCHANGED <<proc, in_flight, reaped, webhooks, faults>>

\* complete()/fail() raised: _lane_slot logs it and goes back to polling.
FinalizeError(p, i) ==
    /\ proc[p] = "up"
    /\ slot[<<p, i>>].pc = "running"
    /\ slot[<<p, i>>].outcome # "none"
    /\ Fault
    /\ slot' = [slot EXCEPT ![<<p, i>>] = Idle]
    /\ UNCHANGED <<jobs, proc, in_flight, reaped, webhooks>>

\* _notify_agent_response_webhooks: best effort, its failure is swallowed.
\* The same step ends the entry of a job that the drain finalized.
Notify(p, i) ==
    LET s == slot[<<p, i>>]
        a == IF s.outcome = "ok" THEN "completed" ELSE "failed"
    IN  /\ Alive(p)
        /\ s.pc = "notify"
        /\ \/ webhooks' = [webhooks EXCEPT ![s.job][a] = @ + 1] /\ UNCHANGED faults
           \/ Fault /\ UNCHANGED webhooks
        /\ slot' = [slot EXCEPT ![<<p, i>>] = Idle]
        /\ in_flight' = [in_flight EXCEPT ![p][s.job] = 0]
        /\ UNCHANGED <<jobs, proc, reaped>>

-----------------------------------------------------------------------------
(* The reaper task *)

\* Bug: the sweep ignores the rows reap_exhausted() returned.
ReapSilently(p) ==
    /\ proc[p] = "up"
    /\ reaped[p] = {}
    /\ ExhaustedJobs # {}
    /\ ReapRows
    /\ UNCHANGED <<proc, slot, in_flight, reaped, webhooks, faults>>

Reap(p) ==
    /\ proc[p] = "up"
    /\ reaped[p] = {}
    /\ ExhaustedJobs # {}
    /\ ReapRows
    /\ reaped' = [reaped EXCEPT ![p] = {j \in ExhaustedJobs : jobs[j].kind \in NotifyKinds}]
    /\ UNCHANGED <<proc, slot, in_flight, webhooks, faults>>

ReapNotify(p, j) ==
    /\ proc[p] = "up"
    /\ j \in reaped[p]
    /\ \/ webhooks' = [webhooks EXCEPT ![j]["failed"] = @ + 1] /\ UNCHANGED faults
       \/ Fault /\ UNCHANGED webhooks
    /\ reaped' = [reaped EXCEPT ![p] = @ \ {j}]
    /\ UNCHANGED <<jobs, proc, slot, in_flight>>

-----------------------------------------------------------------------------
(* Graceful shutdown: cancel every task, then one bounded drain *)

\* Slots of p whose handler thread is still registered with a live coroutine.
Running(p, j) == {i \in SlotIdx : slot[<<p, i>>].pc = "running" /\ slot[<<p, i>>].job = j}

\* in_flight is keyed by job id and the slots are cancelled in creation
\* order, so the last slot running a job keeps the entry.
HandedOff(p, j, i) ==
    \/ i = 0 /\ Running(p, j) = {}
    \/ i \in Running(p, j) /\ \A k \in Running(p, j) : k <= i

\* The entry of a slot that runs its handler is overwritten by that of a
\* later slot running the same job.
Overwritten(p, i) == \E k \in Running(p, slot[<<p, i>>].job) : k > i

\* worker_loop is cancelled.  A slot awaiting its handler hands the thread
\* off; a slot awaiting a jobs-table call waits for the call to commit and
\* then drops its result (a claim is abandoned, an outcome not announced),
\* and so does the reaper.
Shutdown(p) ==
    /\ proc[p] = "up"
    /\ Fault
    /\ proc' = [proc EXCEPT ![p] = "draining"]
    /\ slot' = [s \in Slots |->
                  IF s[1] # p THEN slot[s]
                  ELSE IF slot[s].pc # "running" THEN Idle
                  ELSE [slot[s] EXCEPT !.pc = IF Overwritten(p, s[2]) THEN "dropped"
                                                                      ELSE "handed"]]
    /\ \E entries \in [JobIds -> SlotIdx \cup {0}] :
         /\ \A j \in JobIds : HandedOff(p, j, entries[j])
         /\ in_flight' = [in_flight EXCEPT ![p] = entries]
    /\ reaped' = [reaped EXCEPT ![p] = {}]
    /\ UNCHANGED <<jobs, webhooks>>

\* asyncio.wait(futures, timeout) returns: all registered handlers finished,
\* or the budget is spent.
DrainDeadline(p) ==
    /\ proc[p] = "draining"
    /\ proc' = [proc EXCEPT ![p] = "settling"]
    /\ slot' = [s \in Slots |->
                  IF s[1] = p /\ slot[s].pc = "handed" /\ slot[s].outcome = "none"
                  THEN [slot[s] EXCEPT !.pc = "pending"] ELSE slot[s]]
    /\ UNCHANGED <<jobs, in_flight, reaped, webhooks, faults>>

\* The loop over the registered entries, one at a time.
Settling(p, j) ==
    /\ proc[p] = "settling"
    /\ in_flight[p][j] # 0
    /\ \A k \in SlotIdx : slot[<<p, k>>].pc # "notify"

\* A handler that finished in time is finalized under its own lease_token.
DrainFinalize(p, j) ==
    LET i == in_flight[p][j]
        s == slot[<<p, i>>]
    IN  /\ Settling(p, j)
        /\ s.pc = "handed"
        /\ FinalizeRow(s)
        /\ IF Announces(s)
           THEN /\ slot' = [slot EXCEPT ![<<p, i>>] = [s EXCEPT !.pc = "notify", !.hb = FALSE]]
                /\ UNCHANGED in_flight
           ELSE /\ slot' = [slot EXCEPT ![<<p, i>>] = Idle]
                /\ in_flight' = [in_flight EXCEPT ![p][j] = 0]
        /\ UNCHANGED <<proc, reaped, webhooks, faults>>

\* A handler that did not is left to lease expiry; so is one whose
\* complete()/fail() raises.
DrainAbandon(p, j) ==
    LET i == in_flight[p][j]
    IN  /\ Settling(p, j)
        /\ \/ slot[<<p, i>>].pc = "pending" /\ UNCHANGED faults
           \/ slot[<<p, i>>].pc = "handed" /\ Fault
        /\ slot' = [slot EXCEPT ![<<p, i>>] = Idle]
        /\ in_flight' = [in_flight EXCEPT ![p][j] = 0]
        /\ UNCHANGED <<jobs, proc, reaped, webhooks>>

\* Bug: worker_loop returns without going through the registered entries.
DrainDoneEarly(p) ==
    /\ proc[p] = "settling"
    /\ proc' = [proc EXCEPT ![p] = "stopped"]
    /\ UNCHANGED <<jobs, slot, in_flight, reaped, webhooks, faults>>

\* worker_loop returns; the lifespan closes the database.
DrainDone(p) ==
    /\ proc[p] = "settling"
    /\ in_flight[p] = NothingInFlight
    /\ proc' = [proc EXCEPT ![p] = "stopped"]
    /\ UNCHANGED <<jobs, slot, in_flight, reaped, webhooks, faults>>

\* The process dies with everything it had in memory.
Crash(p) ==
    /\ Alive(p)
    /\ Fault
    /\ proc' = [proc EXCEPT ![p] = "crashed"]
    /\ slot' = [s \in Slots |-> IF s[1] = p THEN Idle ELSE slot[s]]
    /\ in_flight' = [in_flight EXCEPT ![p] = NothingInFlight]
    /\ reaped' = [reaped EXCEPT ![p] = {}]
    /\ UNCHANGED <<jobs, webhooks>>

Restart(p) ==
    /\ proc[p] \in {"stopped", "crashed"}
    /\ proc' = [proc EXCEPT ![p] = "up"]
    /\ slot' = [s \in Slots |-> IF s[1] = p THEN Idle ELSE slot[s]]
    /\ in_flight' = [in_flight EXCEPT ![p] = NothingInFlight]
    /\ UNCHANGED <<jobs, reaped, webhooks, faults>>

-----------------------------------------------------------------------------

SlotNext(p, i) ==
    \/ Claim(p, i)
    \/ StartHandler(p, i)
    \/ HandlerReturns(p, i)
    \/ Heartbeat(p, i)
    \/ Finalize(p, i)
    \/ FinalizeError(p, i)
    \/ Notify(p, i)

ProcNext(p) ==
    \/ Reap(p)
    \/ \E j \in JobIds : ReapNotify(p, j)
    \/ Shutdown(p)
    \/ DrainDeadline(p)
    \/ \E j \in JobIds : DrainFinalize(p, j)
    \/ \E j \in JobIds : DrainAbandon(p, j)
    \/ DrainDone(p)
    \/ Crash(p)
    \/ Restart(p)

Next ==
    \/ Enqueue
    \/ Tick
    \/ \E p \in Procs, i \in SlotIdx : SlotNext(p, i)
    \/ \E p \in Procs : ProcNext(p)

Spec == Init /\ [][Next]_vars

(***************************************************************************)
(* Fairness: the event loop of a live process keeps scheduling its tasks   *)
(* and the supervisor restarts a process that went away; handlers end      *)
(* (each bounds its own work by a timeout).  Nothing is assumed of         *)
(* heartbeats, of callers, or of faults.                                   *)
(***************************************************************************)
Fairness ==
    /\ WF_vars(Tick)
    /\ \A p \in Procs, i \in SlotIdx :
         /\ WF_vars(Claim(p, i))
         /\ WF_vars(StartHandler(p, i))
         /\ WF_vars(HandlerReturns(p, i))
         /\ WF_vars(Finalize(p, i))
         /\ WF_vars(Notify(p, i))
    /\ \A p \in Procs :
         /\ WF_vars(Reap(p))
         /\ WF_vars(\E j \in JobIds : ReapNotify(p, j))
         /\ WF_vars(DrainDeadline(p))
         /\ WF_vars(\E j \in JobIds : DrainFinalize(p, j) \/ DrainAbandon(p, j))
         /\ WF_vars(DrainDone(p))
         /\ WF_vars(Restart(p))

FairSpec == Spec /\ Fairness

-----------------------------------------------------------------------------
(* Properties *)

ProcStates == {"up", "draining", "settling", "stopped", "crashed"}

\* The variables keep their types: rows are rows of the jobs table, slots
\* point at job ids, entries of in_flight at slots.
TypeOK ==
    /\ jobs \in [JobIds -> Rows]
    /\ proc \in [Procs -> ProcStates]
    /\ slot \in [Slots -> SlotStates]
    /\ in_flight \in [Procs -> [JobIds -> SlotIdx \cup {0}]]
    /\ reaped \in [Procs -> SUBSET JobIds]
    /\ webhooks \in [JobIds -> [Announcements -> Nat]]
    /\ faults \in 0..MaxFaults

\* Subscribers hear of a job at most once, and what they hear is the state
\* the job ended in: no late finalization by a slot that lost its lease, no
\* second reaper and no drain announces a job again or differently (the
\* gating of _notify_agent_response_webhooks on what complete(), fail() and
\* reap_exhausted() return).
AnnouncedOnce ==
    \A j \in JobIds :
      /\ webhooks[j]["completed"] + webhooks[j]["failed"] <= 1
      /\ webhooks[j]["completed"] > 0 => jobs[j].status = "done"
      /\ webhooks[j]["failed"] > 0 => jobs[j].status = "failed"

\* The result in payload_json of a done job is the one of the newest claim:
\* a slot whose job was reclaimed never records its own (complete()).
NewestClaimRecorded ==
    \A j \in JobIds : jobs[j].status = "done" => jobs[j].result_of = jobs[j].attempts

\* At most one live job per idempotency key, whatever finishes, retries or
\* is reclaimed between two enqueue() calls with that key.
OneLiveJobPerKey ==
    \A i, j \in JobIds :
      (/\ jobs[i].status \in LiveStatuses /\ jobs[j].status \in LiveStatuses
       /\ jobs[i].key = jobs[j].key /\ jobs[i].key # NoKey) => i = j

\* Claims, retries and crash recovery together never hand a job out more
\* often than max_attempts.
AttemptsWithinBudget ==
    \A j \in JobIds : jobs[j].attempts <= jobs[j].max_attempts

RunsWithoutRetry(j, token) ==
    /\ \E s \in Slots : /\ slot[s].pc \in {"running", "handed", "dropped"}
                        /\ slot[s].job = j /\ slot[s].token = token
    /\ JOB_KINDS[jobs[j].kind].retry_in_seconds = NoRetry

\* "No retry: a fresh retry would re-run run_one_shot and re-send the user's
\* prompt a second time" (agent_response, app/worker/kinds.py): a job of a kind
\* without retry is not run again, under another claim, once it has been run.
NoRetryRunsOnce ==
    \A j \in JobIds : \A a, b \in UNION {1..n : n \in Budgets} :
      a < b => [](RunsWithoutRetry(j, a) => []~ RunsWithoutRetry(j, b))

\* A handler that finished before the shutdown drain's limit has its outcome
\* recorded when worker_loop returns, unless the write failed or its claim was
\* lost, with one exception that the module docstring of app/worker/runtime.py
\* does not make ("Every future that finishes within the window is finalized
\* normally"): a job on its second or later attempt, still run under an earlier
\* claim by another slot of the process, whose in_flight entry replaced its own.
DrainRecordsFinished ==
    \A p \in Procs, i \in SlotIdx :
      LET s == slot[<<p, i>>]
      IN  (/\ proc[p] = "stopped"
           /\ s.pc \in {"handed", "dropped"}
           /\ HoldsClaim(s.job, s.token))
            => s.pc = "dropped" /\ jobs[s.job].attempts > 1

\* The docstring's sentence without that exception.
DrainRecordsAll ==
    \A p \in Procs, i \in SlotIdx :
      LET s == slot[<<p, i>>]
      IN  proc[p] = "stopped" /\ s.pc \in {"handed", "dropped"} /\ s.outcome # "none"
            => ~ HoldsClaim(s.job, s.token)

\* done and failed are final: no row leaves them or changes in them, even
\* though its lease_token stays in the row and slots that lost the job still
\* call heartbeat(), complete() and fail() with theirs.
TerminalIsFinal ==
    [][\A j \in JobIds : jobs[j].status \in TerminalStatuses => jobs'[j] = jobs[j]]_vars

\* While a lease has not expired, only the slot that holds the claim ends or
\* requeues the job: not a slot that lost it, not another claim, not the
\* reaper (claim_next, fail, complete, reap_exhausted taken together).
LeaseProtectsHolder ==
    [][\A j \in JobIds :
         (/\ jobs[j].status = "running" /\ jobs[j].lease >= 0
          /\ <<jobs'[j].status, jobs'[j].lease_token>> # <<jobs[j].status, jobs[j].lease_token>>)
           => \E s \in Slots : /\ slot[s].job = j /\ slot[s].token = jobs[j].lease_token
                               /\ slot[s].outcome # "none"
                               /\ slot'[s] # slot[s]]_vars

\* The abstract view of the queue: which claim is running, who runs it and
\* how long its lease lasts are hidden.
Contract ==
    INSTANCE JobContract WITH
      Ids <- JobIds, KeySet <- Keys, NullKey <- NoKey, BudgetSet <- Budgets,
      state <- [j \in JobIds |-> IF jobs[j].status \in LiveStatuses THEN "open"
                                 ELSE jobs[j].status],
      key <- [j \in JobIds |-> jobs[j].key],
      budget <- [j \in JobIds |-> jobs[j].max_attempts],
      runs <- [j \in JobIds |-> jobs[j].attempts],
      told <- webhooks

\* The runtime implements the contract: every operation of the queue, every
\* crash, shutdown and lost lease is a step of JobContract or invisible.
ImplementsContract == Contract!CSpec

\* Every job ends: whatever crashes, shutdowns and lost leases happen, a
\* queued or running job is reclaimed, retried or reaped until it is done or
\* failed.
EveryJobEnds ==
    \A j \in JobIds : jobs[j].status \in LiveStatuses ~> jobs[j].status \in TerminalStatuses

\* As long as no process is stopped, crashes or has a call refused, every
\* outcome of an agent_response job is announced, including that of a job
\* only the reaper could finalize (_reap_loop).
EveryOutcomeAnnounced ==
    \A j \in JobIds :
      (jobs[j].status \in TerminalStatuses /\ jobs[j].kind \in NotifyKinds)
        ~> (webhooks[j]["completed"] + webhooks[j]["failed"] = 1 \/ faults > 0)

=============================================================================
