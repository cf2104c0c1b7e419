------------------------ MODULE WorkerRuntimeProofs ------------------------
(***************************************************************************)
(* Proofs about the job queue and the worker runtime, for any number of    *)
(* jobs, processes, slots, kinds and faults.                               *)
(*                                                                         *)
(* The argument: RowStep lists the ways one row of the jobs table may      *)
(* change, whichever process acts; RowSteps shows that every step of the   *)
(* specification changes every row in one of those ways.  Facts about rows *)
(* then follow from RowStep alone.  Facts that relate rows to slots and    *)
(* announcements are proved action by action.  Operation names the one     *)
(* repository operation of a step; with it the keys, the leases and the    *)
(* refinement of JobContract are proved operation by operation.            *)
(***************************************************************************)
EXTENDS WorkerRuntime, TLAPS

\* Rows that exist have a kind of the registry; a slot that is not idle
\* points at a row that exists; only such a slot has a heartbeat task.
WellFormed ==
    /\ \A j \in JobIds : jobs[j].status # "absent" => jobs[j].kind \in Kinds
    /\ \A s \in Slots : slot[s].pc # "idle" =>
         slot[s].job \in JobIds /\ jobs[slot[s].job].status # "absent"
    /\ \A s \in Slots : slot[s].hb => slot[s].pc # "idle"

TypeInv == TypeOK /\ WellFormed

-----------------------------------------------------------------------------
(* What the row operators return *)

\* Writing a value of the column's type into one column of a row gives a row.
LEMMA WriteColumn ==
    ASSUME NEW r \in Rows
    PROVE  /\ \A x \in LiveStatuses \cup TerminalStatuses : [r EXCEPT !.status = x] \in Rows
           /\ \A x \in Nat : [r EXCEPT !.attempts = x] \in Rows
           /\ \A x \in Nat : [r EXCEPT !.lease_token = x] \in Rows
           /\ \A x \in Int : [r EXCEPT !.lease = x] \in Rows
           /\ \A x \in Nat : [r EXCEPT !.run_after = x] \in Rows
           /\ \A x \in Nat : [r EXCEPT !.result_of = x] \in Rows
<1>1. \A x \in LiveStatuses \cup TerminalStatuses : [r EXCEPT !.status = x] \in Rows
  BY DEF Rows, Statuses, LiveStatuses, TerminalStatuses
<1>2. \A x \in Nat : [r EXCEPT !.attempts = x] \in Rows
  BY DEF Rows
<1>3. \A x \in Nat : [r EXCEPT !.lease_token = x] \in Rows
  BY DEF Rows
<1>4. \A x \in Int : [r EXCEPT !.lease = x] \in Rows
  BY DEF Rows
<1>5. \A x \in Nat : [r EXCEPT !.run_after = x] \in Rows
  BY DEF Rows
<1>6. \A x \in Nat : [r EXCEPT !.result_of = x] \in Rows
  BY DEF Rows
<1> QED
  BY <1>1, <1>2, <1>3, <1>4, <1>5, <1>6

\* Every value an operation writes into a row is again a row, and the
\* operation changes exactly the columns it names.
LEMMA ClaimedRow ==
    ASSUME NEW r \in Rows, NEW l \in Int
    PROVE  /\ Claimed(r, l) \in Rows
           /\ Claimed(r, l).status = "running"
           /\ Claimed(r, l).kind = r.kind
           /\ Claimed(r, l).key = r.key
           /\ Claimed(r, l).attempts = r.attempts + 1
           /\ Claimed(r, l).max_attempts = r.max_attempts
           /\ Claimed(r, l).lease_token = r.attempts + 1
           /\ Claimed(r, l).result_of = r.result_of
<1> DEFINE r1 == [r EXCEPT !.status = "running"]
           r2 == [r1 EXCEPT !.attempts = r.attempts + 1]
           r3 == [r2 EXCEPT !.lease_token = r.attempts + 1]
           r4 == [r3 EXCEPT !.lease = l]
<1>1. r \in Rows /\ r.attempts + 1 \in Nat
  BY DEF Rows
<1>2. r1 \in Rows
  BY <1>1, WriteColumn DEF LiveStatuses, TerminalStatuses
<1>3. r2 \in Rows
  BY <1>1, <1>2, WriteColumn
<1>4. r3 \in Rows
  BY <1>1, <1>3, WriteColumn
<1>5. r4 \in Rows
  BY <1>1, <1>4, WriteColumn
<1>6. Claimed(r, l) = r4
  BY DEF Claimed, Rows
<1> QED
  BY <1>5, <1>6 DEF Rows

\* complete() writes status, lease and the merged result, and keeps the
\* rest of the row: lease_token too.
LEMMA CompletedRow ==
    ASSUME NEW r \in Rows, NEW t \in Nat
    PROVE  /\ Completed(r, t) \in Rows
           /\ Completed(r, t).status = "done"
           /\ Completed(r, t).kind = r.kind
           /\ Completed(r, t).key = r.key
           /\ Completed(r, t).attempts = r.attempts
           /\ Completed(r, t).max_attempts = r.max_attempts
           /\ Completed(r, t).result_of = t
<1> DEFINE r1 == [r EXCEPT !.status = "done"]
           r2 == [r1 EXCEPT !.lease = 0]
           r3 == [r2 EXCEPT !.result_of = t]
<1>1. r \in Rows /\ 0 \in Int
  BY DEF Rows
<1>2. r1 \in Rows
  BY <1>1, WriteColumn DEF LiveStatuses, TerminalStatuses
<1>3. r2 \in Rows
  BY <1>1, <1>2, WriteColumn
<1>4. r3 \in Rows
  BY <1>1, <1>3, WriteColumn
<1>5. Completed(r, t) = r3
  BY DEF Completed, Rows
<1> QED
  BY <1>4, <1>5 DEF Rows

\* A finalizing fail() and the reaper write status and lease only.
LEMMA FailedRow ==
    ASSUME NEW r \in Rows
    PROVE  /\ Failed(r) \in Rows
           /\ Failed(r).status = "failed"
           /\ Failed(r).kind = r.kind
           /\ Failed(r).key = r.key
           /\ Failed(r).attempts = r.attempts
           /\ Failed(r).max_attempts = r.max_attempts
<1> DEFINE r1 == [r EXCEPT !.status = "failed"]
           r2 == [r1 EXCEPT !.lease = 0]
<1>1. r \in Rows /\ 0 \in Int
  BY DEF Rows
<1>2. r1 \in Rows
  BY <1>1, WriteColumn DEF LiveStatuses, TerminalStatuses
<1>3. r2 \in Rows
  BY <1>1, <1>2, WriteColumn
<1>4. Failed(r) = r2
  BY DEF Failed, Rows
<1> QED
  BY <1>3, <1>4 DEF Rows

\* A requeueing fail() clears the claim and keeps attempts and budget.
LEMMA RequeuedRow ==
    ASSUME NEW r \in Rows, NEW n \in Nat
    PROVE  /\ Requeued(r, n) \in Rows
           /\ Requeued(r, n).status = "queued"
           /\ Requeued(r, n).kind = r.kind
           /\ Requeued(r, n).key = r.key
           /\ Requeued(r, n).attempts = r.attempts
           /\ Requeued(r, n).max_attempts = r.max_attempts
<1> DEFINE r1 == [r EXCEPT !.status = "queued"]
           r2 == [r1 EXCEPT !.run_after = n]
           r3 == [r2 EXCEPT !.lease = 0]
           r4 == [r3 EXCEPT !.lease_token = NoToken]
<1>1. r \in Rows /\ 0 \in Int /\ NoToken \in Nat
  BY DEF Rows, NoToken
<1>2. r1 \in Rows
  BY <1>1, WriteColumn DEF LiveStatuses, TerminalStatuses
<1>3. r2 \in Rows
  BY <1>1, <1>2, WriteColumn
<1>4. r3 \in Rows
  BY <1>1, <1>3, WriteColumn
<1>5. r4 \in Rows
  BY <1>1, <1>4, WriteColumn
<1>6. Requeued(r, n) = r4
  BY DEF Requeued, NoToken, Rows
<1> QED
  BY <1>5, <1>6 DEF Rows

\* enqueue() inserts a queued row that was never attempted.
LEMMA InsertedRow ==
    ASSUME NEW kind \in Kinds, NEW key \in Keys \cup {NoKey}, NEW priority \in Priorities,
           NEW b \in Budgets, NEW d \in Delays
    PROVE  /\ Inserted(kind, key, priority, b, d) \in Rows
           /\ Inserted(kind, key, priority, b, d).status = "queued"
           /\ Inserted(kind, key, priority, b, d).kind = kind
           /\ Inserted(kind, key, priority, b, d).key = key
           /\ Inserted(kind, key, priority, b, d).attempts = 0
           /\ Inserted(kind, key, priority, b, d).max_attempts = b
           /\ b \in Nat \ {0}
BY RepoAssumption DEF Inserted, Rows, Statuses, NoToken

-----------------------------------------------------------------------------
(* How one row may change *)

Created(r, q) ==
    /\ r.status = "absent"
    /\ \E kind \in Kinds, key \in Keys \cup {NoKey}, priority \in Priorities,
          b \in Budgets, d \in Delays : q = Inserted(kind, key, priority, b, d)

HandedOut(r, q) ==
    /\ r.status = "queued" \/ Reclaimable(r)
    /\ \E l \in Int : q = Claimed(r, l)

Retried(r, q) ==
    /\ r.status = "running" /\ r.attempts < r.max_attempts
    /\ \E n \in Nat : q = Requeued(r, n)

Retimed(r, q) ==
    \/ r.status = "running" /\ \E l \in Int : q = [r EXCEPT !.lease = l]
    \/ r.status = "queued" /\ \E n \in Nat : q = [r EXCEPT !.run_after = n]

RowStep(r, q) ==
    \/ q = r
    \/ Created(r, q)
    \/ HandedOut(r, q)
    \/ Retried(r, q)
    \/ Retimed(r, q)
    \/ r.status = "running" /\ q = Completed(r, r.lease_token)
    \/ r.status = "running" /\ q = Failed(r)

\* A row step keeps the row's type; a row that exists keeps existing, and
\* keeps its kind, key and budget.
LEMMA RowStepKeeps ==
    ASSUME NEW r \in Rows, NEW q, RowStep(r, q)
    PROVE  /\ q \in Rows
           /\ r.status # "absent" => /\ q.status # "absent"
                                     /\ q.kind = r.kind
                                     /\ q.key = r.key
                                     /\ q.max_attempts = r.max_attempts
           /\ r.status = "absent" /\ q # r => q.status = "queued" /\ q.kind \in Kinds
<1>1. CASE q = r
  BY <1>1
<1>2. CASE Created(r, q)
  BY <1>2, InsertedRow DEF Created
<1>3. CASE HandedOut(r, q)
  BY <1>3, ClaimedRow DEF HandedOut, Reclaimable, Expired
<1>4. CASE Retried(r, q)
  BY <1>4, RequeuedRow DEF Retried
<1>5. CASE Retimed(r, q)
  <2>1. q \in Rows
    BY <1>5, WriteColumn DEF Retimed
  <2> QED
    BY <1>5, <2>1 DEF Retimed, Rows
<1>6. CASE r.status = "running" /\ q = Completed(r, r.lease_token)
  <2>1. r.lease_token \in Nat
    BY DEF Rows
  <2> QED
    BY <1>6, <2>1, CompletedRow
<1>7. CASE r.status = "running" /\ q = Failed(r)
  BY <1>7, FailedRow
<1> QED
  BY <1>1, <1>2, <1>3, <1>4, <1>5, <1>6, <1>7 DEF RowStep

TableStep == jobs' \in [JobIds -> Rows] /\ \A j \in JobIds : RowStep(jobs[j], jobs'[j])

-----------------------------------------------------------------------------
(* Every operation of the repository changes rows by row steps only *)

\* enqueue() fills one absent row and touches no other.
LEMMA EnqueueStep ==
    ASSUME jobs \in [JobIds -> Rows],
           NEW kind \in Kinds, NEW key \in Keys \cup {NoKey}, NEW priority \in Priorities,
           NEW b \in Budgets, NEW d \in Delays,
           EnqueueRow(kind, key, priority, b, d)
    PROVE  TableStep
<1>1. PICK j \in JobIds : /\ jobs[j].status = "absent"
                          /\ jobs' = [jobs EXCEPT ![j] = Inserted(kind, key, priority, b, d)]
  BY DEF EnqueueRow
<1>2. RowStep(jobs[j], Inserted(kind, key, priority, b, d))
  BY <1>1 DEF RowStep, Created
<1>3. \A i \in JobIds : RowStep(jobs[i], jobs'[i])
  BY <1>1, <1>2 DEF RowStep
<1> QED
  BY <1>1, <1>3, InsertedRow DEF TableStep

\* claim_next() takes one eligible row: queued, or expired with budget left.
LEMMA ClaimStep ==
    ASSUME jobs \in [JobIds -> Rows], NEW j \in JobIds, NEW kinds, NEW l \in Int,
           ClaimRow(j, kinds, l)
    PROVE  TableStep
<1>1. /\ jobs' = [jobs EXCEPT ![j] = Claimed(jobs[j], l)]
      /\ jobs[j].status = "queued" \/ Reclaimable(jobs[j])
  BY DEF ClaimRow, Selected, Eligible
<1>2. RowStep(jobs[j], Claimed(jobs[j], l))
  BY <1>1 DEF RowStep, HandedOut
<1>3. \A i \in JobIds : RowStep(jobs[i], jobs'[i])
  BY <1>1, <1>2 DEF RowStep
<1> QED
  BY <1>1, <1>3, ClaimedRow DEF TableStep

\* heartbeat() of a slot that holds the claim only moves its lease.
LEMMA HeartbeatStep ==
    ASSUME jobs \in [JobIds -> Rows], NEW j \in JobIds, NEW t, NEW l \in Int,
           HoldsClaim(j, t), HeartbeatRow(j, l)
    PROVE  TableStep
<1>1. jobs' = [jobs EXCEPT ![j] = [jobs[j] EXCEPT !.lease = l]]
  BY DEF HeartbeatRow
<1>2. RowStep(jobs[j], [jobs[j] EXCEPT !.lease = l])
  BY DEF RowStep, Retimed, HoldsClaim
<1>3. \A i \in JobIds : RowStep(jobs[i], jobs'[i])
  BY <1>1, <1>2 DEF RowStep
<1> QED
  BY <1>1, <1>3, WriteColumn DEF TableStep

\* complete() ends the row of its own claim, or changes nothing.
LEMMA CompleteStep ==
    ASSUME jobs \in [JobIds -> Rows], NEW j \in JobIds, NEW t \in Nat, CompleteRow(j, t)
    PROVE  TableStep
<1>1. CASE HoldsClaim(j, t)
  <2>1. jobs' = [jobs EXCEPT ![j] = Completed(jobs[j], t)]
    BY <1>1 DEF CompleteRow
  <2>2. RowStep(jobs[j], Completed(jobs[j], t))
    BY <1>1 DEF RowStep, HoldsClaim
  <2>3. \A i \in JobIds : RowStep(jobs[i], jobs'[i])
    BY <2>1, <2>2 DEF RowStep
  <2> QED
    BY <2>1, <2>3, CompletedRow DEF TableStep
<1>2. CASE ~ HoldsClaim(j, t)
  <2>1. jobs' = jobs
    BY <1>2 DEF CompleteRow
  <2> QED
    BY <2>1 DEF TableStep, RowStep
<1> QED
  BY <1>1, <1>2

\* fail() requeues or ends the row of its own claim, or changes nothing.
LEMMA FailStep ==
    ASSUME jobs \in [JobIds -> Rows], NEW j \in JobIds, NEW t, NEW retry \in Nat \cup {NoRetry},
           FailRow(j, t, retry)
    PROVE  TableStep
<1>1. CASE ~ HoldsClaim(j, t)
  <2>1. jobs' = jobs
    BY <1>1 DEF FailRow
  <2> QED
    BY <2>1 DEF TableStep, RowStep
<1>2. CASE HoldsClaim(j, t) /\ Requeues(jobs[j], retry)
  <2>1. jobs' = [jobs EXCEPT ![j] = Requeued(jobs[j], retry)]
    BY <1>2 DEF FailRow
  <2>2. retry \in Nat
    BY <1>2 DEF Requeues
  <2>3. RowStep(jobs[j], Requeued(jobs[j], retry))
    BY <1>2, <2>2 DEF RowStep, Retried, HoldsClaim, Requeues
  <2>4. \A i \in JobIds : RowStep(jobs[i], jobs'[i])
    BY <2>1, <2>3 DEF RowStep
  <2> QED
    BY <2>1, <2>2, <2>4, RequeuedRow DEF TableStep
<1>3. CASE HoldsClaim(j, t) /\ ~ Requeues(jobs[j], retry)
  <2>1. jobs' = [jobs EXCEPT ![j] = Failed(jobs[j])]
    BY <1>3 DEF FailRow
  <2>2. RowStep(jobs[j], Failed(jobs[j]))
    BY <1>3 DEF RowStep, HoldsClaim
  <2>3. \A i \in JobIds : RowStep(jobs[i], jobs'[i])
    BY <2>1, <2>2 DEF RowStep
  <2> QED
    BY <2>1, <2>3, FailedRow DEF TableStep
<1> QED
  BY <1>1, <1>2, <1>3

\* reap_exhausted() ends expired rows without budget and no others.
LEMMA ReapStep ==
    ASSUME jobs \in [JobIds -> Rows], ReapRows
    PROVE  TableStep
<1>1. jobs' = [j \in JobIds |-> IF Exhausted(jobs[j]) THEN Failed(jobs[j]) ELSE jobs[j]]
  BY DEF ReapRows
<1>2. \A j \in JobIds : RowStep(jobs[j], jobs'[j])
  BY <1>1 DEF RowStep, Exhausted, Expired
<1> QED
  BY <1>1, <1>2, FailedRow DEF TableStep

\* The passing of time only moves the lease of a running row and the
\* run_after of a queued one.
LEMMA ElapseStep ==
    ASSUME jobs \in [JobIds -> Rows], Elapse
    PROVE  TableStep
<1>1. \A j \in JobIds : jobs'[j] = Aged(jobs[j])
  BY DEF Elapse
<1>2. ASSUME NEW r \in Rows
      PROVE  RowStep(r, Aged(r))
  <2>1. CASE r.status = "running" /\ r.lease >= 0
    <3>1. r.lease - 1 \in Int /\ Aged(r) = [r EXCEPT !.lease = r.lease - 1]
      BY <2>1 DEF Aged, Rows
    <3> QED
      BY <2>1, <3>1 DEF RowStep, Retimed
  <2>2. CASE r.status = "queued" /\ r.run_after > 0
    <3>1. r.run_after - 1 \in Nat /\ Aged(r) = [r EXCEPT !.run_after = r.run_after - 1]
      BY <2>2 DEF Aged, Rows
    <3> QED
      BY <2>2, <3>1 DEF RowStep, Retimed
  <2>3. CASE ~ (r.status = "running" /\ r.lease >= 0) /\ ~ (r.status = "queued" /\ r.run_after > 0)
    <3>1. Aged(r) = r
      BY <2>3 DEF Aged
    <3> QED
      BY <3>1 DEF RowStep
  <2> QED
    BY <2>1, <2>2, <2>3
<1>3. \A j \in JobIds : RowStep(jobs[j], jobs'[j])
  BY <1>1, <1>2
<1>4. \A j \in JobIds : jobs'[j] \in Rows
  BY <1>3, RowStepKeeps
<1> QED
  BY <1>3, <1>4 DEF TableStep, Elapse

-----------------------------------------------------------------------------
(* Every step of the specification changes rows by row steps only *)

\* The finalization of a slot is a complete() or a fail() of its own claim.
LEMMA FinalizeStep ==
    ASSUME TypeInv, NEW s \in Slots, slot[s].pc # "idle", FinalizeRow(slot[s])
    PROVE  TableStep
<1>1. /\ jobs \in [JobIds -> Rows]
      /\ slot[s].job \in JobIds
      /\ slot[s].token \in Nat
      /\ jobs[slot[s].job].kind \in Kinds
  BY DEF TypeInv, TypeOK, WellFormed, SlotStates
<1>2. JOB_KINDS[jobs[slot[s].job].kind].retry_in_seconds \in Nat \cup {NoRetry}
  BY <1>1, RuntimeAssumption
<1> QED
  BY <1>1, <1>2, CompleteStep, FailStep DEF FinalizeRow

\* Every step of the specification changes every row by a row step (or not).
LEMMA RowSteps ==
    ASSUME TypeInv, [Next]_vars
    PROVE  TableStep
<1>0. jobs \in [JobIds -> Rows]
  BY DEF TypeInv, TypeOK
<1>a. ASSUME UNCHANGED jobs
      PROVE  TableStep
  BY <1>0, <1>a DEF TableStep, RowStep
<1>1. CASE Enqueue
  BY <1>0, <1>1, EnqueueStep DEF Enqueue
<1>2. CASE Tick
  BY <1>0, <1>2, ElapseStep DEF Tick
<1>3. ASSUME NEW p \in Procs, NEW i \in SlotIdx, SlotNext(p, i)
      PROVE  TableStep
  <2>0. <<p, i>> \in Slots
    BY DEF Slots
  <2>1. CASE Claim(p, i)
    <3>1. PICK j \in JobIds, l \in Leases(KindsForLane(p, SlotLane[i])) :
            ClaimRow(j, KindsForLane(p, SlotLane[i]), l)
      BY <2>1 DEF Claim
    <3>2. l \in Int
      BY RuntimeAssumption DEF Leases, KindsForLane
    <3> QED
      BY <1>0, <3>1, <3>2, ClaimStep
  <2>2. CASE Heartbeat(p, i)
    <3>1. CASE HoldsClaim(slot[<<p, i>>].job, slot[<<p, i>>].token)
      <4>1. slot[<<p, i>>].job \in JobIds /\ jobs[slot[<<p, i>>].job].kind \in Kinds
        BY <2>0, <2>2 DEF Heartbeat, TypeInv, TypeOK, WellFormed, SlotStates
      <4>2. JOB_KINDS[jobs[slot[<<p, i>>].job].kind].lease_seconds \in Int
        BY <4>1, RuntimeAssumption
      <4> QED
        BY <1>0, <2>2, <3>1, <4>1, <4>2, HeartbeatStep DEF Heartbeat
    <3>2. CASE ~ HoldsClaim(slot[<<p, i>>].job, slot[<<p, i>>].token)
      BY <1>a, <2>2, <3>2 DEF Heartbeat
    <3> QED
      BY <3>1, <3>2
  <2>3. CASE Finalize(p, i)
    BY <2>0, <2>3, FinalizeStep DEF Finalize
  <2>4. CASE StartHandler(p, i) \/ HandlerReturns(p, i) \/ FinalizeError(p, i) \/ Notify(p, i)
    BY <1>a, <2>4 DEF StartHandler, HandlerReturns, FinalizeError, Notify
  <2> QED
    BY <1>3, <2>1, <2>2, <2>3, <2>4 DEF SlotNext
<1>4. ASSUME NEW p \in Procs, ProcNext(p)
      PROVE  TableStep
  <2>1. CASE Reap(p)
    BY <1>0, <2>1, ReapStep DEF Reap
  <2>2. ASSUME NEW j \in JobIds, DrainFinalize(p, j)
        PROVE  TableStep
    <3>1. <<p, in_flight[p][j]>> \in Slots
      BY <2>2 DEF DrainFinalize, Settling, Slots, TypeInv, TypeOK
    <3> QED
      BY <2>2, <3>1, FinalizeStep DEF DrainFinalize
  <2>3. CASE \/ \E j \in JobIds : ReapNotify(p, j) \/ DrainAbandon(p, j)
             \/ Shutdown(p) \/ DrainDeadline(p) \/ DrainDone(p) \/ Crash(p) \/ Restart(p)
    BY <1>a, <2>3 DEF ReapNotify, DrainAbandon, Shutdown, DrainDeadline, DrainDone, Crash, Restart
  <2> QED
    BY <1>4, <2>1, <2>2, <2>3 DEF ProcNext
<1>5. CASE UNCHANGED vars
  BY <1>a, <1>5 DEF vars
<1> QED
  BY <1>1, <1>2, <1>3, <1>4, <1>5 DEF Next

-----------------------------------------------------------------------------
(* How one slot may change *)

\* A slot is left alone, reset, moved along with the same claim, or given
\* the claim that this step adds to the table.
SlotStep(s) ==
    \/ slot'[s] = slot[s]
    \/ slot'[s] = Idle
    \/ /\ slot[s].pc # "idle"
       /\ slot'[s] \in SlotStates
       /\ slot'[s].pc # "idle"
       /\ slot'[s].job = slot[s].job
       /\ slot'[s].token = slot[s].token
    \/ /\ slot'[s] \in SlotStates
       /\ slot'[s].job \in JobIds
       /\ jobs'[slot'[s].job].status # "absent"
       /\ slot'[s].pc = "claimed"
       /\ slot'[s].token = jobs[slot'[s].job].attempts + 1
       /\ jobs'[slot'[s].job].attempts = slot'[s].token
       /\ JOB_KINDS[jobs'[slot'[s].job].kind].lane = SlotLane[s[2]]

\* The slots after the step, and the variables that only shutdown, drain,
\* reaper and webhooks touch, have their types.
OthersTyped ==
    /\ proc' \in [Procs -> ProcStates]
    /\ in_flight' \in [Procs -> [JobIds -> SlotIdx \cup {0}]]
    /\ reaped' \in [Procs -> SUBSET JobIds]
    /\ webhooks' \in [JobIds -> [Announcements -> Nat]]
    /\ faults' \in 0..MaxFaults

SlotsStep ==
    /\ DOMAIN slot' = Slots
    /\ slot' = [s \in Slots |-> slot'[s]]
    /\ \A s \in Slots : SlotStep(s)

\* Counting one more announcement gives counts of announcements.
LEMMA CountedTyped ==
    ASSUME NEW w \in [JobIds -> [Announcements -> Nat]], NEW j \in JobIds,
           NEW a \in Announcements
    PROVE  [w EXCEPT ![j][a] = @ + 1] \in [JobIds -> [Announcements -> Nat]]
<1>1. [w[j] EXCEPT ![a] = @ + 1] \in [Announcements -> Nat]
  OBVIOUS
<1>2. [w EXCEPT ![j] = [w[j] EXCEPT ![a] = @ + 1]] \in [JobIds -> [Announcements -> Nat]]
  BY <1>1
<1> QED
  BY <1>2

\* The values the actions write into a slot are slot states.
LEMMA WriteSlot ==
    ASSUME NEW x \in SlotStates
    PROVE  /\ \A h \in BOOLEAN, c \in {"running", "notify", "handed", "pending"} :
                /\ [x EXCEPT !.pc = c, !.hb = h] \in SlotStates
                /\ [x EXCEPT !.pc = c, !.hb = h].pc = c
                /\ [x EXCEPT !.pc = c, !.hb = h].job = x.job
                /\ [x EXCEPT !.pc = c, !.hb = h].token = x.token
           /\ \A c \in {"running", "notify", "handed", "pending"} :
                /\ [x EXCEPT !.pc = c] \in SlotStates
                /\ [x EXCEPT !.pc = c].pc = c
                /\ [x EXCEPT !.pc = c].job = x.job
                /\ [x EXCEPT !.pc = c].token = x.token
           /\ \A o \in Outcomes :
                /\ [x EXCEPT !.outcome = o] \in SlotStates
                /\ [x EXCEPT !.outcome = o].pc = x.pc
                /\ [x EXCEPT !.outcome = o].job = x.job
                /\ [x EXCEPT !.outcome = o].token = x.token
<1>1. \A c \in {"running", "notify", "handed", "pending"} :
        /\ [x EXCEPT !.pc = c] \in SlotStates
        /\ [x EXCEPT !.pc = c].pc = c
        /\ [x EXCEPT !.pc = c].job = x.job
        /\ [x EXCEPT !.pc = c].token = x.token
  BY DEF SlotStates
<1>2. \A y \in SlotStates, h \in BOOLEAN :
        /\ [y EXCEPT !.hb = h] \in SlotStates
        /\ [y EXCEPT !.hb = h].pc = y.pc
        /\ [y EXCEPT !.hb = h].job = y.job
        /\ [y EXCEPT !.hb = h].token = y.token
  BY DEF SlotStates
<1>3. \A o \in Outcomes :
        /\ [x EXCEPT !.outcome = o] \in SlotStates
        /\ [x EXCEPT !.outcome = o].pc = x.pc
        /\ [x EXCEPT !.outcome = o].job = x.job
        /\ [x EXCEPT !.outcome = o].token = x.token
  BY DEF SlotStates, Outcomes
<1>4. ASSUME NEW h \in BOOLEAN, NEW c \in {"running", "notify", "handed", "pending"}
      PROVE  /\ [x EXCEPT !.pc = c, !.hb = h] \in SlotStates
             /\ [x EXCEPT !.pc = c, !.hb = h].pc = c
             /\ [x EXCEPT !.pc = c, !.hb = h].job = x.job
             /\ [x EXCEPT !.pc = c, !.hb = h].token = x.token
  <2> DEFINE y == [x EXCEPT !.pc = c]
  <2>1. y \in SlotStates /\ y.pc = c /\ y.job = x.job /\ y.token = x.token
    BY <1>1
  <2>2. [x EXCEPT !.pc = c, !.hb = h] = [y EXCEPT !.hb = h]
    BY DEF SlotStates
  <2> HIDE DEF y
  <2> QED
    BY <1>2, <2>1, <2>2
<1> QED
  BY <1>1, <1>3, <1>4

\* An action of a slot keeps the types of all it writes, and a slot that
\* is not idle afterwards points at a row that exists.
LEMMA SlotActionTyped ==
    ASSUME TypeInv, NEW p \in Procs, NEW i \in SlotIdx, SlotNext(p, i)
    PROVE  OthersTyped /\ SlotsStep
<1> DEFINE s == <<p, i>>
<1>0. /\ s \in Slots
      /\ slot \in [Slots -> SlotStates]
      /\ jobs \in [JobIds -> Rows]
      /\ slot[s] \in SlotStates
      /\ slot[s].pc # "idle" => slot[s].job \in JobIds
  BY DEF Slots, TypeInv, TypeOK, WellFormed
<1>1. CASE Claim(p, i)
  <2>1. PICK j \in JobIds, l \in Leases(KindsForLane(p, SlotLane[i])) :
          /\ ClaimRow(j, KindsForLane(p, SlotLane[i]), l)
          /\ slot' = [slot EXCEPT ![s] = [Idle EXCEPT !.pc = "claimed", !.job = j,
                                                      !.token = jobs[j].attempts + 1]]
    BY <1>1 DEF Claim
  <2>2. l \in Int /\ jobs[j] \in Rows /\ jobs[j].attempts \in Nat
    BY <1>0, RuntimeAssumption DEF Leases, KindsForLane, Rows
  <2>3. /\ jobs'[j].status = "running" /\ jobs'[j].attempts = jobs[j].attempts + 1
        /\ jobs'[j].kind = jobs[j].kind
    BY <1>0, <2>1, <2>2, ClaimedRow DEF ClaimRow
  <2>l. JOB_KINDS[jobs[j].kind].lane = SlotLane[s[2]]
    BY <2>1 DEF ClaimRow, Selected, Eligible, KindsForLane
  <2>4. /\ slot'[s] = [pc |-> "claimed", job |-> j, token |-> jobs[j].attempts + 1,
                       hb |-> FALSE, outcome |-> "none"]
        /\ \A t \in Slots \ {s} : slot'[t] = slot[t]
        /\ DOMAIN slot' = Slots
        /\ slot' = [t \in Slots |-> slot'[t]]
    BY <1>0, <2>1 DEF Idle
  <2>5. SlotStep(s)
    BY <2>2, <2>3, <2>4, <2>l DEF SlotStep, SlotStates
  <2> QED
    BY <1>1, <2>4, <2>5 DEF Claim, OthersTyped, SlotsStep, SlotStep, TypeInv, TypeOK
<1>a. ASSUME NEW x, slot' = [slot EXCEPT ![s] = x],
             \/ x = Idle
             \/ /\ slot[s].pc # "idle" /\ x \in SlotStates /\ x.pc # "idle"
                /\ x.job = slot[s].job /\ x.token = slot[s].token
      PROVE  SlotsStep
  BY <1>0, <1>a DEF SlotsStep, SlotStep
<1>b. ASSUME UNCHANGED <<proc, in_flight, reaped, webhooks, faults>>
      PROVE  OthersTyped
  BY <1>b DEF OthersTyped, TypeInv, TypeOK
<1>2. CASE StartHandler(p, i)
  <2>1. SlotsStep
    BY <1>0, <1>2, <1>a, WriteSlot DEF StartHandler
  <2> QED
    BY <1>2, <1>b, <2>1 DEF StartHandler
<1>3. CASE HandlerReturns(p, i)
  <2>1. PICK o \in Outcomes : slot' = [slot EXCEPT ![s].outcome = o]
    BY <1>3 DEF HandlerReturns
  <2> DEFINE x == [slot[s] EXCEPT !.outcome = o]
  <2>2. slot' = [slot EXCEPT ![s] = x]
    BY <1>0, <2>1
  <2>3. slot[s].pc # "idle"
    BY <1>3 DEF HandlerReturns
  <2>4. x \in SlotStates /\ x.pc = slot[s].pc /\ x.job = slot[s].job /\ x.token = slot[s].token
    BY <1>0 DEF SlotStates, Outcomes
  <2> HIDE DEF x
  <2>5. SlotsStep
    BY <1>a, <2>2, <2>3, <2>4
  <2> QED
    BY <1>3, <1>b, <2>5 DEF HandlerReturns
<1>4. CASE Heartbeat(p, i)
  <2>0. OthersTyped
    BY <1>4, <1>b DEF Heartbeat
  <2>1. CASE slot' = slot
    <3>1. DOMAIN slot' = Slots /\ slot' = [t \in Slots |-> slot'[t]]
      BY <1>0, <2>1
    <3>2. \A t \in Slots : slot'[t] = slot[t]
      BY <2>1
    <3> QED
      BY <2>0, <3>1, <3>2 DEF SlotsStep, SlotStep
  <2>2. CASE slot' = [slot EXCEPT ![s] = [slot[s] EXCEPT !.hb = FALSE]]
    <3> DEFINE x == [slot[s] EXCEPT !.hb = FALSE]
    <3>1. x \in SlotStates /\ x.pc = slot[s].pc /\ x.job = slot[s].job /\ x.token = slot[s].token
      BY <1>0 DEF SlotStates
    <3>2. slot[s].pc # "idle"
      BY <1>0, <1>4 DEF Heartbeat, TypeInv, WellFormed
    <3>3. slot' = [slot EXCEPT ![s] = x]
      BY <2>2
    <3> HIDE DEF x
    <3> QED
      BY <1>a, <2>0, <3>1, <3>2, <3>3
  <2> QED
    BY <1>4, <2>1, <2>2 DEF Heartbeat
<1>5. CASE Finalize(p, i)
  <2> DEFINE x == IF Announces(slot[s]) THEN [slot[s] EXCEPT !.pc = "notify", !.hb = FALSE] ELSE Idle
  <2>1. slot' = [slot EXCEPT ![s] = x] /\ slot[s].pc # "idle"
    BY <1>5 DEF Finalize
  <2>2. \/ x = Idle
        \/ /\ x \in SlotStates /\ x.pc # "idle"
           /\ x.job = slot[s].job /\ x.token = slot[s].token
    <3>1. CASE Announces(slot[s])
      BY <1>0, <3>1, WriteSlot, ZenonT(40)
    <3>2. CASE ~ Announces(slot[s])
      BY <3>2
    <3> QED
      BY <3>1, <3>2
  <2> HIDE DEF x
  <2>3. SlotsStep
    BY <1>a, <2>1, <2>2
  <2> QED
    BY <1>5, <1>b, <2>3 DEF Finalize
<1>6. CASE FinalizeError(p, i)
  <2>1. SlotsStep
    BY <1>6, <1>a DEF FinalizeError
  <2>2. faults' \in 0..MaxFaults
    BY <1>6, RuntimeAssumption DEF FinalizeError, Fault, TypeInv, TypeOK
  <2> QED
    BY <1>6, <2>1, <2>2 DEF FinalizeError, OthersTyped, TypeInv, TypeOK
<1>7. CASE Notify(p, i)
  <2>1. slot[s].job \in JobIds
    BY <1>0, <1>7 DEF Notify
  <2>2. webhooks' \in [JobIds -> [Announcements -> Nat]]
    <3>1. webhooks \in [JobIds -> [Announcements -> Nat]]
      BY DEF TypeInv, TypeOK
    <3>2. \A a \in Announcements :
            [webhooks EXCEPT ![slot[s].job][a] = @ + 1] \in [JobIds -> [Announcements -> Nat]]
      BY <2>1, <3>1, CountedTyped
    <3>3. \/ webhooks' = webhooks
          \/ \E a \in Announcements : webhooks' = [webhooks EXCEPT ![slot[s].job][a] = @ + 1]
      BY <1>7 DEF Notify, Announcements
    <3> QED
      BY <3>1, <3>2, <3>3
  <2>3. in_flight' \in [Procs -> [JobIds -> SlotIdx \cup {0}]]
    BY <1>7, <2>1 DEF Notify, TypeInv, TypeOK
  <2>4. faults' \in 0..MaxFaults
    BY <1>7, RuntimeAssumption DEF Notify, Fault, TypeInv, TypeOK
  <2> QED
    BY <1>7, <1>a, <2>2, <2>3, <2>4 DEF Notify, OthersTyped, TypeInv, TypeOK
<1> QED
  BY <1>1, <1>2, <1>3, <1>4, <1>5, <1>6, <1>7 DEF SlotNext

\* The same of an action of a process: reaper, shutdown, drain, crash.
LEMMA ProcActionTyped ==
    ASSUME TypeInv, NEW p \in Procs, ProcNext(p)
    PROVE  OthersTyped /\ SlotsStep
<1>0. /\ slot \in [Slots -> SlotStates]
      /\ jobs \in [JobIds -> Rows]
  BY DEF TypeInv, TypeOK
<1>a. ASSUME UNCHANGED slot
      PROVE  SlotsStep
  <2>1. DOMAIN slot' = Slots /\ slot' = [t \in Slots |-> slot'[t]]
    BY <1>0, <1>a
  <2> QED
    BY <1>a, <2>1 DEF SlotsStep, SlotStep
<1>b. ASSUME NEW s \in Slots, NEW x, slot' = [slot EXCEPT ![s] = x],
             \/ x = Idle
             \/ /\ slot[s].pc # "idle" /\ x \in SlotStates /\ x.pc # "idle"
                /\ x.job = slot[s].job /\ x.token = slot[s].token
      PROVE  SlotsStep
  BY <1>0, <1>b DEF SlotsStep, SlotStep
<1>c. ASSUME NEW j \in JobIds
      PROVE  /\ in_flight[p][j] # 0 => <<p, in_flight[p][j]>> \in Slots
             /\ [in_flight EXCEPT ![p][j] = 0] \in [Procs -> [JobIds -> SlotIdx \cup {0}]]
  BY DEF TypeInv, TypeOK, Slots
<1>d. ASSUME Fault
      PROVE  faults' \in 0..MaxFaults
  BY <1>d, RuntimeAssumption DEF Fault, TypeInv, TypeOK
<1>e. [in_flight EXCEPT ![p] = NothingInFlight] \in [Procs -> [JobIds -> SlotIdx \cup {0}]]
  BY DEF TypeInv, TypeOK, NothingInFlight
<1>1. CASE Reap(p)
  BY <1>1, <1>a DEF Reap, ExhaustedJobs, OthersTyped, TypeInv, TypeOK
<1>2. ASSUME NEW j \in JobIds, ReapNotify(p, j)
      PROVE  OthersTyped /\ SlotsStep
  <2>1. webhooks' \in [JobIds -> [Announcements -> Nat]]
    <3>1. "failed" \in Announcements /\ webhooks \in [JobIds -> [Announcements -> Nat]]
      BY DEF TypeInv, TypeOK, Announcements
    <3>2. [webhooks EXCEPT ![j]["failed"] = @ + 1] \in [JobIds -> [Announcements -> Nat]]
      BY <1>2, <3>1, CountedTyped
    <3> QED
      BY <1>2, <3>1, <3>2 DEF ReapNotify
  <2>2. faults' \in 0..MaxFaults
    BY <1>2, <1>d DEF ReapNotify, TypeInv, TypeOK
  <2>3. reaped' \in [Procs -> SUBSET JobIds]
    BY <1>2 DEF ReapNotify, TypeInv, TypeOK
  <2> QED
    BY <1>2, <1>a, <2>1, <2>2, <2>3 DEF ReapNotify, OthersTyped, TypeInv, TypeOK
<1>3. CASE Shutdown(p)
  <2>1. SlotsStep
    <3>1. /\ DOMAIN slot' = Slots
          /\ slot' = [t \in Slots |-> slot'[t]]
          /\ \A t \in Slots : \/ slot'[t] = slot[t]
                              \/ slot'[t] = Idle
                              \/ /\ slot[t].pc = "running"
                                 /\ \E c \in {"handed", "dropped"} :
                                      slot'[t] = [slot[t] EXCEPT !.pc = c]
      BY <1>3 DEF Shutdown
    <3>2. ASSUME NEW t \in Slots, slot[t].pc = "running", NEW c \in {"handed", "dropped"},
                 slot'[t] = [slot[t] EXCEPT !.pc = c]
          PROVE  SlotStep(t)
      <4>1. slot[t] \in SlotStates
        BY <1>0
      <4> QED
        BY <3>2, <4>1 DEF SlotStep, SlotStates
    <3> QED
      BY <3>1, <3>2 DEF SlotsStep, SlotStep
  <2>2. in_flight' \in [Procs -> [JobIds -> SlotIdx \cup {0}]]
    BY <1>3 DEF Shutdown, TypeInv, TypeOK
  <2>3. reaped' \in [Procs -> SUBSET JobIds] /\ proc' \in [Procs -> ProcStates]
    BY <1>3 DEF Shutdown, TypeInv, TypeOK, ProcStates
  <2> QED
    BY <1>3, <1>d, <2>1, <2>2, <2>3 DEF Shutdown, OthersTyped, TypeInv, TypeOK
<1>4. CASE DrainDeadline(p)
  <2>1. SlotsStep
    <3>1. /\ DOMAIN slot' = Slots
          /\ slot' = [t \in Slots |-> slot'[t]]
          /\ \A t \in Slots : \/ slot'[t] = slot[t]
                              \/ slot[t].pc = "handed" /\ slot'[t] = [slot[t] EXCEPT !.pc = "pending"]
      BY <1>4 DEF DrainDeadline
    <3>2. ASSUME NEW t \in Slots, slot[t].pc = "handed", slot'[t] = [slot[t] EXCEPT !.pc = "pending"]
          PROVE  SlotStep(t)
      <4>1. slot[t] \in SlotStates
        BY <1>0
      <4> QED
        BY <3>2, <4>1 DEF SlotStep, SlotStates
    <3> QED
      BY <3>1, <3>2 DEF SlotsStep, SlotStep
  <2> QED
    BY <1>4, <2>1 DEF DrainDeadline, OthersTyped, TypeInv, TypeOK, ProcStates
<1>5. ASSUME NEW j \in JobIds, DrainFinalize(p, j)
      PROVE  OthersTyped /\ SlotsStep
  <2> DEFINE s == <<p, in_flight[p][j]>>
             x == [slot[s] EXCEPT !.pc = "notify", !.hb = FALSE]
  <2>1. s \in Slots /\ slot[s] \in SlotStates /\ slot[s].pc # "idle"
    BY <1>0, <1>5, <1>c DEF DrainFinalize, Settling
  <2>2. x \in SlotStates /\ x.pc # "idle" /\ x.job = slot[s].job /\ x.token = slot[s].token
    BY <2>1, WriteSlot
  <2>3. slot' = [slot EXCEPT ![s] = x] \/ slot' = [slot EXCEPT ![s] = Idle]
    BY <1>5 DEF DrainFinalize
  <2>4. in_flight' \in [Procs -> [JobIds -> SlotIdx \cup {0}]]
    BY <1>5, <1>c DEF DrainFinalize, TypeInv, TypeOK
  <2> HIDE DEF s, x
  <2>5. SlotsStep
    BY <1>b, <2>1, <2>2, <2>3
  <2> QED
    BY <1>5, <2>4, <2>5 DEF DrainFinalize, OthersTyped, TypeInv, TypeOK
<1>6. ASSUME NEW j \in JobIds, DrainAbandon(p, j)
      PROVE  OthersTyped /\ SlotsStep
  <2>1. SlotsStep
    BY <1>6, <1>b, <1>c DEF DrainAbandon, Settling
  <2>2. faults' \in 0..MaxFaults
    BY <1>6, <1>d DEF DrainAbandon, TypeInv, TypeOK
  <2> QED
    BY <1>6, <1>c, <2>1, <2>2 DEF DrainAbandon, OthersTyped, TypeInv, TypeOK
<1>7. CASE DrainDone(p)
  BY <1>7, <1>a DEF DrainDone, OthersTyped, TypeInv, TypeOK, ProcStates
<1>8. CASE Crash(p) \/ Restart(p)
  <2>1. SlotsStep
    <3>1. /\ DOMAIN slot' = Slots
          /\ slot' = [t \in Slots |-> slot'[t]]
          /\ \A t \in Slots : slot'[t] = slot[t] \/ slot'[t] = Idle
      BY <1>8 DEF Crash, Restart
    <3> QED
      BY <3>1 DEF SlotsStep, SlotStep
  <2>2. faults' \in 0..MaxFaults
    BY <1>8, <1>d DEF Crash, Restart, TypeInv, TypeOK
  <2>3. proc' \in [Procs -> ProcStates] /\ reaped' \in [Procs -> SUBSET JobIds]
    BY <1>8 DEF Crash, Restart, TypeInv, TypeOK, ProcStates
  <2> QED
    BY <1>8, <1>e, <2>1, <2>2, <2>3 DEF Crash, Restart, OthersTyped, TypeInv, TypeOK
<1> QED
  BY <1>1, <1>2, <1>3, <1>4, <1>5, <1>6, <1>7, <1>8 DEF ProcNext

\* Both lemmas together, with the steps of callers and of time.
LEMMA EveryStepTyped ==
    ASSUME TypeInv, [Next]_vars
    PROVE  OthersTyped /\ SlotsStep
<1>1. ASSUME UNCHANGED <<proc, slot, in_flight, reaped, webhooks, faults>>
      PROVE  OthersTyped /\ SlotsStep
  <2>1. DOMAIN slot' = Slots /\ slot' = [t \in Slots |-> slot'[t]]
    BY <1>1 DEF TypeInv, TypeOK
  <2> QED
    BY <1>1, <2>1 DEF OthersTyped, SlotsStep, SlotStep, TypeInv, TypeOK
<1>2. CASE Enqueue \/ Tick
  BY <1>1, <1>2 DEF Enqueue, Tick
<1>3. CASE UNCHANGED vars
  BY <1>1, <1>3 DEF vars
<1> QED
  BY <1>2, <1>3, SlotActionTyped, ProcActionTyped DEF Next

\* TypeInv is inductive.
LEMMA TypeInvStep ==
    ASSUME TypeInv, [Next]_vars
    PROVE  TypeInv'
<1>1. TableStep /\ OthersTyped /\ SlotsStep
  BY RowSteps, EveryStepTyped
<1>2. \A j \in JobIds : jobs[j] \in Rows /\ RowStep(jobs[j], jobs'[j])
  BY <1>1 DEF TableStep, TypeInv, TypeOK
<1>3. \A j \in JobIds : jobs[j].status # "absent" => jobs'[j].status # "absent"
  BY <1>2, RowStepKeeps
<1>4. ASSUME NEW j \in JobIds, jobs'[j].status # "absent"
      PROVE  jobs'[j].kind \in Kinds
  BY <1>2, <1>4, RowStepKeeps DEF TypeInv, WellFormed
<1>5. ASSUME NEW s \in Slots
      PROVE  /\ slot'[s] \in SlotStates
             /\ slot'[s].pc # "idle" => slot'[s].job \in JobIds /\ jobs'[slot'[s].job].status # "absent"
             /\ slot'[s].hb => slot'[s].pc # "idle"
  <2>1. SlotStep(s) /\ slot[s] \in SlotStates
    BY <1>1 DEF SlotsStep, TypeInv, TypeOK
  <2>2. Idle \in SlotStates /\ Idle.pc = "idle" /\ ~ Idle.hb
    BY DEF Idle, SlotStates, NoToken
  <2>3. CASE slot'[s] = slot[s]
    BY <1>3, <2>1, <2>3 DEF TypeInv, WellFormed
  <2>4. CASE slot'[s] = Idle
    BY <2>2, <2>4
  <2>5. CASE slot'[s] \in SlotStates /\ slot'[s].pc # "idle"
             /\ slot[s].pc # "idle" /\ slot'[s].job = slot[s].job
    BY <1>3, <2>5 DEF TypeInv, WellFormed
  <2>6. CASE slot'[s] \in SlotStates /\ slot'[s].job \in JobIds
             /\ jobs'[slot'[s].job].status # "absent" /\ slot'[s].pc = "claimed"
    BY <2>6
  <2> QED
    BY <2>1, <2>3, <2>4, <2>5, <2>6 DEF SlotStep
<1>6. slot' \in [Slots -> SlotStates]
  BY <1>1, <1>5 DEF SlotsStep
<1>7. TypeOK'
  BY <1>1, <1>6 DEF TypeOK, TableStep, OthersTyped
<1>8. WellFormed'
  BY <1>4, <1>5 DEF WellFormed
<1> QED
  BY <1>7, <1>8 DEF TypeInv

\* TypeInv holds initially: no rows, all slots idle.
LEMMA TypeInvInit == Init => TypeInv
<1> SUFFICES ASSUME Init PROVE TypeInv
  OBVIOUS
<1>1. NoRow \in Rows /\ NoRow.status = "absent"
  BY DEF NoRow, Rows, Statuses, NoToken
<1>2. Idle \in SlotStates /\ Idle.pc = "idle" /\ ~ Idle.hb
  BY DEF Idle, SlotStates, NoToken
<1>3. webhooks \in [JobIds -> [Announcements -> Nat]]
  BY DEF Init, Announcements
<1>4. TypeOK
  BY <1>1, <1>2, <1>3, RuntimeAssumption DEF Init, JobsInit, TypeOK, ProcStates, NothingInFlight
<1>5. WellFormed
  BY <1>1, <1>2 DEF Init, JobsInit, WellFormed
<1> QED
  BY <1>4, <1>5 DEF TypeInv

\* The typing invariant of the job queue and the worker runtime holds in
\* every reachable state, for all constants.
THEOREM TypeCorrect == Spec => [](TypeOK /\ WellFormed)
<1>1. TypeInv /\ [Next]_vars => TypeInv'
  BY TypeInvStep
<1>2. TypeInv => TypeOK /\ WellFormed
  BY DEF TypeInv
<1> QED
  BY TypeInvInit, <1>1, <1>2, PTL DEF Spec

-----------------------------------------------------------------------------
(* What the rows satisfy *)

\* The strengthening of AttemptsWithinBudget and NewestClaimRecorded: a
\* queued row has an attempt left, a running row's token is its newest claim.
RowOK(r) ==
    /\ r.attempts <= r.max_attempts
    /\ r.status = "absent" => r.attempts = 0
    /\ r.status = "queued" => r.attempts < r.max_attempts
    /\ r.status = "running" => r.lease_token = r.attempts /\ r.attempts > 0
    /\ r.status = "done" => r.result_of = r.attempts /\ r.attempts > 0
    /\ r.status = "failed" => r.attempts > 0

RowsInv == \A j \in JobIds : RowOK(jobs[j])

\* RowOK is kept by every row step.
LEMMA RowStepOK ==
    ASSUME NEW r \in Rows, NEW q, RowOK(r), RowStep(r, q)
    PROVE  RowOK(q)
<1>0. r.attempts \in Nat /\ r.max_attempts \in Nat /\ r.lease_token \in Nat
  BY DEF Rows
<1>1. CASE q = r
  BY <1>1
<1>2. CASE Created(r, q)
  <2>1. PICK kind \in Kinds, key \in Keys \cup {NoKey}, priority \in Priorities,
             b \in Budgets, d \in Delays : q = Inserted(kind, key, priority, b, d)
    BY <1>2 DEF Created
  <2>2. q.status = "queued" /\ q.attempts = 0 /\ q.max_attempts \in Nat \ {0}
    BY <2>1, InsertedRow
  <2> QED
    BY <2>2 DEF RowOK
<1>3. CASE HandedOut(r, q)
  <2>1. /\ q.status = "running" /\ q.attempts = r.attempts + 1
        /\ q.max_attempts = r.max_attempts /\ q.lease_token = r.attempts + 1
    BY <1>3, ClaimedRow DEF HandedOut
  <2>2. r.attempts < r.max_attempts
    BY <1>3 DEF HandedOut, Reclaimable, RowOK
  <2> QED
    BY <1>0, <2>1, <2>2 DEF RowOK
<1>4. CASE Retried(r, q)
  <2>1. /\ q.status = "queued" /\ q.attempts = r.attempts /\ q.max_attempts = r.max_attempts
        /\ r.attempts < r.max_attempts
    BY <1>4, RequeuedRow DEF Retried
  <2> QED
    BY <1>0, <2>1 DEF RowOK
<1>5. CASE Retimed(r, q)
  BY <1>5 DEF Retimed, RowOK, Rows
<1>6. CASE r.status = "running" /\ q = Completed(r, r.lease_token)
  BY <1>0, <1>6, CompletedRow DEF RowOK
<1>7. CASE r.status = "running" /\ q = Failed(r)
  BY <1>0, <1>7, FailedRow DEF RowOK
<1> QED
  BY <1>1, <1>2, <1>3, <1>4, <1>5, <1>6, <1>7 DEF RowStep

\* RowsInv holds initially and is kept by every step.
LEMMA RowsInvHolds ==
    /\ Init => RowsInv
    /\ TypeInv /\ RowsInv /\ [Next]_vars => RowsInv'
<1>1. Init => RowsInv
  BY DEF Init, JobsInit, NoRow, RowsInv, RowOK
<1>2. ASSUME TypeInv, RowsInv, [Next]_vars
      PROVE  RowsInv'
  <2>1. TableStep
    BY <1>2, RowSteps
  <2>2. \A j \in JobIds : jobs[j] \in Rows /\ RowOK(jobs[j]) /\ RowStep(jobs[j], jobs'[j])
    BY <1>2, <2>1 DEF TypeInv, TypeOK, RowsInv, TableStep
  <2>3. \A j \in JobIds : RowOK(jobs'[j])
    BY <2>2, RowStepOK
  <2> QED
    BY <2>3 DEF RowsInv, RowOK
<1> QED
  BY <1>1, <1>2

\* No job is ever handed out more often than its max_attempts, by claims,
\* retries and crash recovery together (claim_next() and fail()).
THEOREM BudgetKept == Spec => []AttemptsWithinBudget
<1>1. RowsInv => AttemptsWithinBudget
  BY DEF RowsInv, RowOK, AttemptsWithinBudget
<1>2. TypeInv /\ [Next]_vars => TypeInv'
  BY TypeInvStep
<1> QED
  BY TypeInvInit, RowsInvHolds, <1>1, <1>2, PTL DEF Spec

\* The result of a done job is that of its newest claim, whatever slots lost
\* their lease and finished later (complete()).
THEOREM NewestResult == Spec => []NewestClaimRecorded
<1>1. RowsInv => NewestClaimRecorded
  BY DEF RowsInv, RowOK, NewestClaimRecorded
<1>2. TypeInv /\ [Next]_vars => TypeInv'
  BY TypeInvStep
<1> QED
  BY TypeInvInit, RowsInvHolds, <1>1, <1>2, PTL DEF Spec

\* A row step leaves a done or failed row alone.
LEMMA TerminalRow ==
    ASSUME NEW r \in Rows, NEW q, RowStep(r, q), r.status \in TerminalStatuses
    PROVE  q = r
BY DEF RowStep, Created, HandedOut, Reclaimable, Expired, Retried, Retimed, TerminalStatuses

\* done and failed rows never change again.
THEOREM Finality == Spec => TerminalIsFinal
<1>1. ASSUME TypeInv, [Next]_vars, NEW j \in JobIds, jobs[j].status \in TerminalStatuses
      PROVE  jobs'[j] = jobs[j]
  BY <1>1, RowSteps, TerminalRow DEF TableStep, TypeInv, TypeOK
<1>2. TypeInv /\ [Next]_vars
        => [\A j \in JobIds : jobs[j].status \in TerminalStatuses => jobs'[j] = jobs[j]]_vars
  BY <1>1
<1>3. TypeInv /\ [Next]_vars => TypeInv'
  BY TypeInvStep
<1> QED
  BY TypeInvInit, <1>2, <1>3, PTL DEF Spec, TerminalIsFinal

-----------------------------------------------------------------------------
(* Announcements *)

Unannounced(j) == webhooks[j]["completed"] = 0 /\ webhooks[j]["failed"] = 0

StatusOf(outcome) == IF outcome = "ok" THEN "done" ELSE "failed"

\* The strengthening of AnnouncedOnce: whoever is about to announce a job (a
\* slot past its complete()/fail(), or a reaper) is the only one, the job is
\* already in the state it will announce and nobody has announced it.
AnnounceInv ==
    /\ AnnouncedOnce
    /\ \A s \in Slots : slot[s].pc = "notify" =>
         /\ Unannounced(slot[s].job)
         /\ jobs[slot[s].job].status = StatusOf(slot[s].outcome)
         /\ \A t \in Slots : slot[t].pc = "notify" /\ slot[t].job = slot[s].job => t = s
         /\ \A p \in Procs : slot[s].job \notin reaped[p]
    /\ \A p \in Procs : \A j \in reaped[p] :
         /\ Unannounced(j)
         /\ jobs[j].status = "failed"
         /\ \A q \in Procs : j \in reaped[q] => q = p

\* A step that announces nothing and makes nobody an announcer.
Quiet ==
    /\ webhooks' = webhooks
    /\ \A p \in Procs : reaped'[p] \subseteq reaped[p]
    /\ \A s \in Slots : slot'[s].pc = "notify" =>
         /\ slot[s].pc = "notify"
         /\ slot'[s].job = slot[s].job
         /\ slot'[s].outcome = slot[s].outcome

\* Jobs that ended stay as they are; jobs that did not are unannounced, and
\* nobody is about to announce them.
LEMMA EndedOrUnannounced ==
    ASSUME TypeInv, AnnounceInv, [Next]_vars, NEW j \in JobIds
    PROVE  /\ jobs[j].status \in TerminalStatuses => jobs'[j] = jobs[j]
           /\ jobs[j].status \notin TerminalStatuses =>
                /\ Unannounced(j)
                /\ \A s \in Slots : slot[s].pc = "notify" => slot[s].job # j
                /\ \A p \in Procs : j \notin reaped[p]
<1>1. jobs[j].status \in TerminalStatuses => jobs'[j] = jobs[j]
  BY RowSteps, TerminalRow DEF TableStep, TypeInv, TypeOK
<1>2. webhooks[j]["completed"] \in Nat /\ webhooks[j]["failed"] \in Nat
  BY DEF TypeInv, TypeOK, Announcements
<1>3. jobs[j].status \notin TerminalStatuses => Unannounced(j)
  BY <1>2 DEF AnnounceInv, AnnouncedOnce, Unannounced, TerminalStatuses
<1>4. jobs[j].status \notin TerminalStatuses =>
        \A s \in Slots : slot[s].pc = "notify" => slot[s].job # j
  BY DEF AnnounceInv, StatusOf, TerminalStatuses
<1>5. jobs[j].status \notin TerminalStatuses => \A p \in Procs : j \notin reaped[p]
  BY DEF AnnounceInv, TerminalStatuses
<1> QED
  BY <1>1, <1>3, <1>4, <1>5

\* A step that makes no slot and no reaper an announcer, announces nothing
\* and changes rows by row steps keeps AnnounceInv.
LEMMA QuietKeeps ==
    ASSUME TypeInv, AnnounceInv, [Next]_vars, Quiet
    PROVE  AnnounceInv'
<1>1. \A j \in JobIds : jobs[j].status \in TerminalStatuses => jobs'[j] = jobs[j]
  BY EndedOrUnannounced
<1>2. \A j \in JobIds : webhooks[j]["completed"] \in Nat /\ webhooks[j]["failed"] \in Nat
  BY DEF TypeInv, TypeOK, Announcements
<1>3. AnnouncedOnce'
  BY <1>1, <1>2 DEF Quiet, AnnounceInv, AnnouncedOnce, TerminalStatuses
<1>4. ASSUME NEW s \in Slots, slot'[s].pc = "notify"
      PROVE  /\ Unannounced(slot[s].job)'
             /\ jobs'[slot'[s].job].status = StatusOf(slot'[s].outcome)
             /\ \A t \in Slots : slot'[t].pc = "notify" /\ slot'[t].job = slot'[s].job => t = s
             /\ \A p \in Procs : slot'[s].job \notin reaped'[p]
  <2>1. slot[s].pc = "notify" /\ slot'[s].job = slot[s].job /\ slot'[s].outcome = slot[s].outcome
    BY <1>4 DEF Quiet
  <2>2. slot[s].job \in JobIds
    BY <2>1 DEF TypeInv, WellFormed
  <2>3. jobs[slot[s].job].status = StatusOf(slot[s].outcome)
    BY <2>1 DEF AnnounceInv
  <2>4. jobs'[slot[s].job] = jobs[slot[s].job]
    BY <1>1, <2>2, <2>3 DEF StatusOf, TerminalStatuses
  <2>5. Unannounced(slot[s].job)'
    BY <2>1 DEF AnnounceInv, Unannounced, Quiet
  <2>6. \A t \in Slots : slot'[t].pc = "notify" /\ slot'[t].job = slot'[s].job => t = s
    BY <2>1 DEF AnnounceInv, Quiet
  <2>7. \A p \in Procs : slot'[s].job \notin reaped'[p]
    BY <2>1 DEF AnnounceInv, Quiet
  <2> QED
    BY <2>1, <2>3, <2>4, <2>5, <2>6, <2>7
<1>5. ASSUME NEW p \in Procs, NEW j \in reaped'[p]
      PROVE  /\ Unannounced(j)'
             /\ jobs'[j].status = "failed"
             /\ \A q \in Procs : j \in reaped'[q] => q = p
  <2>1. j \in reaped[p] /\ j \in JobIds
    BY DEF Quiet, TypeInv, TypeOK
  <2>2. jobs[j].status = "failed" /\ Unannounced(j) /\ \A q \in Procs : j \in reaped[q] => q = p
    BY <2>1 DEF AnnounceInv
  <2> QED
    BY <1>1, <2>1, <2>2 DEF Quiet, Unannounced, TerminalStatuses
<1> QED
  BY <1>3, <1>4, <1>5 DEF AnnounceInv

\* The step that ends a job and makes its slot the announcer.
LEMMA FinalizeKeeps ==
    ASSUME TypeInv, AnnounceInv, [Next]_vars, NEW s \in Slots, slot[s].pc # "idle",
           FinalizeRow(slot[s]), Announces(slot[s]),
           slot' = [slot EXCEPT ![s] = [slot[s] EXCEPT !.pc = "notify", !.hb = FALSE]],
           UNCHANGED <<webhooks, reaped>>
    PROVE  AnnounceInv'
<1> DEFINE j == slot[s].job
           x == [slot[s] EXCEPT !.pc = "notify", !.hb = FALSE]
<1>0. /\ j \in JobIds /\ slot[s] \in SlotStates /\ jobs[j] \in Rows
      /\ jobs \in [JobIds -> Rows] /\ slot[s].token \in Nat
  BY DEF TypeInv, TypeOK, WellFormed, SlotStates
<1>1. jobs[j].status = "running"
  BY DEF Announces, FailFinalizes, HoldsClaim
<1>2. jobs'[j].status = StatusOf(slot[s].outcome)
  <2>1. CASE slot[s].outcome = "ok"
    <3>1. HoldsClaim(j, slot[s].token) /\ CompleteRow(j, slot[s].token)
      BY <2>1 DEF Announces, FinalizeRow
    <3>2. jobs'[j] = Completed(jobs[j], slot[s].token)
      BY <1>0, <3>1 DEF CompleteRow
    <3> QED
      BY <1>0, <2>1, <3>2, CompletedRow DEF StatusOf
  <2>2. CASE slot[s].outcome # "ok"
    <3> DEFINE retry == JOB_KINDS[jobs[slot[s].job].kind].retry_in_seconds
    <3>1. FailFinalizes(j, slot[s].token, retry) /\ FailRow(j, slot[s].token, retry)
      BY <2>2 DEF Announces, FinalizeRow
    <3>2. jobs'[j] = Failed(jobs[j])
      BY <1>0, <3>1 DEF FailFinalizes, FailRow
    <3> QED
      BY <1>0, <2>2, <3>2, FailedRow DEF StatusOf
  <2> QED
    BY <2>1, <2>2
<1>3. /\ x.pc = "notify" /\ x.job = j /\ x.outcome = slot[s].outcome
      /\ slot'[s] = x /\ \A t \in Slots \ {s} : slot'[t] = slot[t]
  BY <1>0 DEF SlotStates, TypeInv, TypeOK
<1>4. /\ Unannounced(j)
      /\ \A t \in Slots : slot[t].pc = "notify" => slot[t].job # j
      /\ \A p \in Procs : j \notin reaped[p]
  BY <1>0, <1>1, EndedOrUnannounced DEF TerminalStatuses
<1>5. \A k \in JobIds : jobs[k].status \in TerminalStatuses => jobs'[k] = jobs[k]
  BY EndedOrUnannounced
<1> HIDE DEF j, x
<1>6. AnnouncedOnce'
  <2>1. \A k \in JobIds : webhooks[k]["completed"] \in Nat /\ webhooks[k]["failed"] \in Nat
    BY DEF TypeInv, TypeOK, Announcements
  <2> QED
    BY <1>5, <2>1 DEF AnnounceInv, AnnouncedOnce, TerminalStatuses
<1>7. ASSUME NEW t \in Slots, slot'[t].pc = "notify"
      PROVE  /\ Unannounced(slot[t].job)'
             /\ jobs'[slot'[t].job].status = StatusOf(slot'[t].outcome)
             /\ \A u \in Slots : slot'[u].pc = "notify" /\ slot'[u].job = slot'[t].job => u = t
             /\ \A p \in Procs : slot'[t].job \notin reaped'[p]
  <2>1. CASE t = s
    BY <1>2, <1>3, <1>4, <2>1 DEF Unannounced
  <2>2. CASE t # s
    <3>1. slot'[t] = slot[t] /\ slot[t].pc = "notify" /\ slot[t].job \in JobIds
      BY <1>3, <1>7, <2>2 DEF TypeInv, WellFormed
    <3>2. jobs[slot[t].job].status = StatusOf(slot[t].outcome)
      BY <3>1 DEF AnnounceInv
    <3>3. jobs'[slot[t].job] = jobs[slot[t].job]
      BY <1>5, <3>1, <3>2 DEF StatusOf, TerminalStatuses
    <3>4. /\ Unannounced(slot[t].job)
          /\ \A u \in Slots : slot[u].pc = "notify" /\ slot[u].job = slot[t].job => u = t
          /\ \A p \in Procs : slot[t].job \notin reaped[p]
      BY <3>1 DEF AnnounceInv
    <3> QED
      BY <1>3, <1>4, <2>2, <3>1, <3>2, <3>3, <3>4 DEF Unannounced
  <2> QED
    BY <2>1, <2>2
<1>8. ASSUME NEW p \in Procs, NEW k \in reaped'[p]
      PROVE  /\ Unannounced(k)'
             /\ jobs'[k].status = "failed"
             /\ \A q \in Procs : k \in reaped'[q] => q = p
  <2>1. k \in reaped[p] /\ k \in JobIds
    BY DEF TypeInv, TypeOK
  <2>2. jobs[k].status = "failed" /\ Unannounced(k) /\ \A q \in Procs : k \in reaped[q] => q = p
    BY <2>1 DEF AnnounceInv
  <2> QED
    BY <1>5, <2>1, <2>2 DEF Unannounced, TerminalStatuses
<1> QED
  BY <1>6, <1>7, <1>8 DEF AnnounceInv

\* The step that announces job j, as a slot or as a reaper, and retires the
\* announcer.
LEMMA AnnounceKeeps ==
    ASSUME TypeInv, AnnounceInv, NEW j \in JobIds, NEW a \in Announcements,
           Unannounced(j),
           jobs[j].status = IF a = "completed" THEN "done" ELSE "failed",
           UNCHANGED jobs,
           webhooks' = [webhooks EXCEPT ![j][a] = @ + 1],
           \A p \in Procs : reaped'[p] \subseteq reaped[p] \ {j},
           \A s \in Slots : slot'[s].pc = "notify" => slot'[s] = slot[s] /\ slot[s].job # j
    PROVE  AnnounceInv'
<1>0. webhooks \in [JobIds -> [Announcements -> Nat]]
  BY DEF TypeInv, TypeOK
<1>1. \A k \in JobIds \ {j} : webhooks'[k] = webhooks[k]
  BY <1>0
<1>2. webhooks'[j]["completed"] + webhooks'[j]["failed"] = 1 /\ webhooks'[j][a] = 1
  BY <1>0 DEF Unannounced, Announcements
<1>3. /\ webhooks'[j]["completed"] > 0 => jobs[j].status = "done"
      /\ webhooks'[j]["failed"] > 0 => jobs[j].status = "failed"
  BY <1>0 DEF Unannounced, Announcements
<1>4. AnnouncedOnce'
  BY <1>1, <1>2, <1>3 DEF AnnounceInv, AnnouncedOnce
<1>5. ASSUME NEW s \in Slots, slot'[s].pc = "notify"
      PROVE  /\ Unannounced(slot[s].job)'
             /\ jobs'[slot'[s].job].status = StatusOf(slot'[s].outcome)
             /\ \A t \in Slots : slot'[t].pc = "notify" /\ slot'[t].job = slot'[s].job => t = s
             /\ \A p \in Procs : slot'[s].job \notin reaped'[p]
  <2>1. slot'[s] = slot[s] /\ slot[s].job # j /\ slot[s].job \in JobIds
    BY <1>5 DEF TypeInv, WellFormed
  <2>2. /\ Unannounced(slot[s].job)
        /\ jobs[slot[s].job].status = StatusOf(slot[s].outcome)
        /\ \A t \in Slots : slot[t].pc = "notify" /\ slot[t].job = slot[s].job => t = s
        /\ \A p \in Procs : slot[s].job \notin reaped[p]
    BY <1>5, <2>1 DEF AnnounceInv
  <2> QED
    BY <1>1, <2>1, <2>2 DEF Unannounced
<1>6. ASSUME NEW p \in Procs, NEW k \in reaped'[p]
      PROVE  /\ Unannounced(k)'
             /\ jobs'[k].status = "failed"
             /\ \A q \in Procs : k \in reaped'[q] => q = p
  <2>1. k \in reaped[p] /\ k \in JobIds /\ k # j
    BY DEF TypeInv, TypeOK
  <2>2. jobs[k].status = "failed" /\ Unannounced(k) /\ \A q \in Procs : k \in reaped[q] => q = p
    BY <2>1 DEF AnnounceInv
  <2> QED
    BY <1>1, <2>1, <2>2 DEF Unannounced
<1> QED
  BY <1>4, <1>5, <1>6 DEF AnnounceInv

\* The sweep that ends exhausted jobs and makes the reaper their announcer.
LEMMA ReapKeeps ==
    ASSUME TypeInv, AnnounceInv, [Next]_vars, NEW p \in Procs, Reap(p)
    PROVE  AnnounceInv'
<1>0. /\ jobs \in [JobIds -> Rows] /\ reaped \in [Procs -> SUBSET JobIds]
      /\ webhooks' = webhooks /\ slot' = slot
  BY DEF TypeInv, TypeOK, Reap
<1>1. \A k \in JobIds : jobs[k].status \in TerminalStatuses => jobs'[k] = jobs[k]
  BY EndedOrUnannounced
<1>2. \A k \in ExhaustedJobs : jobs[k].status = "running" /\ jobs'[k].status = "failed"
  BY <1>0, FailedRow DEF Reap, ReapRows, ExhaustedJobs, Exhausted, Expired
<1>3. ASSUME NEW k \in ExhaustedJobs
      PROVE  /\ k \in JobIds /\ Unannounced(k)
             /\ \A s \in Slots : slot[s].pc = "notify" => slot[s].job # k
             /\ \A q \in Procs : k \notin reaped[q]
  BY <1>2, EndedOrUnannounced DEF ExhaustedJobs, TerminalStatuses
<1>4. /\ \A q \in Procs \ {p} : reaped'[q] = reaped[q]
      /\ reaped'[p] \subseteq ExhaustedJobs
  BY <1>0 DEF Reap
<1>5. AnnouncedOnce'
  <2>1. \A k \in JobIds : webhooks[k]["completed"] \in Nat /\ webhooks[k]["failed"] \in Nat
    BY DEF TypeInv, TypeOK, Announcements
  <2> QED
    BY <1>0, <1>1, <2>1 DEF AnnounceInv, AnnouncedOnce, TerminalStatuses
<1>6. ASSUME NEW s \in Slots, slot'[s].pc = "notify"
      PROVE  /\ Unannounced(slot[s].job)'
             /\ jobs'[slot'[s].job].status = StatusOf(slot'[s].outcome)
             /\ \A t \in Slots : slot'[t].pc = "notify" /\ slot'[t].job = slot'[s].job => t = s
             /\ \A q \in Procs : slot'[s].job \notin reaped'[q]
  <2>1. slot[s].job \in JobIds /\ slot[s].pc = "notify"
    BY <1>0, <1>6 DEF TypeInv, WellFormed
  <2>2. /\ Unannounced(slot[s].job)
        /\ jobs[slot[s].job].status = StatusOf(slot[s].outcome)
        /\ \A t \in Slots : slot[t].pc = "notify" /\ slot[t].job = slot[s].job => t = s
        /\ \A q \in Procs : slot[s].job \notin reaped[q]
    BY <2>1 DEF AnnounceInv
  <2>3. jobs'[slot[s].job] = jobs[slot[s].job]
    BY <1>1, <2>1, <2>2 DEF StatusOf, TerminalStatuses
  <2>4. \A q \in Procs : slot[s].job \notin reaped'[q]
    BY <1>3, <1>4, <2>1, <2>2
  <2> QED
    BY <1>0, <2>2, <2>3, <2>4 DEF Unannounced
<1>7. ASSUME NEW q \in Procs, NEW k \in reaped'[q]
      PROVE  /\ Unannounced(k)'
             /\ jobs'[k].status = "failed"
             /\ \A r \in Procs : k \in reaped'[r] => r = q
  <2>1. CASE k \in ExhaustedJobs
    <3>1. \A r \in Procs : k \in reaped'[r] => r = p
      BY <1>3, <1>4, <2>1
    <3> QED
      BY <1>0, <1>2, <1>3, <2>1, <3>1 DEF Unannounced
  <2>2. CASE k \notin ExhaustedJobs
    <3>1. q # p /\ k \in reaped[q] /\ k \in JobIds
      BY <1>0, <1>4, <2>2
    <3>2. jobs[k].status = "failed" /\ Unannounced(k) /\ \A r \in Procs : k \in reaped[r] => r = q
      BY <3>1 DEF AnnounceInv
    <3> QED
      BY <1>0, <1>1, <1>4, <2>2, <3>1, <3>2 DEF Unannounced, TerminalStatuses
  <2> QED
    BY <2>1, <2>2
<1> QED
  BY <1>5, <1>6, <1>7 DEF AnnounceInv

\* AnnounceInv is kept by every step, action by action.
LEMMA AnnounceInvStep ==
    ASSUME TypeInv, AnnounceInv, [Next]_vars
    PROVE  AnnounceInv'
<1>0. /\ slot \in [Slots -> SlotStates] /\ reaped \in [Procs -> SUBSET JobIds]
      /\ webhooks \in [JobIds -> [Announcements -> Nat]]
      /\ Idle.pc = "idle"
  BY DEF TypeInv, TypeOK, Idle
<1>a. ASSUME UNCHANGED <<slot, reaped, webhooks>>
      PROVE  AnnounceInv'
  BY <1>a, QuietKeeps DEF Quiet
<1>b. ASSUME NEW s \in Slots, NEW x, slot' = [slot EXCEPT ![s] = x], x.pc # "notify",
             UNCHANGED <<reaped, webhooks>>
      PROVE  AnnounceInv'
  <2>1. \A t \in Slots : slot'[t].pc = "notify" => slot'[t] = slot[t]
    BY <1>0, <1>b
  <2> QED
    BY <1>b, <2>1, QuietKeeps DEF Quiet
<1>1. CASE Enqueue \/ Tick \/ UNCHANGED vars
  BY <1>1, <1>a DEF Enqueue, Tick, vars
<1>2. ASSUME NEW p \in Procs, NEW i \in SlotIdx, SlotNext(p, i)
      PROVE  AnnounceInv'
  <2> DEFINE s == <<p, i>>
  <2>0. s \in Slots /\ slot[s] \in SlotStates
    BY <1>0 DEF Slots
  <2>1. CASE Claim(p, i)
    <3>1. PICK j \in JobIds : slot' = [slot EXCEPT ![s] = [Idle EXCEPT !.pc = "claimed", !.job = j,
                                                               !.token = jobs[j].attempts + 1]]
      BY <2>1 DEF Claim
    <3>2. [Idle EXCEPT !.pc = "claimed", !.job = j, !.token = jobs[j].attempts + 1].pc # "notify"
      BY DEF Idle
    <3> QED
      BY <1>b, <2>0, <2>1, <3>1, <3>2 DEF Claim
  <2>2. CASE StartHandler(p, i)
    <3>1. [slot[s] EXCEPT !.pc = "running", !.hb = TRUE].pc # "notify"
      BY <2>0 DEF SlotStates
    <3> QED
      BY <1>b, <2>0, <2>2, <3>1 DEF StartHandler
  <2>3. CASE HandlerReturns(p, i)
    <3>1. PICK o \in Outcomes : slot' = [slot EXCEPT ![s] = [slot[s] EXCEPT !.outcome = o]]
      BY <1>0, <2>0, <2>3 DEF HandlerReturns
    <3>2. [slot[s] EXCEPT !.outcome = o].pc # "notify"
      BY <2>0, <2>3 DEF HandlerReturns, SlotStates
    <3> QED
      BY <1>b, <2>0, <2>3, <3>1, <3>2 DEF HandlerReturns
  <2>4. CASE Heartbeat(p, i)
    <3>1. CASE slot' = slot
      BY <1>a, <2>4, <3>1 DEF Heartbeat
    <3>2. CASE slot' = [slot EXCEPT ![s].hb = FALSE]
      <4>1. \A t \in Slots : slot'[t].pc = slot[t].pc /\ slot'[t].job = slot[t].job
                             /\ slot'[t].outcome = slot[t].outcome
        BY <1>0, <2>0, <3>2 DEF SlotStates
      <4> QED
        BY <2>4, <4>1, QuietKeeps DEF Quiet, Heartbeat
    <3> QED
      BY <2>4, <3>1, <3>2 DEF Heartbeat
  <2>5. CASE Finalize(p, i)
    <3>1. CASE Announces(slot[s])
      BY <2>0, <2>5, <3>1, FinalizeKeeps DEF Finalize
    <3>2. CASE ~ Announces(slot[s])
      BY <1>0, <1>b, <2>0, <2>5, <3>2 DEF Finalize
    <3> QED
      BY <3>1, <3>2
  <2>6. CASE FinalizeError(p, i)
    BY <1>0, <1>b, <2>0, <2>6 DEF FinalizeError
  <2>7. CASE Notify(p, i)
    <3> DEFINE a == IF slot[s].outcome = "ok" THEN "completed" ELSE "failed"
    <3>1. /\ slot[s].pc = "notify" /\ slot' = [slot EXCEPT ![s] = Idle]
          /\ UNCHANGED <<jobs, reaped>>
          /\ \/ webhooks' = [webhooks EXCEPT ![slot[s].job][a] = @ + 1]
             \/ UNCHANGED webhooks
      BY <2>7 DEF Notify
    <3>2. /\ slot[s].job \in JobIds /\ Unannounced(slot[s].job)
          /\ jobs[slot[s].job].status = StatusOf(slot[s].outcome)
          /\ \A t \in Slots : slot[t].pc = "notify" /\ slot[t].job = slot[s].job => t = s
          /\ \A q \in Procs : slot[s].job \notin reaped[q]
      BY <2>0, <3>1 DEF AnnounceInv, TypeInv, WellFormed
    <3>3. CASE UNCHANGED webhooks
      BY <1>0, <1>b, <2>0, <3>1, <3>3
    <3>4. CASE webhooks' = [webhooks EXCEPT ![slot[s].job][a] = @ + 1]
      <4>1. /\ a \in Announcements
            /\ jobs[slot[s].job].status = IF a = "completed" THEN "done" ELSE "failed"
        BY <3>2 DEF Announcements, StatusOf
      <4>2. \A t \in Slots : slot'[t].pc = "notify" => slot'[t] = slot[t] /\ slot[t].job # slot[s].job
        BY <1>0, <2>0, <3>1, <3>2
      <4>3. \A q \in Procs : reaped'[q] \subseteq reaped[q] \ {slot[s].job}
        BY <3>1, <3>2
      <4> HIDE DEF a
      <4> QED
        BY <3>1, <3>2, <3>4, <4>1, <4>2, <4>3, AnnounceKeeps
    <3> QED
      BY <3>1, <3>3, <3>4
  <2> QED
    BY <1>2, <2>1, <2>2, <2>3, <2>4, <2>5, <2>6, <2>7 DEF SlotNext
<1>3. ASSUME NEW p \in Procs, ProcNext(p)
      PROVE  AnnounceInv'
  <2>1. CASE Reap(p)
    BY <2>1, ReapKeeps
  <2>2. ASSUME NEW j \in JobIds, ReapNotify(p, j)
        PROVE  AnnounceInv'
    <3>1. /\ j \in reaped[p] /\ reaped' = [reaped EXCEPT ![p] = @ \ {j}]
          /\ UNCHANGED <<jobs, slot>>
          /\ webhooks' = [webhooks EXCEPT ![j]["failed"] = @ + 1] \/ UNCHANGED webhooks
      BY <2>2 DEF ReapNotify
    <3>2. /\ Unannounced(j) /\ jobs[j].status = "failed"
          /\ \A q \in Procs : j \in reaped[q] => q = p
          /\ \A t \in Slots : slot[t].pc = "notify" => slot[t].job # j
      BY <3>1 DEF AnnounceInv
    <3>3. \A q \in Procs : reaped'[q] \subseteq reaped[q] \ {j}
      BY <1>0, <3>1, <3>2
    <3>4. CASE UNCHANGED webhooks
      BY <3>1, <3>3, <3>4, QuietKeeps DEF Quiet
    <3>5. CASE webhooks' = [webhooks EXCEPT ![j]["failed"] = @ + 1]
      <4>1. "failed" \in Announcements
        BY DEF Announcements
      <4> QED
        BY <3>1, <3>2, <3>3, <3>5, <4>1, AnnounceKeeps
    <3> QED
      BY <3>1, <3>4, <3>5
  <2>3. CASE Shutdown(p) \/ DrainDeadline(p) \/ DrainDone(p) \/ Crash(p) \/ Restart(p)
    <3>1. \A t \in Slots : slot'[t].pc = "notify" => slot'[t] = slot[t]
      <4>1. \A t \in Slots : \/ slot'[t] = slot[t]
                             \/ slot'[t] = Idle
                             \/ \E c \in {"handed", "dropped", "pending"} :
                                  slot'[t] = [slot[t] EXCEPT !.pc = c]
        BY <2>3 DEF Shutdown, DrainDeadline, DrainDone, Crash, Restart
      <4>2. \A t \in Slots, c \in {"handed", "dropped", "pending"} :
              [slot[t] EXCEPT !.pc = c].pc = c
        BY <1>0 DEF SlotStates
      <4> QED
        BY <1>0, <4>1, <4>2
    <3>2. (\A q \in Procs : reaped'[q] \subseteq reaped[q]) /\ webhooks' = webhooks
      BY <1>0, <2>3 DEF Shutdown, DrainDeadline, DrainDone, Crash, Restart
    <3> QED
      BY <3>1, <3>2, QuietKeeps DEF Quiet
  <2>4. ASSUME NEW j \in JobIds, DrainFinalize(p, j) \/ DrainAbandon(p, j)
        PROVE  AnnounceInv'
    <3> DEFINE s == <<p, in_flight[p][j]>>
    <3>1. s \in Slots /\ slot[s] \in SlotStates
      BY <1>0, <2>4 DEF DrainFinalize, DrainAbandon, Settling, Slots, TypeInv, TypeOK
    <3>2. CASE DrainAbandon(p, j)
      BY <1>0, <1>b, <3>1, <3>2 DEF DrainAbandon
    <3>3. CASE DrainFinalize(p, j) /\ Announces(slot[s])
      BY <3>1, <3>3, FinalizeKeeps DEF DrainFinalize
    <3>4. CASE DrainFinalize(p, j) /\ ~ Announces(slot[s])
      BY <1>0, <1>b, <3>1, <3>4 DEF DrainFinalize
    <3> QED
      BY <2>4, <3>2, <3>3, <3>4
  <2> QED
    BY <1>3, <2>1, <2>2, <2>3, <2>4 DEF ProcNext
<1> QED
  BY <1>1, <1>2, <1>3 DEF Next

\* Subscribers hear of every job at most once, and of the state it ended in.
THEOREM AnnouncedAtMostOnce == Spec => []AnnouncedOnce
<1>1. Init => AnnounceInv
  BY DEF Init, Idle, AnnounceInv, AnnouncedOnce
<1>2. TypeInv /\ AnnounceInv /\ [Next]_vars => TypeInv' /\ AnnounceInv'
  BY TypeInvStep, AnnounceInvStep
<1>3. AnnounceInv => AnnouncedOnce
  BY DEF AnnounceInv
<1> QED
  BY TypeInvInit, <1>1, <1>2, <1>3, PTL DEF Spec

-----------------------------------------------------------------------------
(* Which operation of the repository a step performs *)

\* The slot whose complete() or fail() this step is; finalizing resets it or
\* makes it an announcer.
FinalizedBy(s) ==
    /\ slot[s].pc \in {"running", "handed"}
    /\ slot[s].job \in JobIds /\ slot[s].token \in Nat
    /\ jobs[slot[s].job].kind \in Kinds
    /\ slot[s].pc = "running" => slot[s].outcome # "none"
    /\ slot[s].pc = "handed" => proc[s[1]] = "settling"
    /\ slot'[s].pc \in {"idle", "notify"}
    /\ FinalizeRow(slot[s])

\* The repository operation of a step, if it performs one.
Operation ==
    \/ UNCHANGED jobs
    \/ Enqueue
    \/ Elapse
    \/ \E j \in JobIds, kinds \in SUBSET Kinds, l \in Int : ClaimRow(j, kinds, l)
    \/ \E j \in JobIds, t \in Nat, l \in Int : HoldsClaim(j, t) /\ HeartbeatRow(j, l)
    \/ \E s \in Slots : FinalizedBy(s)
    \/ ReapRows

\* Every step of the specification performs at most one repository operation.
LEMMA StepOperation ==
    ASSUME TypeInv, [Next]_vars
    PROVE  Operation
<1>0. /\ jobs \in [JobIds -> Rows] /\ slot \in [Slots -> SlotStates]
      /\ Idle.pc = "idle"
  BY DEF TypeInv, TypeOK, Idle
<1>n. \A x \in SlotStates : [x EXCEPT !.pc = "notify", !.hb = FALSE].pc = "notify"
  BY DEF SlotStates
<1>a. ASSUME NEW s \in Slots, slot[s].pc # "idle"
      PROVE  /\ slot[s].job \in JobIds /\ slot[s].token \in Nat /\ slot[s] \in SlotStates
             /\ jobs[slot[s].job].kind \in Kinds
  BY <1>0, <1>a DEF TypeInv, WellFormed, SlotStates
<1>1. CASE UNCHANGED jobs
  BY <1>1 DEF Operation
<1>2. CASE Enqueue \/ Tick
  BY <1>2 DEF Operation, Tick
<1>3. ASSUME NEW p \in Procs, NEW i \in SlotIdx, SlotNext(p, i)
      PROVE  Operation
  <2> DEFINE s == <<p, i>>
  <2>0. s \in Slots /\ s[1] = p
    BY DEF Slots
  <2>1. CASE Claim(p, i)
    <3>1. PICK j \in JobIds, l \in Leases(KindsForLane(p, SlotLane[i])) :
            ClaimRow(j, KindsForLane(p, SlotLane[i]), l)
      BY <2>1 DEF Claim
    <3>2. l \in Int /\ KindsForLane(p, SlotLane[i]) \in SUBSET Kinds
      BY RuntimeAssumption DEF Leases, KindsForLane
    <3> QED
      BY <3>1, <3>2 DEF Operation
  <2>2. CASE Heartbeat(p, i)
    <3>1. CASE HoldsClaim(slot[s].job, slot[s].token)
      <4>1. slot[s].pc # "idle"
        BY <2>0, <2>2 DEF Heartbeat, TypeInv, WellFormed
      <4>2. slot[s].job \in JobIds /\ slot[s].token \in Nat /\ jobs[slot[s].job].kind \in Kinds
        BY <1>a, <2>0, <4>1
      <4>3. JOB_KINDS[jobs[slot[s].job].kind].lease_seconds \in Int
        BY <4>2, RuntimeAssumption
      <4>4. HeartbeatRow(slot[s].job, JOB_KINDS[jobs[slot[s].job].kind].lease_seconds)
        BY <2>2, <3>1 DEF Heartbeat
      <4> QED
        BY <3>1, <4>2, <4>3, <4>4 DEF Operation
    <3>2. CASE ~ HoldsClaim(slot[s].job, slot[s].token)
      BY <1>1, <2>2, <3>2 DEF Heartbeat
    <3> QED
      BY <3>1, <3>2
  <2>3. CASE Finalize(p, i)
    <3>1. /\ slot[s].pc = "running" /\ slot[s].outcome # "none" /\ FinalizeRow(slot[s])
          /\ slot' = [slot EXCEPT ![s] = IF Announces(slot[s])
                                         THEN [slot[s] EXCEPT !.pc = "notify", !.hb = FALSE]
                                         ELSE Idle]
      BY <2>3 DEF Finalize
    <3>2. slot'[s].pc \in {"idle", "notify"}
      BY <1>0, <1>n, <1>a, <2>0, <3>1
    <3>3. FinalizedBy(s)
      BY <1>a, <2>0, <3>1, <3>2 DEF FinalizedBy
    <3> QED
      BY <2>0, <3>3 DEF Operation
  <2>4. CASE StartHandler(p, i) \/ HandlerReturns(p, i) \/ FinalizeError(p, i) \/ Notify(p, i)
    BY <1>1, <2>4 DEF StartHandler, HandlerReturns, FinalizeError, Notify
  <2> QED
    BY <1>3, <2>1, <2>2, <2>3, <2>4 DEF SlotNext
<1>4. ASSUME NEW p \in Procs, ProcNext(p)
      PROVE  Operation
  <2>1. CASE Reap(p)
    BY <2>1 DEF Reap, Operation
  <2>2. ASSUME NEW j \in JobIds, DrainFinalize(p, j)
        PROVE  Operation
    <3> DEFINE s == <<p, in_flight[p][j]>>
    <3>1. s \in Slots /\ s[1] = p
      BY <2>2 DEF DrainFinalize, Settling, Slots, TypeInv, TypeOK
    <3>2. /\ slot[s].pc = "handed" /\ proc[p] = "settling" /\ FinalizeRow(slot[s])
          /\ \/ slot' = [slot EXCEPT ![s] = [slot[s] EXCEPT !.pc = "notify", !.hb = FALSE]]
             \/ slot' = [slot EXCEPT ![s] = Idle]
      BY <2>2 DEF DrainFinalize, Settling
    <3>3. slot'[s].pc \in {"idle", "notify"}
      BY <1>0, <1>n, <1>a, <3>1, <3>2
    <3>4. FinalizedBy(s)
      BY <1>a, <3>1, <3>2, <3>3 DEF FinalizedBy
    <3> QED
      BY <3>1, <3>4 DEF Operation
  <2>3. CASE \/ \E j \in JobIds : ReapNotify(p, j) \/ DrainAbandon(p, j)
             \/ Shutdown(p) \/ DrainDeadline(p) \/ DrainDone(p) \/ Crash(p) \/ Restart(p)
    BY <1>1, <2>3 DEF ReapNotify, DrainAbandon, Shutdown, DrainDeadline, DrainDone, Crash, Restart
  <2> QED
    BY <1>4, <2>1, <2>2, <2>3 DEF ProcNext
<1> QED
  BY <1>1, <1>2, <1>3, <1>4 DEF Next, vars

\* A complete() or fail() changes the row of its own claim or nothing: it ends
\* the row, or requeues it with budget left.
LEMMA FinalizedRow ==
    ASSUME TypeInv, NEW s \in Slots, FinalizedBy(s)
    PROVE  \/ UNCHANGED jobs
           \/ /\ HoldsClaim(slot[s].job, slot[s].token)
              /\ \E q : /\ jobs' = [jobs EXCEPT ![slot[s].job] = q]
                        /\ \/ q = Completed(jobs[slot[s].job], slot[s].token)
                           \/ q = Failed(jobs[slot[s].job])
                           \/ \E n \in Nat : q = Requeued(jobs[slot[s].job], n)
<1> DEFINE j == slot[s].job
           t == slot[s].token
           retry == JOB_KINDS[jobs[j].kind].retry_in_seconds
<1>0. j \in JobIds /\ jobs \in [JobIds -> Rows] /\ retry \in Nat \cup {NoRetry}
  BY RuntimeAssumption DEF FinalizedBy, TypeInv, TypeOK
<1>1. CASE ~ HoldsClaim(j, t)
  <2>1. jobs' = [jobs EXCEPT ![j] = @]
    BY <1>1 DEF FinalizedBy, FinalizeRow, CompleteRow, FailRow
  <2> QED
    BY <1>0, <2>1
<1>2. CASE HoldsClaim(j, t) /\ slot[s].outcome = "ok"
  BY <1>2 DEF FinalizedBy, FinalizeRow, CompleteRow
<1>3. CASE HoldsClaim(j, t) /\ slot[s].outcome # "ok" /\ Requeues(jobs[j], retry)
  <2>1. retry \in Nat
    BY <1>0, <1>3 DEF Requeues
  <2>2. jobs' = [jobs EXCEPT ![j] = Requeued(jobs[j], retry)]
    BY <1>3 DEF FinalizedBy, FinalizeRow, FailRow
  <2> QED
    BY <1>3, <2>1, <2>2
<1>4. CASE HoldsClaim(j, t) /\ slot[s].outcome # "ok" /\ ~ Requeues(jobs[j], retry)
  BY <1>4 DEF FinalizedBy, FinalizeRow, FailRow
<1> QED
  BY <1>1, <1>2, <1>3, <1>4

-----------------------------------------------------------------------------
(* One live job per key *)

\* Only enqueue() makes a row live: every other operation leaves the live
\* rows live with the same key, or ends them.
LEMMA LiveRowsStay ==
    ASSUME TypeInv, [Next]_vars, ~ Enqueue, NEW j \in JobIds,
           jobs'[j].status \in LiveStatuses
    PROVE  jobs[j].status \in LiveStatuses /\ jobs'[j].key = jobs[j].key
<1>0. jobs \in [JobIds -> Rows] /\ jobs[j] \in Rows
  BY DEF TypeInv, TypeOK
<1>a. jobs[j].status \in Statuses
  BY <1>0 DEF Rows
<1>1. RowStep(jobs[j], jobs'[j])
  BY RowSteps DEF TableStep
<1>2. jobs[j].status \notin TerminalStatuses
  BY <1>0, <1>1, TerminalRow DEF LiveStatuses, TerminalStatuses
<1>3. jobs[j].status # "absent"
  <2> SUFFICES ASSUME jobs[j].status = "absent" PROVE jobs'[j] = jobs[j]
    BY DEF LiveStatuses
  <2>1. CASE UNCHANGED jobs
    BY <2>1
  <2>2. CASE Elapse
    BY <2>2 DEF Elapse, Aged
  <2>3. ASSUME NEW k \in JobIds, NEW kinds \in SUBSET Kinds, NEW l \in Int, ClaimRow(k, kinds, l)
        PROVE  jobs'[j] = jobs[j]
    BY <1>0, <2>3 DEF ClaimRow, Selected, Eligible, Reclaimable, Expired
  <2>4. ASSUME NEW k \in JobIds, NEW t \in Nat, NEW l \in Int, HoldsClaim(k, t), HeartbeatRow(k, l)
        PROVE  jobs'[j] = jobs[j]
    BY <1>0, <2>4 DEF HoldsClaim, HeartbeatRow
  <2>5. ASSUME NEW s \in Slots, FinalizedBy(s)
        PROVE  jobs'[j] = jobs[j]
    BY <1>0, <2>5, FinalizedRow DEF HoldsClaim
  <2>6. CASE ReapRows
    BY <2>6 DEF ReapRows, Exhausted, Expired
  <2> QED
    BY <2>1, <2>2, <2>3, <2>4, <2>5, <2>6, StepOperation DEF Operation
<1>4. jobs'[j].key = jobs[j].key
  BY <1>0, <1>1, <1>3, RowStepKeeps
<1> QED
  BY <1>a, <1>2, <1>3, <1>4 DEF Statuses, LiveStatuses, TerminalStatuses

\* enqueue() adds a live row only when no live row has its key.
LEMMA EnqueueKeepsKeys ==
    ASSUME TypeInv, OneLiveJobPerKey, Enqueue
    PROVE  OneLiveJobPerKey'
<1>0. jobs \in [JobIds -> Rows]
  BY DEF TypeInv, TypeOK
<1>1. PICK kind \in Kinds, key \in Keys \cup {NoKey}, priority \in Priorities,
           b \in Budgets, d \in Delays : EnqueueRow(kind, key, priority, b, d)
  BY DEF Enqueue
<1>2. PICK n \in JobIds : /\ jobs[n].status = "absent"
                          /\ jobs' = [jobs EXCEPT ![n] = Inserted(kind, key, priority, b, d)]
  BY <1>1 DEF EnqueueRow
<1>3. jobs'[n].key = key
  BY <1>0, <1>2, InsertedRow
<1>4. \A i \in JobIds \ {n} : jobs'[i] = jobs[i]
  BY <1>0, <1>2
<1>5. \A i \in JobIds \ {n} :
        jobs'[i].status \in LiveStatuses /\ jobs'[i].key = key => key = NoKey
  BY <1>1, <1>4 DEF EnqueueRow, Blocks
<1> SUFFICES ASSUME NEW i \in JobIds, NEW j \in JobIds,
                    jobs'[i].status \in LiveStatuses, jobs'[j].status \in LiveStatuses,
                    jobs'[i].key = jobs'[j].key, jobs'[i].key # NoKey
             PROVE  i = j
  BY DEF OneLiveJobPerKey
<1>6. CASE i # n /\ j # n
  BY <1>4, <1>6 DEF OneLiveJobPerKey
<1>7. CASE i = n \/ j = n
  BY <1>3, <1>5, <1>7
<1> QED
  BY <1>6, <1>7

\* At any time at most one job with a given idempotency key is queued or
\* running: neither a retry nor a reclaim of crash recovery brings back a
\* second one (enqueue(), fail() and claim_next() together).
THEOREM OneLiveJob == Spec => []OneLiveJobPerKey
<1>1. Init => OneLiveJobPerKey
  BY DEF Init, JobsInit, NoRow, OneLiveJobPerKey, LiveStatuses
<1>2. ASSUME TypeInv, OneLiveJobPerKey, [Next]_vars
      PROVE  OneLiveJobPerKey'
  <2>1. CASE Enqueue
    BY <1>2, <2>1, EnqueueKeepsKeys
  <2>2. CASE ~ Enqueue
    <3>1. \A j \in JobIds : jobs'[j].status \in LiveStatuses =>
            jobs[j].status \in LiveStatuses /\ jobs'[j].key = jobs[j].key
      BY <1>2, <2>2, LiveRowsStay
    <3> QED
      BY <1>2, <3>1 DEF OneLiveJobPerKey
  <2> QED
    BY <2>1, <2>2
<1>3. TypeInv /\ [Next]_vars => TypeInv'
  BY TypeInvStep
<1> QED
  BY TypeInvInit, <1>1, <1>2, <1>3, PTL DEF Spec

-----------------------------------------------------------------------------
(* Leases protect their holders; the drain *)

\* Past the drain's limit a handed-off handler has an outcome: those without
\* one were set aside as pending.
SettlingInv ==
    \A s \in Slots : proc[s[1]] = "settling" /\ slot[s].pc = "handed" => slot[s].outcome # "none"

\* SettlingInv is inductive.
LEMMA SettlingInvStep ==
    ASSUME TypeInv, SettlingInv, [Next]_vars
    PROVE  SettlingInv'
<1>0. slot \in [Slots -> SlotStates] /\ proc \in [Procs -> ProcStates]
      /\ Idle.pc = "idle" /\ \A s \in Slots : s[1] \in Procs
  BY DEF TypeInv, TypeOK, Idle, Slots
<1>a. ASSUME UNCHANGED <<proc, slot>>
      PROVE  SettlingInv'
  BY <1>a DEF SettlingInv
<1>b. ASSUME NEW t \in Slots, NEW x, slot' = [slot EXCEPT ![t] = x],
             x.pc = "handed" => x.outcome # "none" \/ (slot[t].pc = "handed" /\ x.outcome = slot[t].outcome),
             UNCHANGED proc
      PROVE  SettlingInv'
  BY <1>0, <1>b DEF SettlingInv
<1>1. CASE Enqueue \/ Tick \/ UNCHANGED vars
  BY <1>1, <1>a DEF Enqueue, Tick, vars
<1>2. ASSUME NEW p \in Procs, NEW i \in SlotIdx, SlotNext(p, i)
      PROVE  SettlingInv'
  <2> DEFINE t == <<p, i>>
  <2>0. t \in Slots /\ slot[t] \in SlotStates
    BY <1>0 DEF Slots
  <2>1. CASE Claim(p, i)
    <3>1. PICK j \in JobIds : slot' = [slot EXCEPT ![t] = [Idle EXCEPT !.pc = "claimed", !.job = j,
                                                               !.token = jobs[j].attempts + 1]]
      BY <2>1 DEF Claim
    <3>2. [Idle EXCEPT !.pc = "claimed", !.job = j, !.token = jobs[j].attempts + 1].pc # "handed"
      BY DEF Idle
    <3> QED
      BY <1>b, <2>0, <2>1, <3>1, <3>2 DEF Claim
  <2>2. CASE StartHandler(p, i)
    <3>1. [slot[t] EXCEPT !.pc = "running", !.hb = TRUE].pc # "handed"
      BY <2>0 DEF SlotStates
    <3> QED
      BY <1>b, <2>0, <2>2, <3>1 DEF StartHandler
  <2>3. CASE HandlerReturns(p, i)
    <3>1. PICK o \in Outcomes : slot' = [slot EXCEPT ![t] = [slot[t] EXCEPT !.outcome = o]]
      BY <1>0, <2>0, <2>3 DEF HandlerReturns
    <3> DEFINE x == [slot[t] EXCEPT !.outcome = o]
    <3>2. x.outcome # "none"
      BY <2>0 DEF SlotStates, Outcomes
    <3>3. slot' = [slot EXCEPT ![t] = x] /\ UNCHANGED proc
      BY <2>3, <3>1 DEF HandlerReturns
    <3> HIDE DEF x
    <3>4. \A s \in Slots \ {t} : slot'[s] = slot[s]
      BY <1>0, <3>3
    <3>5. slot'[t] = x
      BY <1>0, <2>0, <3>3
    <3> QED
      BY <3>2, <3>3, <3>4, <3>5 DEF SettlingInv
  <2>4. CASE Heartbeat(p, i)
    <3>1. CASE slot' = slot
      BY <1>a, <2>4, <3>1 DEF Heartbeat
    <3>2. CASE slot' = [slot EXCEPT ![t] = [slot[t] EXCEPT !.hb = FALSE]]
      <4>1. /\ [slot[t] EXCEPT !.hb = FALSE].outcome = slot[t].outcome
            /\ [slot[t] EXCEPT !.hb = FALSE].pc = slot[t].pc
        BY <2>0 DEF SlotStates
      <4> QED
        BY <1>b, <2>0, <2>4, <3>2, <4>1 DEF Heartbeat
    <3> QED
      BY <2>4, <3>1, <3>2 DEF Heartbeat
  <2>5. CASE Finalize(p, i)
    <3>1. [slot[t] EXCEPT !.pc = "notify", !.hb = FALSE].pc # "handed"
      BY <2>0 DEF SlotStates
    <3> QED
      BY <1>0, <1>b, <2>0, <2>5, <3>1 DEF Finalize
  <2>6. CASE FinalizeError(p, i) \/ Notify(p, i)
    BY <1>0, <1>b, <2>0, <2>6 DEF FinalizeError, Notify
  <2> QED
    BY <1>2, <2>1, <2>2, <2>3, <2>4, <2>5, <2>6 DEF SlotNext
<1>3. ASSUME NEW p \in Procs, ProcNext(p)
      PROVE  SettlingInv'
  <2>1. CASE Reap(p) \/ \E j \in JobIds : ReapNotify(p, j)
    BY <1>a, <2>1 DEF Reap, ReapNotify
  <2>2. CASE Shutdown(p) \/ Crash(p) \/ Restart(p) \/ DrainDone(p)
    <3>1. /\ proc'[p] # "settling" /\ \A q \in Procs \ {p} : proc'[q] = proc[q]
          /\ \A s \in Slots : s[1] # p => slot'[s] = slot[s]
      BY <1>0, <2>2 DEF Shutdown, Crash, Restart, DrainDone
    <3> QED
      BY <1>0, <3>1 DEF SettlingInv
  <2>3. CASE DrainDeadline(p)
    <3>1. \A s \in Slots : [slot[s] EXCEPT !.pc = "pending"].pc = "pending"
      BY <1>0 DEF SlotStates
    <3>2. /\ \A q \in Procs \ {p} : proc'[q] = proc[q]
          /\ \A s \in Slots : s[1] # p => slot'[s] = slot[s]
      BY <1>0, <2>3 DEF DrainDeadline
    <3>3. \A s \in Slots : s[1] = p /\ slot'[s].pc = "handed" => slot'[s].outcome # "none"
      BY <1>0, <2>3, <3>1 DEF DrainDeadline
    <3> QED
      BY <1>0, <3>2, <3>3 DEF SettlingInv
  <2>4. ASSUME NEW j \in JobIds, DrainFinalize(p, j) \/ DrainAbandon(p, j)
        PROVE  SettlingInv'
    <3> DEFINE t == <<p, in_flight[p][j]>>
    <3>1. t \in Slots /\ slot[t] \in SlotStates
      BY <1>0, <2>4 DEF DrainFinalize, DrainAbandon, Settling, Slots, TypeInv, TypeOK
    <3>2. [slot[t] EXCEPT !.pc = "notify", !.hb = FALSE].pc # "handed"
      BY <3>1 DEF SlotStates
    <3>3. CASE DrainFinalize(p, j)
      BY <1>0, <1>b, <3>1, <3>2, <3>3 DEF DrainFinalize
    <3>4. CASE DrainAbandon(p, j)
      BY <1>0, <1>b, <3>1, <3>4 DEF DrainAbandon
    <3> QED
      BY <2>4, <3>3, <3>4
  <2> QED
    BY <1>3, <2>1, <2>2, <2>3, <2>4 DEF ProcNext
<1> QED
  BY <1>1, <1>2, <1>3 DEF Next

\* Who ends, requeues or takes away a running job whose lease has not expired.
LEMMA HolderEnds ==
    ASSUME TypeInv, SettlingInv, [Next]_vars, NEW j \in JobIds,
           jobs[j].status = "running", jobs[j].lease >= 0,
           <<jobs'[j].status, jobs'[j].lease_token>> # <<jobs[j].status, jobs[j].lease_token>>
    PROVE  \E s \in Slots : /\ slot[s].job = j /\ slot[s].token = jobs[j].lease_token
                            /\ slot[s].outcome # "none"
                            /\ slot'[s] # slot[s]
<1>0. jobs \in [JobIds -> Rows] /\ jobs[j] \in Rows /\ jobs[j].lease \in Int
  BY DEF TypeInv, TypeOK, Rows
<1>1. ~ UNCHANGED jobs
  OBVIOUS
<1>2. ~ Enqueue
  BY <1>0 DEF Enqueue, EnqueueRow
<1>3. ~ Elapse
  <2> SUFFICES ASSUME Elapse PROVE FALSE
    OBVIOUS
  <2>1. jobs'[j] = [jobs[j] EXCEPT !.lease = jobs[j].lease - 1]
    BY DEF Elapse, Aged
  <2> QED
    BY <1>0, <2>1 DEF Rows
<1>4. ASSUME NEW k \in JobIds, NEW kinds \in SUBSET Kinds, NEW l \in Int, ClaimRow(k, kinds, l)
      PROVE  FALSE
  BY <1>0, <1>4 DEF ClaimRow, Selected, Eligible, Reclaimable, Expired
<1>5. ASSUME NEW k \in JobIds, NEW t \in Nat, NEW l \in Int, HoldsClaim(k, t), HeartbeatRow(k, l)
      PROVE  FALSE
  <2>1. \/ jobs'[j] = jobs[j]
        \/ jobs'[j] = [jobs[j] EXCEPT !.lease = l]
    BY <1>0, <1>5 DEF HeartbeatRow
  <2> QED
    BY <1>0, <2>1 DEF Rows
<1>6. ~ ReapRows
  BY <1>0 DEF ReapRows, Exhausted, Expired
<1>7. PICK s \in Slots : FinalizedBy(s)
  BY <1>1, <1>2, <1>3, <1>4, <1>5, <1>6, StepOperation DEF Operation
<1>8. slot[s].job = j /\ HoldsClaim(j, slot[s].token)
  BY <1>0, <1>1, <1>7, FinalizedRow
<1>9. slot[s].outcome # "none" /\ slot'[s] # slot[s]
  BY <1>7 DEF FinalizedBy, SettlingInv
<1> QED
  BY <1>8, <1>9 DEF HoldsClaim

\* While its lease has not expired a running job is ended, requeued or handed
\* out again by nobody but the slot that holds the claim, after its handler has
\* finished: not by a slot that lost it, not by another claim, not by the reaper
\* (claim_next, complete, fail, reap_exhausted, and the drain of a shutdown).
THEOREM HolderProtected == Spec => LeaseProtectsHolder
<1>1. Init => SettlingInv
  BY DEF Init, SettlingInv, Idle
<1>2. TypeInv /\ SettlingInv /\ [Next]_vars => TypeInv' /\ SettlingInv'
  BY TypeInvStep, SettlingInvStep
<1>3. TypeInv /\ SettlingInv /\ [Next]_vars
        => [\A j \in JobIds :
              (/\ jobs[j].status = "running" /\ jobs[j].lease >= 0
               /\ <<jobs'[j].status, jobs'[j].lease_token>> # <<jobs[j].status, jobs[j].lease_token>>)
                => \E s \in Slots : /\ slot[s].job = j /\ slot[s].token = jobs[j].lease_token
                                    /\ slot[s].outcome # "none"
                                    /\ slot'[s] # slot[s]]_vars
  BY HolderEnds
<1> QED
  BY TypeInvInit, <1>1, <1>2, <1>3, PTL DEF Spec, LeaseProtectsHolder

\* Two slots never work under the same claim of a job: claims are numbered by
\* attempts, and a slot's claim is at most the newest one.  A dropped handler
\* is of a job that was claimed twice.
ClaimInv ==
    /\ \A s \in Slots : slot[s].pc # "idle" =>
         1 <= slot[s].token /\ slot[s].token <= jobs[slot[s].job].attempts
    /\ \A s, t \in Slots :
         (slot[s].pc # "idle" /\ slot[t].pc # "idle" /\ slot[s].job = slot[t].job
          /\ slot[s].token = slot[t].token) => s = t
    /\ \A s \in Slots : slot[s].pc = "dropped" => 1 < jobs[slot[s].job].attempts

\* A handed-off handler is registered under its job until the drain has dealt
\* with it; so is the slot that announces an outcome the drain recorded.
Registers(p, i) == in_flight[p][slot[<<p, i>>].job] = i

DrainInv ==
    \A p \in Procs, i \in SlotIdx :
      /\ slot[<<p, i>>].pc \in {"handed", "pending"} =>
           proc[p] \notin {"up", "stopped"} /\ Registers(p, i)
      /\ slot[<<p, i>>].pc = "notify" /\ proc[p] # "up" => Registers(p, i)

\* A row's attempts never decrease.
LEMMA AttemptsGrow ==
    ASSUME TypeInv, [Next]_vars, NEW j \in JobIds, jobs[j].status # "absent"
    PROVE  /\ jobs[j].attempts \in Nat /\ jobs'[j].attempts \in Nat
           /\ jobs[j].attempts <= jobs'[j].attempts
<1>1. jobs[j] \in Rows /\ RowStep(jobs[j], jobs'[j])
  BY RowSteps DEF TableStep, TypeInv, TypeOK
<1> DEFINE r == jobs[j]
           q == jobs'[j]
<1>2. r \in Rows /\ r.status # "absent" /\ RowStep(r, q)
  BY <1>1
<1> HIDE DEF r, q
<1>3. r.attempts \in Nat /\ r.lease_token \in Nat /\ r.max_attempts \in Nat
  BY <1>2 DEF Rows
<1>9. q.attempts \in Nat /\ r.attempts <= q.attempts
  <2>1. CASE q = r
    BY <1>3, <2>1
  <2>2. CASE HandedOut(r, q)
    <3>1. PICK l \in Int : q = Claimed(r, l)
      BY <2>2 DEF HandedOut
    <3>2. q.attempts = r.attempts + 1
      BY <1>2, <3>1, ClaimedRow
    <3> QED
      BY <1>3, <3>2
  <2>3. CASE Retried(r, q)
    <3>1. PICK n \in Nat : q = Requeued(r, n)
      BY <2>3 DEF Retried
    <3>2. q.attempts = r.attempts
      BY <1>2, <3>1, RequeuedRow
    <3> QED
      BY <1>3, <3>2
  <2>4. CASE Retimed(r, q)
    BY <1>2, <1>3, <2>4 DEF Retimed, Rows
  <2>5. CASE r.status = "running" /\ q = Completed(r, r.lease_token)
    <3>1. q.attempts = r.attempts
      BY <1>2, <1>3, <2>5, CompletedRow
    <3> QED
      BY <1>3, <3>1
  <2>6. CASE r.status = "running" /\ q = Failed(r)
    <3>1. q.attempts = r.attempts
      BY <1>2, <1>3, <2>6, FailedRow
    <3> QED
      BY <1>3, <3>1
  <2> QED
    BY <1>2, <2>1, <2>2, <2>3, <2>4, <2>5, <2>6 DEF RowStep, Created
<1> QED
  BY <1>3, <1>9 DEF r, q

\* Only Claim makes a slot claimed, and it changes no other slot.
LEMMA OneSlotClaims ==
    ASSUME TypeInv, [Next]_vars, NEW s \in Slots, NEW t \in Slots, s # t,
           slot'[s].pc = "claimed", slot'[t].pc = "claimed"
    PROVE  slot'[s] = slot[s] \/ slot'[t] = slot[t]
<1>0. slot \in [Slots -> SlotStates] /\ Idle.pc # "claimed"
  BY DEF TypeInv, TypeOK, Idle
<1>a. ASSUME NEW u, NEW x, slot' = [slot EXCEPT ![u] = x]
      PROVE  slot'[s] = slot[s] \/ slot'[t] = slot[t]
  BY <1>0, <1>a
<1>1. CASE Enqueue \/ Tick \/ UNCHANGED vars
  BY <1>1 DEF Enqueue, Tick, vars
<1>2. ASSUME NEW p \in Procs, NEW i \in SlotIdx, SlotNext(p, i)
      PROVE  slot'[s] = slot[s] \/ slot'[t] = slot[t]
  BY <1>0, <1>2, <1>a DEF SlotNext, Claim, StartHandler, HandlerReturns, Heartbeat, Finalize,
                          FinalizeError, Notify
<1>3. ASSUME NEW p \in Procs, ProcNext(p)
      PROVE  slot'[s] = slot[s] \/ slot'[t] = slot[t]
  <2>1. CASE Reap(p) \/ \E j \in JobIds : ReapNotify(p, j)
    BY <2>1 DEF Reap, ReapNotify
  <2>2. CASE Shutdown(p) \/ DrainDeadline(p) \/ DrainDone(p) \/ Crash(p) \/ Restart(p)
    <3>1. \/ slot'[s] = slot[s]
          \/ slot'[s] = Idle
          \/ \E c \in {"handed", "dropped", "pending"} : slot'[s] = [slot[s] EXCEPT !.pc = c]
      BY <2>2 DEF Shutdown, DrainDeadline, DrainDone, Crash, Restart
    <3>2. \A c \in {"handed", "dropped", "pending"} : [slot[s] EXCEPT !.pc = c].pc = c
      BY <1>0 DEF SlotStates
    <3> QED
      BY <1>0, <3>1, <3>2
  <2>3. CASE \E j \in JobIds : DrainFinalize(p, j) \/ DrainAbandon(p, j)
    BY <1>a, <2>3 DEF DrainFinalize, DrainAbandon
  <2> QED
    BY <1>3, <2>1, <2>2, <2>3 DEF ProcNext
<1> QED
  BY <1>1, <1>2, <1>3 DEF Next

\* A slot becomes dropped only in a shutdown, while another slot of its
\* process runs the same job.
LEMMA DroppedByOther ==
    ASSUME TypeInv, [Next]_vars, NEW s \in Slots, slot'[s].pc = "dropped", slot[s].pc # "dropped"
    PROVE  \E t \in Slots : t # s /\ slot[t].pc = "running" /\ slot[s].pc = "running"
                            /\ slot[t].job = slot[s].job
<1>0. /\ slot \in [Slots -> SlotStates] /\ slot[s] \in SlotStates
      /\ Idle.pc # "dropped"
      /\ \A p \in Procs, i \in SlotIdx : <<p, i>> \in Slots
  BY DEF TypeInv, TypeOK, Idle, Slots
<1>1. ASSUME Enqueue \/ Tick \/ UNCHANGED vars
      PROVE  FALSE
  BY <1>1 DEF Enqueue, Tick, vars
<1>2. ASSUME NEW p \in Procs, NEW i \in SlotIdx, SlotNext(p, i)
      PROVE  FALSE
  <2> DEFINE u == <<p, i>>
  <2>1. u \in Slots /\ slot[u] \in SlotStates
    BY <1>0
  <2>2. \/ slot' = slot
        \/ \E j \in JobIds : slot' = [slot EXCEPT ![u] = [Idle EXCEPT !.pc = "claimed", !.job = j,
                                                            !.token = jobs[j].attempts + 1]]
        \/ slot' = [slot EXCEPT ![u] = [slot[u] EXCEPT !.pc = "running", !.hb = TRUE]]
        \/ \E o \in Outcomes : slot' = [slot EXCEPT ![u] = [slot[u] EXCEPT !.outcome = o]]
        \/ slot' = [slot EXCEPT ![u] = [slot[u] EXCEPT !.hb = FALSE]]
        \/ slot' = [slot EXCEPT ![u] = [slot[u] EXCEPT !.pc = "notify", !.hb = FALSE]]
        \/ slot' = [slot EXCEPT ![u] = Idle]
    BY <1>0, <1>2, <2>1 DEF SlotNext, Claim, StartHandler, HandlerReturns, Heartbeat, Finalize,
                            FinalizeError, Notify
  <2>3. /\ \A j : [Idle EXCEPT !.pc = "claimed", !.job = j,
                               !.token = jobs[j].attempts + 1].pc = "claimed"
        /\ [slot[u] EXCEPT !.pc = "running", !.hb = TRUE].pc = "running"
        /\ \A o : [slot[u] EXCEPT !.outcome = o].pc = slot[u].pc
        /\ [slot[u] EXCEPT !.hb = FALSE].pc = slot[u].pc
        /\ [slot[u] EXCEPT !.pc = "notify", !.hb = FALSE].pc = "notify"
    BY <2>1 DEF SlotStates, Idle
  <2> HIDE DEF u
  <2>4. CASE s = u
    <3>1. \A x : slot' = [slot EXCEPT ![u] = x] => slot'[s] = x
      BY <1>0, <2>1, <2>4
    <3>2. slot'[s].pc \in {slot[s].pc, "claimed", "running", "notify", "idle"}
      <4>1. CASE slot' = slot
        BY <4>1
      <4>2. CASE \E j \in JobIds : slot' = [slot EXCEPT ![u] = [Idle EXCEPT !.pc = "claimed", !.job = j,
                                                            !.token = jobs[j].attempts + 1]]
        <5> PICK j \in JobIds : slot' = [slot EXCEPT ![u] = [Idle EXCEPT !.pc = "claimed", !.job = j,
                                                            !.token = jobs[j].attempts + 1]]
          BY <4>2
        <5>1. slot'[s] = [Idle EXCEPT !.pc = "claimed", !.job = j, !.token = jobs[j].attempts + 1]
          BY <3>1
        <5> QED
          BY <2>3, <5>1
      <4>3. CASE slot' = [slot EXCEPT ![u] = [slot[u] EXCEPT !.pc = "running", !.hb = TRUE]]
        BY <2>3, <3>1, <4>3
      <4>4. CASE \E o \in Outcomes : slot' = [slot EXCEPT ![u] = [slot[u] EXCEPT !.outcome = o]]
        <5> PICK o \in Outcomes : slot' = [slot EXCEPT ![u] = [slot[u] EXCEPT !.outcome = o]]
          BY <4>4
        <5>1. slot'[s] = [slot[u] EXCEPT !.outcome = o]
          BY <3>1
        <5> QED
          BY <2>3, <2>4, <5>1
      <4>5. CASE slot' = [slot EXCEPT ![u] = [slot[u] EXCEPT !.hb = FALSE]]
        BY <2>3, <2>4, <3>1, <4>5
      <4>6. CASE slot' = [slot EXCEPT ![u] = [slot[u] EXCEPT !.pc = "notify", !.hb = FALSE]]
        BY <2>3, <3>1, <4>6
      <4>7. CASE slot' = [slot EXCEPT ![u] = Idle]
        <5>1. slot'[s] = Idle
          BY <3>1, <4>7
        <5> QED
          BY <5>1 DEF Idle
      <4> QED
        BY <2>2, <4>1, <4>2, <4>3, <4>4, <4>5, <4>6, <4>7
    <3> QED
      BY <3>2
  <2>5. CASE s # u
    BY <1>0, <2>1, <2>2, <2>5
  <2> QED
    BY <2>4, <2>5
<1>3. ASSUME NEW p \in Procs, ProcNext(p), ~ Shutdown(p)
      PROVE  FALSE
  <2>1. CASE \E j \in JobIds : DrainFinalize(p, j) \/ DrainAbandon(p, j)
    <3> PICK j \in JobIds : DrainFinalize(p, j) \/ DrainAbandon(p, j)
      BY <2>1
    <3> DEFINE u == <<p, in_flight[p][j]>>
    <3>1. u \in Slots /\ slot[u] \in SlotStates
      BY <1>0 DEF DrainFinalize, DrainAbandon, Settling, TypeInv, TypeOK
    <3>2. slot' = [slot EXCEPT ![u] = Idle]
          \/ slot' = [slot EXCEPT ![u] = [slot[u] EXCEPT !.pc = "notify", !.hb = FALSE]]
      BY DEF DrainFinalize, DrainAbandon
    <3>3. [slot[u] EXCEPT !.pc = "notify", !.hb = FALSE].pc = "notify"
      BY <3>1 DEF SlotStates
    <3> HIDE DEF u
    <3> QED
      BY <1>0, <3>1, <3>2, <3>3
  <2>2. CASE Reap(p) \/ (\E j \in JobIds : ReapNotify(p, j)) \/ DrainDeadline(p) \/ DrainDone(p)
             \/ Crash(p) \/ Restart(p)
    <3>1. \/ slot'[s] = slot[s]
          \/ slot'[s] = Idle
          \/ slot'[s] = [slot[s] EXCEPT !.pc = "pending"]
      BY <2>2 DEF Reap, ReapNotify, DrainDeadline, DrainDone, Crash, Restart
    <3>2. [slot[s] EXCEPT !.pc = "pending"].pc = "pending"
      BY <1>0 DEF SlotStates
    <3> QED
      BY <1>0, <3>1, <3>2
  <2> QED
    BY <1>3, <2>1, <2>2 DEF ProcNext
<1>4. PICK p \in Procs : Shutdown(p)
  BY <1>1, <1>2, <1>3 DEF Next
<1>5. s = <<s[1], s[2]>> /\ s[2] \in SlotIdx
  BY DEF Slots
<1>6. [slot[s] EXCEPT !.pc = "handed"].pc = "handed"
  BY <1>0 DEF SlotStates
<1>7. slot[s].pc = "running" /\ s[1] = p /\ Overwritten(p, s[2])
  BY <1>0, <1>4, <1>6 DEF Shutdown
<1>8. PICK k \in SlotIdx : slot[<<p, k>>].pc = "running" /\ slot[<<p, k>>].job = slot[s].job /\ k > s[2]
  BY <1>5, <1>7 DEF Overwritten, Running
<1>9. <<p, k>> \in Slots /\ <<p, k>> # s
  BY <1>0, <1>5, <1>8 DEF SlotIdx
<1> QED
  BY <1>7, <1>8, <1>9

\* ClaimInv is inductive.
LEMMA ClaimInvStep ==
    ASSUME TypeInv, ClaimInv, [Next]_vars
    PROVE  ClaimInv'
<1>1. /\ SlotsStep /\ slot \in [Slots -> SlotStates] /\ Idle.pc = "idle"
      /\ \A s \in Slots : slot[s].token \in Nat
  BY EveryStepTyped DEF TypeInv, TypeOK, Idle, SlotStates
<1>2. ASSUME NEW s \in Slots, slot[s].pc # "idle"
      PROVE  /\ slot[s].job \in JobIds
             /\ jobs[slot[s].job].attempts \in Nat /\ jobs'[slot[s].job].attempts \in Nat
             /\ jobs[slot[s].job].attempts <= jobs'[slot[s].job].attempts
  BY <1>2, AttemptsGrow DEF TypeInv, WellFormed
<1> DEFINE Kept(s) == /\ slot[s].pc # "idle"
                      /\ slot'[s].job = slot[s].job /\ slot'[s].token = slot[s].token
           New(s) == /\ slot'[s] # slot[s] /\ slot'[s].pc = "claimed"
                     /\ slot'[s].job \in JobIds
                     /\ slot'[s].token = jobs[slot'[s].job].attempts + 1
                     /\ jobs'[slot'[s].job].attempts = slot'[s].token
                     /\ jobs[slot'[s].job].attempts \in Nat
<1>3. ASSUME NEW s \in Slots, slot'[s].pc # "idle"
      PROVE  Kept(s) \/ New(s)
  <2>1. SlotStep(s)
    BY <1>1 DEF SlotsStep
  <2>2. slot'[s].job \in JobIds => jobs[slot'[s].job].attempts \in Nat
    BY DEF TypeInv, TypeOK, Rows
  <2> QED
    BY <1>1, <1>3, <2>1, <2>2 DEF SlotStep
<1>4. ASSUME NEW s \in Slots, slot'[s].pc # "idle"
      PROVE  1 <= slot'[s].token /\ slot'[s].token <= jobs'[slot'[s].job].attempts
  <2>1. CASE Kept(s)
    BY <1>1, <1>2, <2>1 DEF ClaimInv
  <2>2. CASE New(s)
    BY <2>2
  <2> QED
    BY <1>3, <1>4, <2>1, <2>2
<1>5. ASSUME NEW s \in Slots, NEW t \in Slots, slot'[s].pc # "idle", slot'[t].pc # "idle",
             slot'[s].job = slot'[t].job, slot'[s].token = slot'[t].token
      PROVE  s = t
  <2>1. CASE Kept(s) /\ Kept(t)
    BY <1>5, <2>1 DEF ClaimInv
  <2>2. ASSUME NEW a \in Slots, NEW b \in Slots, Kept(a), New(b), slot'[a].job = slot'[b].job
        PROVE  slot'[a].token # slot'[b].token
    <3>1. slot[a].token <= jobs[slot[a].job].attempts /\ slot[a].token \in Nat
      BY <1>1, <2>2 DEF ClaimInv
    <3> QED
      BY <2>2, <3>1
  <2>3. CASE New(s) /\ New(t)
    BY <2>3, OneSlotClaims
  <2> QED
    BY <1>3, <1>5, <2>1, <2>2, <2>3
<1>6. ASSUME NEW s \in Slots, slot'[s].pc = "dropped"
      PROVE  1 < jobs'[slot'[s].job].attempts
  <2>1. Kept(s)
    BY <1>3, <1>6
  <2>2. 1 < jobs[slot[s].job].attempts
    <3>1. CASE slot[s].pc = "dropped"
      BY <3>1 DEF ClaimInv
    <3>2. CASE slot[s].pc # "dropped"
      <4>1. PICK t \in Slots : t # s /\ slot[t].pc = "running" /\ slot[s].pc = "running"
                               /\ slot[t].job = slot[s].job
        BY <1>6, <3>2, DroppedByOther
      <4>2. /\ slot[t].token # slot[s].token
            /\ 1 <= slot[t].token /\ slot[t].token <= jobs[slot[s].job].attempts
            /\ 1 <= slot[s].token /\ slot[s].token <= jobs[slot[s].job].attempts
        BY <4>1 DEF ClaimInv
      <4> QED
        BY <1>1, <1>2, <4>1, <4>2
    <3> QED
      BY <3>1, <3>2
  <2> QED
    BY <1>2, <2>1, <2>2
<1> QED
  BY <1>4, <1>5, <1>6 DEF ClaimInv

\* DrainInv is kept by every step, action by action.
LEMMA DrainInvStep ==
    ASSUME TypeInv, DrainInv, [Next]_vars
    PROVE  DrainInv'
<1>0. /\ slot \in [Slots -> SlotStates] /\ proc \in [Procs -> ProcStates]
      /\ in_flight \in [Procs -> [JobIds -> SlotIdx \cup {0}]]
      /\ Idle.pc = "idle" /\ 0 \notin SlotIdx
      /\ \A p \in Procs, i \in SlotIdx : <<p, i>> \in Slots
      /\ \A s \in Slots : slot[s].pc # "idle" => slot[s].job \in JobIds
  BY DEF TypeInv, TypeOK, WellFormed, Idle, Slots, SlotIdx
<1>w. ASSUME NEW x \in SlotStates
      PROVE  /\ [x EXCEPT !.pc = "notify", !.hb = FALSE].pc = "notify"
             /\ [x EXCEPT !.pc = "notify", !.hb = FALSE].job = x.job
             /\ [x EXCEPT !.pc = "running", !.hb = TRUE].pc = "running"
             /\ \A c \in {"handed", "dropped", "pending"} : /\ [x EXCEPT !.pc = c].job = x.job
                                                            /\ [x EXCEPT !.pc = c].pc = c
             /\ [x EXCEPT !.hb = FALSE].job = x.job
             /\ [x EXCEPT !.hb = FALSE].pc = x.pc
             /\ \A o \in Outcomes : /\ [x EXCEPT !.outcome = o].job = x.job
                                    /\ [x EXCEPT !.outcome = o].pc = x.pc
  BY DEF SlotStates
<1> DEFINE Watched == {"handed", "pending", "notify"}
\* The steps that leave the registrations alone: each slot keeps its pc and
\* its job, or is no longer one that the drain looks after.
<1>a. ASSUME UNCHANGED <<proc, in_flight>>,
             \A s \in Slots : slot'[s].pc \in Watched =>
               \/ slot'[s].pc = slot[s].pc /\ slot'[s].job = slot[s].job
               \/ slot'[s].pc = "notify" /\ proc[s[1]] = "up"
               \/ slot'[s].pc = "notify" /\ slot[s].pc = "handed" /\ slot'[s].job = slot[s].job
      PROVE  DrainInv'
  <2> SUFFICES ASSUME NEW p \in Procs, NEW i \in SlotIdx, slot'[<<p, i>>].pc \in Watched
               PROVE  /\ slot'[<<p, i>>].pc \in {"handed", "pending"} =>
                           proc[p] \notin {"up", "stopped"}
                           /\ in_flight[p][slot'[<<p, i>>].job] = i
                      /\ slot'[<<p, i>>].pc = "notify" /\ proc[p] # "up" =>
                           in_flight[p][slot'[<<p, i>>].job] = i
    BY <1>a DEF DrainInv, Registers
  <2>1. <<p, i>> \in Slots /\ <<p, i>>[1] = p
    BY <1>0
  <2> QED
    BY <1>a, <2>1 DEF DrainInv, Registers
\* One slot is written, and the registrations are left alone.
<1>b. ASSUME NEW t \in Slots, NEW x, slot' = [slot EXCEPT ![t] = x],
             \/ x.pc \notin Watched
             \/ x.pc = slot[t].pc /\ x.job = slot[t].job
             \/ x.pc = "notify" /\ proc[t[1]] = "up"
             \/ x.pc = "notify" /\ slot[t].pc = "handed" /\ x.job = slot[t].job,
             UNCHANGED <<proc, in_flight>>
      PROVE  DrainInv'
  <2>1. \A s \in Slots : slot'[s] = IF s = t THEN x ELSE slot[s]
    BY <1>0, <1>b
  <2> QED
    BY <1>a, <1>b, <2>1
\* The entry of one job of process p ends, together with its slot.
<1>c. ASSUME NEW p \in Procs, NEW i \in SlotIdx, NEW j \in JobIds,
             slot' = [slot EXCEPT ![<<p, i>>] = Idle],
             in_flight' = [in_flight EXCEPT ![p][j] = 0],
             UNCHANGED proc,
             proc[p] = "up" \/ in_flight[p][j] = i
      PROVE  DrainInv'
  <2> SUFFICES ASSUME NEW q \in Procs, NEW k \in SlotIdx,
                      slot'[<<q, k>>].pc \in Watched
               PROVE  /\ slot'[<<q, k>>].pc \in {"handed", "pending"} =>
                           proc[q] \notin {"up", "stopped"}
                           /\ in_flight'[q][slot'[<<q, k>>].job] = k
                      /\ slot'[<<q, k>>].pc = "notify" /\ proc[q] # "up" =>
                           in_flight'[q][slot'[<<q, k>>].job] = k
    BY <1>c, ZenonT(30) DEF DrainInv, Registers
  <2>1. <<q, k>> # <<p, i>> /\ slot'[<<q, k>>] = slot[<<q, k>>]
    BY <1>0, <1>c
  <2>2. slot[<<q, k>>].job \in JobIds
    BY <1>0, <2>1
  <2>3. /\ slot[<<q, k>>].pc \in {"handed", "pending"} =>
             proc[q] \notin {"up", "stopped"} /\ in_flight[q][slot[<<q, k>>].job] = k
        /\ slot[<<q, k>>].pc = "notify" /\ proc[q] # "up" =>
             in_flight[q][slot[<<q, k>>].job] = k
    BY DEF DrainInv, Registers
  <2>4. CASE q # p
    <3>1. in_flight'[q] = in_flight[q]
      BY <1>0, <1>c, <2>4
    <3> QED
      BY <2>1, <2>3, <3>1
  <2>5. CASE q = p /\ proc[p] = "up"
    BY <2>1, <2>3, <2>5
  <2>6. CASE q = p /\ proc[p] # "up"
    <3>1. in_flight[p][slot[<<q, k>>].job] = k /\ k # i
      BY <2>1, <2>3, <2>6
    <3>2. slot[<<q, k>>].job # j
      BY <1>c, <2>6, <3>1
    <3>3. in_flight'[p][slot[<<q, k>>].job] = in_flight[p][slot[<<q, k>>].job]
      BY <1>0, <1>c, <2>2, <3>2
    <3> QED
      BY <2>1, <2>3, <2>6, <3>3
  <2> QED
    BY <2>4, <2>5, <2>6
\* Process p starts, stops, crashes or shuts down.
<1>d. ASSUME NEW p \in Procs, NEW e, in_flight' = [in_flight EXCEPT ![p] = e],
             \A q \in Procs \ {p} : proc'[q] = proc[q],
             \A s \in Slots : s[1] # p => slot'[s] = slot[s],
             \A k \in SlotIdx : slot'[<<p, k>>].pc # "notify",
             \A k \in SlotIdx : slot'[<<p, k>>].pc \in {"handed", "pending"} =>
                proc'[p] \notin {"up", "stopped"} /\ e[slot'[<<p, k>>].job] = k
      PROVE  DrainInv'
  <2>1. in_flight'[p] = e /\ \A q \in Procs \ {p} : in_flight'[q] = in_flight[q]
    BY <1>0, <1>d
  <2>2. ASSUME NEW q \in Procs, NEW k \in SlotIdx, q # p
        PROVE  slot'[<<q, k>>] = slot[<<q, k>>]
    BY <1>0, <1>d, <2>2
  <2>3. ASSUME NEW q \in Procs, NEW k \in SlotIdx
        PROVE  /\ slot'[<<q, k>>].pc \in {"handed", "pending"} =>
                    proc'[q] \notin {"up", "stopped"}
                    /\ in_flight'[q][slot'[<<q, k>>].job] = k
               /\ slot'[<<q, k>>].pc = "notify" /\ proc'[q] # "up" =>
                    in_flight'[q][slot'[<<q, k>>].job] = k
    <3>1. CASE q = p
      BY <1>d, <2>1, <3>1
    <3>2. CASE q # p
      BY <1>d, <2>1, <2>2, <3>2 DEF DrainInv, Registers
    <3> QED
      BY <3>1, <3>2
  <2> QED
    BY <2>3 DEF DrainInv, Registers
<1> HIDE DEF Watched
<1>n. /\ {"handed", "pending", "notify"} = Watched
  BY DEF Watched
<1>1. CASE Enqueue \/ Tick \/ UNCHANGED vars
  BY <1>1, <1>a DEF Enqueue, Tick, vars
<1>2. ASSUME NEW p \in Procs, NEW i \in SlotIdx, SlotNext(p, i)
      PROVE  DrainInv'
  <2> DEFINE t == <<p, i>>
  <2>0. t \in Slots /\ slot[t] \in SlotStates /\ t[1] = p
    BY <1>0
  <2>1. CASE Claim(p, i)
    <3>1. PICK j \in JobIds : slot' = [slot EXCEPT ![t] = [Idle EXCEPT !.pc = "claimed", !.job = j,
                                                               !.token = jobs[j].attempts + 1]]
      BY <2>1 DEF Claim
    <3> DEFINE x == [Idle EXCEPT !.pc = "claimed", !.job = j, !.token = jobs[j].attempts + 1]
    <3>2. x.pc \notin Watched
      BY <1>n DEF Idle
    <3>3. slot' = [slot EXCEPT ![t] = x] /\ UNCHANGED <<proc, in_flight>>
      BY <2>1, <3>1 DEF Claim
    <3> HIDE DEF x
    <3> QED
      BY <1>b, <2>0, <3>2, <3>3
  <2>2. CASE StartHandler(p, i)
    <3> DEFINE x == [slot[t] EXCEPT !.pc = "running", !.hb = TRUE]
    <3>1. x.pc \notin Watched
      BY <1>n, <1>w, <2>0
    <3>2. slot' = [slot EXCEPT ![t] = x] /\ UNCHANGED <<proc, in_flight>>
      BY <2>2 DEF StartHandler
    <3>3. \A y : slot' = [slot EXCEPT ![t] = y] /\ y.pc \notin Watched => DrainInv'
      BY <1>b, <2>0, <3>2
    <3> QED
      BY <3>1, <3>2, <3>3
  <2>3. CASE HandlerReturns(p, i)
    <3>1. PICK o \in Outcomes : slot' = [slot EXCEPT ![t] = [slot[t] EXCEPT !.outcome = o]]
      BY <1>0, <2>0, <2>3 DEF HandlerReturns
    <3>2. UNCHANGED <<proc, in_flight>>
      BY <2>3 DEF HandlerReturns
    <3>3. /\ [slot[t] EXCEPT !.outcome = o].pc = slot[t].pc
          /\ [slot[t] EXCEPT !.outcome = o].job = slot[t].job
      BY <1>w, <2>0
    <3>4. \A y : slot' = [slot EXCEPT ![t] = y] /\ y.pc = slot[t].pc /\ y.job = slot[t].job
                 => DrainInv'
      BY <1>b, <2>0, <3>2
    <3> QED
      BY <3>1, <3>3, <3>4
  <2>4. CASE Heartbeat(p, i)
    <3>1. UNCHANGED <<proc, in_flight>> /\ (UNCHANGED slot \/ slot' = [slot EXCEPT ![t].hb = FALSE])
      BY <2>4 DEF Heartbeat
    <3>2. CASE UNCHANGED slot
      BY <1>a, <3>1, <3>2
    <3>3. CASE slot' = [slot EXCEPT ![t].hb = FALSE]
      <4> DEFINE x == [slot[t] EXCEPT !.hb = FALSE]
      <4>1. slot' = [slot EXCEPT ![t] = x]
        BY <3>3
      <4>2. x.pc = slot[t].pc /\ x.job = slot[t].job
        BY <1>w, <2>0
      <4> HIDE DEF x
      <4> QED
        BY <1>b, <2>0, <3>1, <4>1, <4>2
    <3> QED
      BY <3>1, <3>2, <3>3
  <2>5. CASE Finalize(p, i)
    <3>1. proc[p] = "up" /\ UNCHANGED <<proc, in_flight>>
      BY <2>5 DEF Finalize
    <3>2. CASE slot' = [slot EXCEPT ![t] = Idle]
      BY <1>0, <1>b, <1>n, <2>0, <3>1, <3>2
    <3>3. CASE slot' = [slot EXCEPT ![t] = [slot[t] EXCEPT !.pc = "notify", !.hb = FALSE]]
      <4> DEFINE x == [slot[t] EXCEPT !.pc = "notify", !.hb = FALSE]
      <4>1. x.pc = "notify" /\ slot' = [slot EXCEPT ![t] = x]
        BY <1>w, <2>0, <3>3
      <4>2. \A y : slot' = [slot EXCEPT ![t] = y] /\ y.pc = "notify" => DrainInv'
        BY <1>b, <2>0, <3>1
      <4> QED
        BY <4>1, <4>2
    <3> QED
      BY <2>5, <3>2, <3>3 DEF Finalize
  <2>6. CASE FinalizeError(p, i)
    BY <1>0, <1>b, <1>n, <2>0, <2>6 DEF FinalizeError
  <2>7. CASE Notify(p, i)
    <3>1. /\ slot[t].pc = "notify" /\ slot' = [slot EXCEPT ![t] = Idle] /\ UNCHANGED proc
          /\ in_flight' = [in_flight EXCEPT ![p][slot[t].job] = 0]
      BY <2>7 DEF Notify
    <3>2. slot[t].job \in JobIds
      BY <1>0, <2>0, <3>1
    <3>3. proc[p] = "up" \/ in_flight[p][slot[t].job] = i
      BY <3>1 DEF DrainInv, Registers
    <3> QED
      BY <1>c, <3>1, <3>2, <3>3
  <2> QED
    BY <1>2, <2>1, <2>2, <2>3, <2>4, <2>5, <2>6, <2>7 DEF SlotNext
<1>3. ASSUME NEW p \in Procs, ProcNext(p)
      PROVE  DrainInv'
  <2>1. CASE Reap(p) \/ \E j \in JobIds : ReapNotify(p, j)
    BY <1>a, <2>1 DEF Reap, ReapNotify
  <2>2. CASE Crash(p) \/ Restart(p)
    <3>1. \A k \in SlotIdx : slot'[<<p, k>>] = Idle
      BY <1>0, <2>2 DEF Crash, Restart
    <3>2. /\ \A q \in Procs \ {p} : proc'[q] = proc[q]
          /\ \A s \in Slots : s[1] # p => slot'[s] = slot[s]
          /\ in_flight' = [in_flight EXCEPT ![p] = NothingInFlight]
      BY <1>0, <2>2 DEF Crash, Restart
    <3> QED
      BY <1>0, <1>d, <3>1, <3>2
  <2>3. CASE Shutdown(p)
    <3>1. PICK e \in [JobIds -> SlotIdx \cup {0}] :
            /\ \A j \in JobIds : HandedOff(p, j, e[j])
            /\ in_flight' = [in_flight EXCEPT ![p] = e]
      BY <2>3 DEF Shutdown
    <3>2. /\ \A s \in Slots : s[1] # p => slot'[s] = slot[s]
          /\ \A q \in Procs \ {p} : proc'[q] = proc[q]
          /\ proc'[p] = "draining"
      BY <1>0, <2>3 DEF Shutdown
    <3>3. ASSUME NEW k \in SlotIdx
          PROVE  \/ slot'[<<p, k>>] = Idle
                 \/ /\ slot[<<p, k>>].pc = "running"
                    /\ slot'[<<p, k>>] = [slot[<<p, k>>] EXCEPT !.pc = "dropped"]
                 \/ /\ slot[<<p, k>>].pc = "running" /\ ~ Overwritten(p, k)
                    /\ slot'[<<p, k>>] = [slot[<<p, k>>] EXCEPT !.pc = "handed"]
      <4> DEFINE s == <<p, k>>
      <4>1. s \in Slots /\ s[1] = p /\ s[2] = k
        BY <1>0
      <4>2. slot'[s] = IF slot[s].pc # "running" THEN Idle
                       ELSE [slot[s] EXCEPT !.pc = IF Overwritten(p, s[2]) THEN "dropped"
                                                                           ELSE "handed"]
        BY <2>3, <4>1 DEF Shutdown
      <4>3. CASE slot[s].pc # "running"
        BY <4>2, <4>3
      <4>4. CASE slot[s].pc = "running" /\ Overwritten(p, k)
        BY <4>1, <4>2, <4>4
      <4>5. CASE slot[s].pc = "running" /\ ~ Overwritten(p, k)
        BY <4>1, <4>2, <4>5
      <4> QED
        BY <4>3, <4>4, <4>5
    <3>4. ASSUME NEW k \in SlotIdx
          PROVE  slot'[<<p, k>>].pc # "notify"
      <4>1. slot[<<p, k>>] \in SlotStates
        BY <1>0
      <4>2. /\ [slot[<<p, k>>] EXCEPT !.pc = "dropped"].pc = "dropped"
            /\ [slot[<<p, k>>] EXCEPT !.pc = "handed"].pc = "handed"
        BY <1>w, <4>1
      <4> QED
        BY <1>0, <3>3, <4>2
    <3>5. ASSUME NEW k \in SlotIdx, slot'[<<p, k>>].pc \in {"handed", "pending"}
          PROVE  e[slot'[<<p, k>>].job] = k
      <4>0. slot[<<p, k>>] \in SlotStates
        BY <1>0
      <4>a. [slot[<<p, k>>] EXCEPT !.pc = "dropped"].pc = "dropped"
        BY <1>w, <4>0
      <4>1. /\ slot[<<p, k>>].pc = "running" /\ ~ Overwritten(p, k)
            /\ slot'[<<p, k>>] = [slot[<<p, k>>] EXCEPT !.pc = "handed"]
        BY <1>0, <3>3, <3>5, <4>a
      <4>2. slot'[<<p, k>>].job = slot[<<p, k>>].job /\ slot[<<p, k>>].job \in JobIds
        BY <1>0, <1>w, <4>1
      <4> DEFINE j == slot[<<p, k>>].job
      <4>3. k \in Running(p, j)
        BY <4>1 DEF Running
      <4>4. \A n \in Running(p, j) : ~ (n > k)
        BY <4>1 DEF Overwritten
      <4>5. e[j] \in Running(p, j) /\ \A n \in Running(p, j) : n <= e[j]
        BY <3>1, <4>2, <4>3 DEF HandedOff
      <4>6. e[j] \in SlotIdx /\ k \in Int /\ e[j] \in Int
        BY <4>5 DEF Running, SlotIdx
      <4> HIDE DEF j
      <4>7. e[j] = k
        BY <4>3, <4>4, <4>5, <4>6
      <4> QED
        BY <4>2, <4>7 DEF j
    <3> QED
      BY <1>d, <3>1, <3>2, <3>4, <3>5
  <2>4. CASE DrainDeadline(p)
    <3>1. \A s \in Slots :
            \/ slot'[s] = slot[s]
            \/ /\ slot[s].pc = "handed"
               /\ slot'[s].pc = "pending" /\ slot'[s].job = slot[s].job
      BY <1>0, <1>w, <2>4 DEF DrainDeadline
    <3>2. /\ in_flight' = in_flight
          /\ \A q \in Procs : proc'[q] # proc[q] => proc'[q] = "settling" /\ proc[q] = "draining"
      BY <1>0, <2>4 DEF DrainDeadline
    <3> SUFFICES ASSUME NEW q \in Procs, NEW k \in SlotIdx
                 PROVE  /\ slot'[<<q, k>>].pc \in {"handed", "pending"} =>
                             proc'[q] \notin {"up", "stopped"}
                             /\ in_flight'[q][slot'[<<q, k>>].job] = k
                        /\ slot'[<<q, k>>].pc = "notify" /\ proc'[q] # "up" =>
                             in_flight'[q][slot'[<<q, k>>].job] = k
      BY DEF DrainInv, Registers
    <3>3. <<q, k>> \in Slots
      BY <1>0
    <3> QED
      BY <3>1, <3>2, <3>3 DEF DrainInv, Registers
  <2>5. CASE DrainDone(p)
    <3>1. \A j \in JobIds : in_flight[p][j] = 0
      BY <2>5 DEF DrainDone, NothingInFlight
    <3>2. ASSUME NEW k \in SlotIdx, slot[<<p, k>>].pc \in {"handed", "pending", "notify"}
          PROVE  FALSE
      <4>1. slot[<<p, k>>].job \in JobIds
        BY <1>0, <3>2
      <4>2. proc[p] = "settling"
        BY <2>5 DEF DrainDone
      <4>3. in_flight[p][slot[<<p, k>>].job] = k
        BY <3>2, <4>2 DEF DrainInv, Registers
      <4> QED
        BY <1>0, <3>1, <4>1, <4>3
    <3>3. /\ slot' = slot /\ in_flight' = in_flight
          /\ \A q \in Procs \ {p} : proc'[q] = proc[q]
      BY <1>0, <2>5 DEF DrainDone
    <3> QED
      BY <3>2, <3>3, ZenonT(30) DEF DrainInv, Registers
  <2>6. ASSUME NEW j \in JobIds, DrainFinalize(p, j) \/ DrainAbandon(p, j)
        PROVE  DrainInv'
    <3> DEFINE i == in_flight[p][j]
    <3>1. i \in SlotIdx /\ UNCHANGED proc
      BY <1>0, <2>6 DEF DrainFinalize, DrainAbandon, Settling
    <3>2. <<p, i>> \in Slots /\ slot[<<p, i>>] \in SlotStates
      BY <1>0, <3>1
    <3>3. \/ /\ in_flight' = in_flight /\ slot[<<p, i>>].pc = "handed"
             /\ slot' = [slot EXCEPT ![<<p, i>>] =
                           [slot[<<p, i>>] EXCEPT !.pc = "notify", !.hb = FALSE]]
          \/ /\ in_flight' = [in_flight EXCEPT ![p][j] = 0]
             /\ slot' = [slot EXCEPT ![<<p, i>>] = Idle]
      BY <2>6 DEF DrainFinalize, DrainAbandon
    <3>4. in_flight[p][j] = i
      OBVIOUS
    <3> HIDE DEF i
    <3>5. CASE /\ in_flight' = in_flight /\ slot[<<p, i>>].pc = "handed"
               /\ slot' = [slot EXCEPT ![<<p, i>>] =
                             [slot[<<p, i>>] EXCEPT !.pc = "notify", !.hb = FALSE]]
      BY <1>b, <1>w, <3>1, <3>2, <3>5
    <3>6. CASE /\ in_flight' = [in_flight EXCEPT ![p][j] = 0]
               /\ slot' = [slot EXCEPT ![<<p, i>>] = Idle]
      BY <1>c, <3>1, <3>4, <3>6
    <3> QED
      BY <3>3, <3>5, <3>6
  <2> QED
    BY <1>3, <2>1, <2>2, <2>3, <2>4, <2>5, <2>6 DEF ProcNext
<1> QED
  BY <1>1, <1>2, <1>3 DEF Next

\* When worker_loop has returned, every handler that finished within the drain
\* was finalized under its claim or given up on a failed write, whatever slots
\* a process has: the only claim left to lease expiry with its outcome known is
\* that of a job on a later attempt, whose in_flight entry was overwritten.
THEOREM DrainRecords == Spec => []DrainRecordsFinished
<1>1. Init => ClaimInv /\ DrainInv
  BY DEF Init, ClaimInv, DrainInv, Idle, Slots
<1>2. TypeInv /\ ClaimInv /\ DrainInv /\ [Next]_vars => TypeInv' /\ ClaimInv' /\ DrainInv'
  BY TypeInvStep, ClaimInvStep, DrainInvStep
<1>3. ClaimInv /\ DrainInv => DrainRecordsFinished
  BY DEF ClaimInv, DrainInv, DrainRecordsFinished, Slots
<1> QED
  BY TypeInvInit, <1>1, <1>2, <1>3, PTL DEF Spec

-----------------------------------------------------------------------------
(* The runtime implements JobContract *)

\* The contract's view of a row: whether it waits or runs is hidden.
View(r) == IF r.status \in LiveStatuses THEN "open" ELSE r.status

\* What the contract sees of a row is the same before and after.
SameView(r, q) ==
    /\ View(q) = View(r) /\ q.key = r.key
    /\ q.max_attempts = r.max_attempts /\ q.attempts = r.attempts

\* A step that announces changes nothing else that the contract sees: the
\* announced job has ended in that state and was not announced before.
AnnouncesOne ==
    /\ UNCHANGED jobs
    /\ \E j \in JobIds, a \in Announcements :
         /\ Unannounced(j)
         /\ jobs[j].status = IF a = "completed" THEN "done" ELSE "failed"
         /\ webhooks' = [webhooks EXCEPT ![j][a] = @ + 1]

\* Every step either announces one job or leaves the announcements alone.
LEMMA WebhookSteps ==
    ASSUME TypeInv, AnnounceInv, [Next]_vars
    PROVE  UNCHANGED webhooks \/ AnnouncesOne
<1>1. CASE Enqueue \/ Tick \/ UNCHANGED vars
  BY <1>1 DEF Enqueue, Tick, vars
<1>2. ASSUME NEW p \in Procs, NEW i \in SlotIdx, SlotNext(p, i)
      PROVE  UNCHANGED webhooks \/ AnnouncesOne
  <2>1. CASE Notify(p, i)
    <3> DEFINE s == <<p, i>>
               a == IF slot[s].outcome = "ok" THEN "completed" ELSE "failed"
    <3>0. s \in Slots
      BY DEF Slots
    <3>1. /\ slot[s].pc = "notify" /\ UNCHANGED jobs
          /\ \/ webhooks' = [webhooks EXCEPT ![slot[s].job][a] = @ + 1]
             \/ UNCHANGED webhooks
      BY <2>1 DEF Notify
    <3>2. /\ slot[s].job \in JobIds /\ Unannounced(slot[s].job)
          /\ jobs[slot[s].job].status = StatusOf(slot[s].outcome)
      BY <3>0, <3>1 DEF AnnounceInv, TypeInv, WellFormed
    <3>3. /\ a \in Announcements
          /\ jobs[slot[s].job].status = IF a = "completed" THEN "done" ELSE "failed"
      BY <3>2 DEF Announcements, StatusOf
    <3> HIDE DEF a
    <3> QED
      BY <3>1, <3>2, <3>3 DEF AnnouncesOne
  <2> QED
    BY <1>2, <2>1 DEF SlotNext, Claim, StartHandler, HandlerReturns, Heartbeat, Finalize, FinalizeError
<1>3. ASSUME NEW p \in Procs, ProcNext(p)
      PROVE  UNCHANGED webhooks \/ AnnouncesOne
  <2>1. ASSUME NEW j \in JobIds, ReapNotify(p, j)
        PROVE  UNCHANGED webhooks \/ AnnouncesOne
    <3>1. /\ Unannounced(j) /\ jobs[j].status = "failed" /\ UNCHANGED jobs
          /\ webhooks' = [webhooks EXCEPT ![j]["failed"] = @ + 1] \/ UNCHANGED webhooks
      BY <2>1 DEF ReapNotify, AnnounceInv
    <3>2. "failed" \in Announcements
      BY DEF Announcements
    <3> QED
      BY <3>1, <3>2 DEF AnnouncesOne
  <2> QED
    BY <1>3, <2>1 DEF ProcNext, Reap, Shutdown, DrainDeadline, DrainFinalize, DrainAbandon,
                      DrainDone, Crash, Restart
<1> QED
  BY <1>1, <1>2, <1>3 DEF Next

\* Steps that change neither the view of a row nor the announcements stutter.
LEMMA ViewStutters ==
    ASSUME UNCHANGED webhooks, \A j \in JobIds : SameView(jobs[j], jobs'[j])
    PROVE  UNCHANGED Contract!cvars
BY DEF SameView, View, Contract!cvars

\* The step of an announcer is an Announce of the contract.
LEMMA AnnounceMaps ==
    ASSUME TypeInv, AnnouncesOne
    PROVE  Contract!CNext
<1>1. PICK j \in JobIds, a \in Announcements :
         /\ Unannounced(j)
         /\ jobs[j].status = IF a = "completed" THEN "done" ELSE "failed"
         /\ webhooks' = [webhooks EXCEPT ![j][a] = @ + 1]
  BY DEF AnnouncesOne
<1>2. webhooks \in [JobIds -> [Announcements -> Nat]] /\ UNCHANGED jobs
  BY DEF TypeInv, TypeOK, AnnouncesOne
<1>3. webhooks[j] = [completed |-> 0, failed |-> 0]
  BY <1>1, <1>2 DEF Unannounced, Announcements
<1>4. webhooks[j][a] = 0
  BY <1>1 DEF Unannounced, Announcements
<1>5. webhooks' = [webhooks EXCEPT ![j][a] = 1]
  BY <1>1, <1>2, <1>4
<1>6. a = IF View(jobs[j]) = "done" THEN "completed" ELSE "failed"
  BY <1>1 DEF View, LiveStatuses, Announcements
<1>7. View(jobs[j]) \in {"done", "failed"}
  BY <1>1 DEF View, LiveStatuses
<1>8. Contract!Announce(j)
  BY <1>2, <1>3, <1>5, <1>6, <1>7
     DEF View, Contract!Announce, Contract!Settled, Contract!Untold, Contract!Announcement
<1> QED
  BY <1>8 DEF Contract!CNext

\* The step of enqueue() that inserts is a Submit of the contract.
LEMMA EnqueueMaps ==
    ASSUME TypeInv, RowsInv, Enqueue
    PROVE  Contract!CNext
<1>0. jobs \in [JobIds -> Rows] /\ UNCHANGED webhooks
  BY DEF TypeInv, TypeOK, Enqueue
<1>1. PICK kind \in Kinds, key \in Keys \cup {NoKey}, priority \in Priorities,
           b \in Budgets, d \in Delays : EnqueueRow(kind, key, priority, b, d)
  BY DEF Enqueue
<1>2. PICK n \in JobIds : /\ jobs[n].status = "absent"
                          /\ jobs' = [jobs EXCEPT ![n] = Inserted(kind, key, priority, b, d)]
  BY <1>1 DEF EnqueueRow
<1>3. /\ jobs'[n].key = key /\ jobs'[n].max_attempts = b /\ jobs'[n].attempts = 0
      /\ jobs'[n].status = "queued"
  BY <1>0, <1>2, InsertedRow
<1>4. \A i \in JobIds \ {n} : jobs'[i] = jobs[i]
  BY <1>0, <1>2
<1>5. jobs[n].attempts = 0
  BY <1>2 DEF RowsInv, RowOK
<1>6. key # NoKey => \A i \in JobIds : ~ (View(jobs[i]) = "open" /\ jobs[i].key = key)
  <2>1. \A i \in JobIds : jobs[i].status \in Statuses
    BY <1>0 DEF Rows
  <2> QED
    BY <1>1, <2>1 DEF EnqueueRow, Blocks, View, Statuses, LiveStatuses
<1>7. /\ [j \in JobIds |-> View(jobs'[j])] = [[j \in JobIds |-> View(jobs[j])] EXCEPT ![n] = "open"]
      /\ [j \in JobIds |-> jobs'[j].key] = [[j \in JobIds |-> jobs[j].key] EXCEPT ![n] = key]
      /\ [j \in JobIds |-> jobs'[j].max_attempts] = [[j \in JobIds |-> jobs[j].max_attempts] EXCEPT ![n] = b]
      /\ [j \in JobIds |-> jobs'[j].attempts] = [j \in JobIds |-> jobs[j].attempts]
  BY <1>3, <1>4, <1>5 DEF View, LiveStatuses
<1>8. View(jobs[n]) = "absent"
  BY <1>2 DEF View, LiveStatuses
<1>9. Contract!Submit(n)
  <2> DEFINE st == [j \in JobIds |-> View(jobs[j])]
             ks == [j \in JobIds |-> jobs[j].key]
             bs == [j \in JobIds |-> jobs[j].max_attempts]
  <2>1. st[n] = "absent"
    BY <1>8
  <2>2. key # NoKey => \A i \in JobIds : ~ (st[i] = "open" /\ ks[i] = key)
    BY <1>6
  <2>3. \E k \in Keys \cup {NoKey}, c \in Budgets :
          /\ k # NoKey => \A i \in JobIds : ~ (st[i] = "open" /\ ks[i] = k)
          /\ ks' = [ks EXCEPT ![n] = k]
          /\ bs' = [bs EXCEPT ![n] = c]
    <3>1. ks' = [ks EXCEPT ![n] = key] /\ bs' = [bs EXCEPT ![n] = b]
      BY <1>7
    <3> HIDE DEF st, ks, bs
    <3> QED
      BY <2>2, <3>1
  <2>4. st' = [st EXCEPT ![n] = "open"]
    BY <1>7
  <2> QED
    BY <1>0, <1>7, <2>1, <2>3, <2>4 DEF View, Contract!Submit
<1> QED
  BY <1>9 DEF Contract!CNext

\* A claim of claim_next() is an Attempt of the contract.
LEMMA ClaimMaps ==
    ASSUME TypeInv, RowsInv, UNCHANGED webhooks,
           NEW j \in JobIds, NEW kinds, NEW l \in Int, ClaimRow(j, kinds, l)
    PROVE  Contract!CNext
<1>0. jobs \in [JobIds -> Rows] /\ jobs[j] \in Rows
  BY DEF TypeInv, TypeOK
<1>1. /\ jobs' = [jobs EXCEPT ![j] = Claimed(jobs[j], l)]
      /\ jobs[j].status = "queued" \/ Reclaimable(jobs[j])
  BY DEF ClaimRow, Selected, Eligible
<1>2. /\ jobs'[j].status = "running" /\ jobs'[j].key = jobs[j].key
      /\ jobs'[j].attempts = jobs[j].attempts + 1 /\ jobs'[j].max_attempts = jobs[j].max_attempts
  BY <1>0, <1>1, ClaimedRow
<1>3. View(jobs[j]) = "open" /\ jobs[j].attempts < jobs[j].max_attempts
  BY <1>1 DEF View, LiveStatuses, Reclaimable, Expired, RowsInv, RowOK
<1>4. \A i \in JobIds \ {j} : jobs'[i] = jobs[i]
  BY <1>0, <1>1
<1>5. /\ [i \in JobIds |-> View(jobs'[i])] = [i \in JobIds |-> View(jobs[i])]
      /\ [i \in JobIds |-> jobs'[i].key] = [i \in JobIds |-> jobs[i].key]
      /\ [i \in JobIds |-> jobs'[i].max_attempts] = [i \in JobIds |-> jobs[i].max_attempts]
      /\ [i \in JobIds |-> jobs'[i].attempts]
           = [[i \in JobIds |-> jobs[i].attempts] EXCEPT ![j] = jobs[j].attempts + 1]
  BY <1>2, <1>3, <1>4 DEF View, LiveStatuses
<1>6. Contract!Attempt(j)
  BY <1>3, <1>5 DEF View, Contract!Attempt
<1> QED
  BY <1>6 DEF Contract!CNext

\* Rows that are ended together, all in the same state, are settled.
LEMMA EndingMaps ==
    ASSUME TypeInv, RowsInv, UNCHANGED webhooks,
           NEW S \in SUBSET JobIds, NEW o \in TerminalStatuses,
           \A i \in S : /\ jobs[i].status = "running" /\ jobs'[i].status = o
                        /\ jobs'[i].key = jobs[i].key /\ jobs'[i].attempts = jobs[i].attempts
                        /\ jobs'[i].max_attempts = jobs[i].max_attempts,
           \A i \in JobIds \ S : jobs'[i] = jobs[i]
    PROVE  Contract!CNext
<1>1. \A i \in S : View(jobs[i]) = "open" /\ jobs[i].attempts > 0 /\ View(jobs'[i]) = o
  BY DEF View, LiveStatuses, TerminalStatuses, RowsInv, RowOK
<1>2. /\ [i \in JobIds |-> View(jobs'[i])] = [i \in JobIds |-> IF i \in S THEN o ELSE View(jobs[i])]
      /\ [i \in JobIds |-> jobs'[i].key] = [i \in JobIds |-> jobs[i].key]
      /\ [i \in JobIds |-> jobs'[i].max_attempts] = [i \in JobIds |-> jobs[i].max_attempts]
      /\ [i \in JobIds |-> jobs'[i].attempts] = [i \in JobIds |-> jobs[i].attempts]
  BY <1>1
<1>3. Contract!Settle(S, o)
  <2>1. \A i \in S : /\ [k \in JobIds |-> View(jobs[k])][i] = "open"
                     /\ [k \in JobIds |-> jobs[k].attempts][i] > 0
    BY <1>1
  <2>2. [i \in JobIds |-> IF i \in S THEN o ELSE View(jobs[i])]
          = [i \in JobIds |-> IF i \in S THEN o ELSE [k \in JobIds |-> View(jobs[k])][i]]
    OBVIOUS
  <2> QED
    BY <1>2, <2>1, <2>2 DEF View, Contract!Settle
<1>4. o \in Contract!Settled
  BY DEF TerminalStatuses, Contract!Settled
<1> QED
  BY <1>3, <1>4 DEF Contract!CNext

\* A complete() or fail() settles its job, or is invisible: it lost the claim,
\* or it requeues.
LEMMA FinalizeMaps ==
    ASSUME TypeInv, RowsInv, UNCHANGED webhooks, NEW s \in Slots, FinalizedBy(s)
    PROVE  Contract!CNext \/ UNCHANGED Contract!cvars
<1> DEFINE j == slot[s].job
<1>0. j \in JobIds /\ jobs \in [JobIds -> Rows] /\ jobs[j] \in Rows /\ slot[s].token \in Nat
  BY DEF TypeInv, TypeOK, FinalizedBy
<1>1. CASE UNCHANGED jobs
  BY <1>1, ViewStutters DEF SameView
<1>2. CASE jobs[j].status = "running" /\ jobs' = [jobs EXCEPT ![j] = Completed(jobs[j], slot[s].token)]
  <2>1. /\ jobs'[j].status = "done" /\ jobs'[j].key = jobs[j].key
        /\ jobs'[j].attempts = jobs[j].attempts /\ jobs'[j].max_attempts = jobs[j].max_attempts
    BY <1>0, <1>2, CompletedRow
  <2>2. {j} \in SUBSET JobIds /\ \A i \in JobIds \ {j} : jobs'[i] = jobs[i]
    BY <1>0, <1>2
  <2>3. "done" \in TerminalStatuses
    BY DEF TerminalStatuses
  <2>4. \A i \in {j} : /\ jobs[i].status = "running" /\ jobs'[i].status = "done"
                       /\ jobs'[i].key = jobs[i].key /\ jobs'[i].attempts = jobs[i].attempts
                       /\ jobs'[i].max_attempts = jobs[i].max_attempts
    BY <1>2, <2>1
  <2> HIDE DEF j
  <2> QED
    BY <2>2, <2>3, <2>4, EndingMaps
<1>3. CASE jobs[j].status = "running" /\ jobs' = [jobs EXCEPT ![j] = Failed(jobs[j])]
  <2>1. /\ jobs'[j].status = "failed" /\ jobs'[j].key = jobs[j].key
        /\ jobs'[j].attempts = jobs[j].attempts /\ jobs'[j].max_attempts = jobs[j].max_attempts
    BY <1>0, <1>3, FailedRow
  <2>2. {j} \in SUBSET JobIds /\ \A i \in JobIds \ {j} : jobs'[i] = jobs[i]
    BY <1>0, <1>3
  <2>3. "failed" \in TerminalStatuses
    BY DEF TerminalStatuses
  <2>4. \A i \in {j} : /\ jobs[i].status = "running" /\ jobs'[i].status = "failed"
                       /\ jobs'[i].key = jobs[i].key /\ jobs'[i].attempts = jobs[i].attempts
                       /\ jobs'[i].max_attempts = jobs[i].max_attempts
    BY <1>3, <2>1
  <2> HIDE DEF j
  <2> QED
    BY <2>2, <2>3, <2>4, EndingMaps
<1>4. ASSUME NEW n \in Nat, jobs[j].status = "running", jobs' = [jobs EXCEPT ![j] = Requeued(jobs[j], n)]
      PROVE  UNCHANGED Contract!cvars
  <2>1. /\ jobs'[j].status = "queued" /\ jobs'[j].key = jobs[j].key
        /\ jobs'[j].attempts = jobs[j].attempts /\ jobs'[j].max_attempts = jobs[j].max_attempts
    BY <1>0, <1>4, RequeuedRow
  <2>2. \A i \in JobIds : SameView(jobs[i], jobs'[i])
    BY <1>0, <1>4, <2>1 DEF SameView, View, LiveStatuses
  <2> QED
    BY <2>2, ViewStutters
<1> QED
  BY <1>1, <1>2, <1>3, <1>4, FinalizedRow DEF HoldsClaim

\* Every step of the runtime is a step of the contract or invisible to it.
LEMMA StepMaps ==
    ASSUME TypeInv, RowsInv, AnnounceInv, [Next]_vars
    PROVE  Contract!CNext \/ UNCHANGED Contract!cvars
<1>0. jobs \in [JobIds -> Rows]
  BY DEF TypeInv, TypeOK
<1>1. CASE AnnouncesOne
  BY <1>1, AnnounceMaps
<1>2. CASE UNCHANGED webhooks
  <2>1. CASE UNCHANGED jobs
    BY <1>2, <2>1, ViewStutters DEF SameView
  <2>2. CASE Enqueue
    BY <2>2, EnqueueMaps
  <2>3. CASE Elapse
    <3>1. \A i \in JobIds : SameView(jobs[i], jobs'[i])
      BY <1>0, <2>3 DEF Elapse, Aged, SameView, View, Rows
    <3> QED
      BY <1>2, <3>1, ViewStutters
  <2>4. ASSUME NEW j \in JobIds, NEW kinds \in SUBSET Kinds, NEW l \in Int, ClaimRow(j, kinds, l)
        PROVE  Contract!CNext
    BY <1>2, <2>4, ClaimMaps
  <2>5. ASSUME NEW j \in JobIds, NEW t \in Nat, NEW l \in Int, HoldsClaim(j, t), HeartbeatRow(j, l)
        PROVE  UNCHANGED Contract!cvars
    <3>1. \A i \in JobIds : SameView(jobs[i], jobs'[i])
      BY <1>0, <2>5 DEF HeartbeatRow, SameView, View, Rows
    <3> QED
      BY <1>2, <3>1, ViewStutters
  <2>6. ASSUME NEW s \in Slots, FinalizedBy(s)
        PROVE  Contract!CNext \/ UNCHANGED Contract!cvars
    BY <1>2, <2>6, FinalizeMaps
  <2>7. CASE ReapRows
    <3>1. \A i \in ExhaustedJobs :
            /\ jobs[i].status = "running" /\ jobs'[i].status = "failed"
            /\ jobs'[i].key = jobs[i].key /\ jobs'[i].attempts = jobs[i].attempts
            /\ jobs'[i].max_attempts = jobs[i].max_attempts
      BY <1>0, <2>7, FailedRow DEF ReapRows, ExhaustedJobs, Exhausted, Expired
    <3>2. \A i \in JobIds \ ExhaustedJobs : jobs'[i] = jobs[i]
      BY <2>7 DEF ReapRows, ExhaustedJobs
    <3>3. ExhaustedJobs \in SUBSET JobIds /\ "failed" \in TerminalStatuses
      BY DEF ExhaustedJobs, TerminalStatuses
    <3> QED
      BY <1>2, <3>1, <3>2, <3>3, EndingMaps
  <2> QED
    BY <2>1, <2>2, <2>3, <2>4, <2>5, <2>6, <2>7, StepOperation DEF Operation
<1> QED
  BY <1>1, <1>2, WebhookSteps

\* The job queue with its workers, reapers, crashes, shutdowns and lost leases
\* implements JobContract: a job is attempted within its budget, settled once
\* and announced at most once and as it was settled, and open jobs have
\* distinct keys.
THEOREM RuntimeImplementsContract == Spec => ImplementsContract
<1>1. Init => Contract!CInit
  <2> SUFFICES ASSUME Init PROVE Contract!CInit
    OBVIOUS
  <2>1. \A j \in JobIds : /\ jobs[j].status = "absent" /\ jobs[j].key = NoKey
                          /\ jobs[j].max_attempts = 0 /\ jobs[j].attempts = 0
    BY DEF Init, JobsInit, NoRow
  <2>2. webhooks = [j \in JobIds |-> [completed |-> 0, failed |-> 0]]
    BY DEF Init
  <2> QED
    BY <2>1, <2>2 DEF LiveStatuses, Contract!CInit, Contract!Untold
<1>2. Init => AnnounceInv
  BY DEF Init, Idle, AnnounceInv, AnnouncedOnce
<1>3. TypeInv /\ RowsInv /\ AnnounceInv /\ [Next]_vars => TypeInv' /\ RowsInv' /\ AnnounceInv'
  BY TypeInvStep, RowsInvHolds, AnnounceInvStep
<1>4. TypeInv /\ RowsInv /\ AnnounceInv /\ [Next]_vars => [Contract!CNext]_(Contract!cvars)
  BY StepMaps
<1> QED
  BY TypeInvInit, RowsInvHolds, <1>1, <1>2, <1>3, <1>4, PTL DEF Spec, ImplementsContract, Contract!CSpec

=============================================================================
