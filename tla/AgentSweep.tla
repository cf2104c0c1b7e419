----------------------------- MODULE AgentSweep ------------------------------
(***************************************************************************)
(* Scheduled agents.  The scheduler sidecar (services/scheduler/__main__.py) *)
(* is a clock: when its own schedule says so, a thread of it calls           *)
(* POST /api/v1/agents/run-due.  The API (app/api/agent_schedules.py) then   *)
(* sweeps the agent_schedules rows, claims those that are due and enqueues a *)
(* job for each.  A call that times out leaves its sweep running, and the    *)
(* sidecar may be stopped, killed and restarted, so sweeps overlap; only the *)
(* claim, a compare-and-set on last_run_at, orders them.                    *)
(*                                                                         *)
(* Two sweeps interleave when two replicas of the API serve the calls.  A    *)
(* row keeps its schedule, stays enabled and its agent exists: deleting the  *)
(* agent deletes its rows.                                                 *)
(*                                                                         *)
(* One of the sidecar's jobs is modelled: the others share with it only the  *)
(* file of last runs, which is always written whole and under a lock.       *)
(***************************************************************************)
EXTENDS Schedule, Sequences, FiniteSets

CONSTANTS
    Rows,           \* agent_schedules rows
    Schedules,      \* the schedules they may have
    Cadence,        \* the sidecar's schedule for the sweep
    Passes,         \* sweeps that may run at once on the API
    Horizon,        \* bound: the last instant
    MaxFaults       \* bound: timeouts, stops, kills, crashes and failed writes

Instants == 0 .. Horizon
Times == Instants \cup {Never}

ASSUME SweepAssumption ==
    /\ Horizon \in Nat /\ MaxFaults \in Nat
    /\ Cadence.kind = "every" /\ IsValid(Cadence)
    /\ \A s \in Schedules : IsValid(s)

VARIABLES
    clock,
    loop,           \* the sidecar's main loop: pc and now_iso
    thread,         \* _run_job in the executor: pc, now_iso, the sweep it called
    last_run,       \* last_run of the job, in memory
    disk,           \* ... and in scheduler_last_run.json
    pass,           \* Passes -> a run of run_due_agent_schedules
    row,            \* Rows -> [schedule, last_run_at, last_job_id]
    jobs,           \* Rows -> the jobs enqueued for it, [status, minute]
    fired,          \* Rows -> how many claims covered each instant (history)
    launched,       \* now_iso of the thread started last (history)
    faults,         \* how many faults there were
    gap             \* what happened that a promise does not cover (history)

scVars == <<loop, thread, last_run, disk>>
dbVars == <<row, jobs, fired>>
history == <<launched, faults, gap>>
vars == <<clock, scVars, pass, dbVars, history>>

NoPass == [pc |-> "idle", now |-> 0, listed |-> [r \in Rows |-> Never], todo |-> {}, row |-> Never,
           prev |-> 0, job |-> 0]
NoThread == [pc |-> "none", stamp |-> 0, pass |-> Never]

Init ==
    /\ clock = 0
    /\ loop = [pc |-> "down", now |-> 0, seen |-> Never] /\ thread = NoThread
    /\ last_run = Never /\ disk = Never
    /\ pass = [p \in Passes |-> NoPass]
    /\ row \in [Rows -> [schedule: Schedules, last_run_at: {Never}, last_job_id: {0}]]
    /\ jobs = [r \in Rows |-> <<>>]
    /\ fired = [r \in Rows |-> [o \in Instants |-> 0]]
    /\ launched = Never /\ faults = 0 /\ gap = {}

\* "loose": a sweep was left to itself, or died; "unsaved": the last run is not
\* in the file; "raced": last_run changed between is_table_due and in_flight;
\* "unrecorded": a job is in the table that no last_job_id names.
Gaps == {"loose", "unsaved", "raced", "unrecorded"}

Fault(gaps) ==
    /\ faults < MaxFaults /\ faults' = faults + 1
    /\ gap' = gap \cup gaps
    /\ UNCHANGED launched

\* The loop's look at the jobs and a thread's bookkeeping take no time.
Tick ==
    /\ loop.pc # "due" /\ thread.pc \notin {"call", "stamp", "persist", "release"}
    /\ clock < Horizon /\ clock' = clock + 1
    /\ UNCHANGED <<scVars, pass, dbVars, history>>

-----------------------------------------------------------------------------
(* The sidecar *)

Asleep == [pc |-> "sleep", now |-> 0, seen |-> Never]
Down == [Asleep EXCEPT !.pc = "down"]

\* Bug: the last runs are kept in memory only.
StartEmpty ==
    /\ loop.pc = "down"
    /\ loop' = Asleep /\ last_run' = Never
    /\ UNCHANGED <<clock, thread, disk, pass, dbVars, history>>

\* run(): after the startup grace the last runs are read from the file.
Start ==
    /\ loop.pc = "down"
    /\ loop' = Asleep /\ last_run' = disk
    /\ UNCHANGED <<clock, thread, disk, pass, dbVars, history>>

\* The loop wakes up and takes now_iso; is_table_due looks at a last_run that a
\* thread may be about to write.
Wake ==
    /\ loop.pc = "sleep" /\ IsDue(Cadence, last_run, clock)
    /\ loop' = [pc |-> "due", now |-> clock, seen |-> last_run]
    /\ UNCHANGED <<clock, thread, last_run, disk, pass, dbVars, history>>

Launched ==
    /\ thread' = [NoThread EXCEPT !.pc = "call", !.stamp = loop.now]
    /\ launched' = loop.now
    /\ gap' = IF loop.seen = last_run THEN gap ELSE gap \cup {"raced"}

\* Bug: in_flight is not looked at.
SubmitAnyway ==
    /\ loop.pc = "due"
    /\ Launched
    /\ loop' = Asleep
    /\ UNCHANGED <<clock, last_run, disk, pass, dbVars, faults>>

\* Unless the job is in flight, a thread is started for it.
Submit ==
    /\ loop.pc = "due"
    /\ IF thread.pc = "none" THEN Launched ELSE UNCHANGED <<thread, launched, gap>>
    /\ loop' = Asleep
    /\ UNCHANGED <<clock, last_run, disk, pass, dbVars, faults>>

\* _call_api: the request arrives, and the sweep takes its own now.
Send(p) ==
    /\ thread.pc = "call" /\ pass[p].pc = "idle"
    /\ thread' = [thread EXCEPT !.pc = "wait", !.pass = p]
    /\ pass' = [pass EXCEPT ![p] = [NoPass EXCEPT !.pc = "list", !.now = clock]]
    /\ UNCHANGED <<clock, loop, last_run, disk, dbVars, history>>

\* The answer: success and failure are treated alike.
Return ==
    /\ thread.pc = "wait" /\ pass[thread.pass].pc = "idle"
    /\ thread' = [thread EXCEPT !.pc = "stamp", !.pass = Never]
    /\ UNCHANGED <<clock, loop, last_run, disk, pass, dbVars, history>>

\* The API cannot be reached.
CallFails ==
    /\ thread.pc = "call"
    /\ Fault({})
    /\ thread' = [thread EXCEPT !.pc = "stamp"]
    /\ UNCHANGED <<clock, loop, last_run, disk, pass, dbVars>>

\* The call gives up; the handler does not notice.
TimeOut ==
    /\ thread.pc = "wait" /\ pass[thread.pass].pc # "idle"
    /\ Fault({"loose"})
    /\ thread' = [thread EXCEPT !.pc = "stamp", !.pass = Never]
    /\ UNCHANGED <<clock, loop, last_run, disk, pass, dbVars>>

\* _run_job's finally: last_run, ...
Stamp ==
    /\ thread.pc = "stamp"
    /\ last_run' = thread.stamp
    /\ thread' = [thread EXCEPT !.pc = "persist"]
    /\ UNCHANGED <<clock, loop, disk, pass, dbVars, history>>

\* ... the file, ...
Persist ==
    /\ thread.pc = "persist"
    /\ disk' = last_run
    /\ thread' = [thread EXCEPT !.pc = "release"]
    /\ UNCHANGED <<clock, loop, last_run, pass, dbVars, history>>

\* ... or only a warning, ...
PersistFails ==
    /\ thread.pc = "persist"
    /\ Fault({"unsaved"})
    /\ thread' = [thread EXCEPT !.pc = "release"]
    /\ UNCHANGED <<clock, loop, last_run, disk, pass, dbVars>>

\* ... and in_flight.
Release ==
    /\ thread.pc = "release"
    /\ thread' = NoThread
    /\ UNCHANGED <<clock, loop, last_run, disk, pass, dbVars, history>>

\* SIGTERM: the loop ends and waits for the thread.
Stop ==
    /\ loop.pc = "sleep"
    /\ Fault({})
    /\ loop' = [loop EXCEPT !.pc = "stopping"]
    /\ UNCHANGED <<clock, thread, last_run, disk, pass, dbVars>>

Stopped ==
    /\ loop.pc = "stopping" /\ thread.pc = "none"
    /\ loop' = Down /\ last_run' = Never
    /\ UNCHANGED <<clock, thread, disk, pass, dbVars, history>>

\* SIGKILL, at any point.
Kill ==
    /\ loop.pc # "down"
    /\ Fault({g \in {"loose", "unsaved"} :
                 \/ g = "loose" /\ thread.pc = "wait" /\ pass[thread.pass].pc # "idle"
                 \/ g = "unsaved" /\ thread.pc \in {"call", "wait", "stamp", "persist"}})
    /\ loop' = Down /\ thread' = NoThread /\ last_run' = Never
    /\ UNCHANGED <<clock, disk, pass, dbVars>>

-----------------------------------------------------------------------------
(* run_due_agent_schedules *)

\* list_enabled
List(p) ==
    /\ pass[p].pc = "list"
    /\ pass' = [pass EXCEPT ![p] = [@ EXCEPT !.pc = "next", !.todo = Rows,
                                             !.listed = row]]
    /\ UNCHANGED <<clock, scVars, dbVars, history>>

\* The rows are done.
EndPass(p) ==
    /\ pass[p].pc = "next" /\ pass[p].todo = {}
    /\ pass' = [pass EXCEPT ![p] = NoPass]
    /\ UNCHANGED <<clock, scVars, dbVars, history>>

\* On to the next row.
Onward(rec) == [rec EXCEPT !.pc = "next", !.row = Never, !.prev = 0, !.job = 0, !.listed[rec.row] = Never]

\* _dispatch_if_due on the row as it was listed: due, and is the previous job
\* still queued?
Evaluate(p, r) ==
    LET q == pass[p]
        seen == q.listed[r]
        queued == seen.last_job_id # 0 /\ jobs[r][seen.last_job_id].status = "queued"
    IN
    /\ q.pc = "next" /\ r \in q.todo
    /\ pass' = [pass EXCEPT ![p] =
           IF IsDue(seen.schedule, seen.last_run_at, q.now)
           THEN [q EXCEPT !.todo = q.todo \ {r}, !.pc = "claim", !.row = r,
                          !.prev = IF queued THEN seen.last_job_id ELSE 0]
           ELSE [q EXCEPT !.todo = q.todo \ {r}, !.listed[r] = Never]]
    /\ UNCHANGED <<clock, scVars, dbVars, history>>

\* The sweep fires for what its window (listed last run, now] holds.
Fires(p, r) ==
    LET from == pass[p].listed[r].last_run_at IN
    fired' = [fired EXCEPT ![r] = [o \in Instants |->
                 IF (from = Never \/ from < o) /\ o <= pass[p].now THEN @[o] + 1 ELSE @[o]]]

Claimed(p, r) ==
    /\ row' = [row EXCEPT ![r].last_run_at = pass[p].now]
    /\ Fires(p, r)
    /\ pass' = [pass EXCEPT ![p].pc = IF pass[p].prev = 0 THEN "enqueue" ELSE "record", ![p].job = pass[p].prev,
                            ![p].listed[r] = Never]

\* Bug: the claim is made whatever last_run_at is.
ClaimAnyway(p) ==
    /\ pass[p].pc = "claim"
    /\ Claimed(p, pass[p].row)
    /\ UNCHANGED <<clock, scVars, jobs, history>>

\* claim_for_run: last_run_at is still what was listed.  A backlogged row goes
\* straight to the record.
Claim(p) ==
    LET r == pass[p].row IN
    /\ pass[p].pc = "claim"
    /\ IF row[r].last_run_at = pass[p].listed[r].last_run_at THEN Claimed(p, r)
       ELSE /\ pass' = [pass EXCEPT ![p] = Onward(@)]
            /\ UNCHANGED <<row, fired>>
    /\ UNCHANGED <<clock, scVars, jobs, history>>

\* The live job with the key of this minute, if there is one.
Keyed(r, m) == {i \in DOMAIN jobs[r] : jobs[r][i].minute = m /\ jobs[r][i].status \in {"queued", "running"}}

Inserted(r, m) == jobs' = [jobs EXCEPT ![r] = Append(@, [status |-> "queued", minute |-> m])]

\* jobs_repo().enqueue, idempotent within the minute of the sweep.
Enqueue(p) ==
    LET r == pass[p].row
        m == pass[p].now \div Minute
    IN
    /\ pass[p].pc = "enqueue"
    /\ IF Keyed(r, m) # {}
       THEN /\ pass' = [pass EXCEPT ![p].pc = "record", ![p].job = Max(Keyed(r, m))]
            /\ UNCHANGED jobs
       ELSE /\ Inserted(r, m)
            /\ pass' = [pass EXCEPT ![p].pc = "record", ![p].job = Len(jobs[r]) + 1]
    /\ UNCHANGED <<clock, scVars, row, fired, history>>

\* The owner is gone, or the enqueue raises, before its insert or after it:
\* failed_enqueue, without a job id.
EnqueueFails(p) ==
    LET r == pass[p].row
        m == pass[p].now \div Minute
    IN
    /\ pass[p].pc = "enqueue"
    /\ \/ Fault({}) /\ UNCHANGED jobs
       \/ Keyed(r, m) = {} /\ Fault({"unrecorded"}) /\ Inserted(r, m)
    /\ pass' = [pass EXCEPT ![p].pc = "record", ![p].job = 0]
    /\ UNCHANGED <<clock, scVars, row, fired>>

\* _dispatch_if_due raises, before the claim, after it, or in
\* record_dispatch_result: the sweep logs it and goes on with the next row.
RowFails(p) ==
    LET q == pass[p] IN
    /\ q.pc \in {"claim", "enqueue", "record"}
    /\ IF q.pc = "record" /\ q.job \notin {0, row[q.row].last_job_id}
       THEN Fault({"unrecorded"}) ELSE Fault({})
    /\ pass' = [pass EXCEPT ![p] = Onward(@)]
    /\ UNCHANGED <<clock, scVars, dbVars>>

\* record_dispatch_result
Record(p) ==
    /\ pass[p].pc = "record"
    /\ row' = [row EXCEPT ![pass[p].row].last_job_id = pass[p].job]
    /\ pass' = [pass EXCEPT ![p] = Onward(@)]
    /\ UNCHANGED <<clock, scVars, jobs, fired, history>>

\* The API process dies in the middle of a sweep.
Crash(p) ==
    /\ pass[p].pc # "idle"
    /\ Fault({"loose"})
    /\ pass' = [pass EXCEPT ![p] = NoPass]
    /\ UNCHANGED <<clock, scVars, dbVars>>

\* A worker claims a job, or finishes it.
JobMoves(r) ==
    \E i \in DOMAIN jobs[r] :
        /\ \/ /\ jobs[r][i].status = "queued"
              /\ jobs' = [jobs EXCEPT ![r][i].status = "running"]
           \/ /\ jobs[r][i].status = "running"
              /\ jobs' = [jobs EXCEPT ![r][i] = [status |-> "ended", minute |-> 0]]
        /\ UNCHANGED <<clock, scVars, pass, row, fired, history>>

-----------------------------------------------------------------------------

SidecarNext == Start \/ Wake \/ Submit \/ (\E p \in Passes : Send(p)) \/ Return \/ CallFails
               \/ TimeOut \/ Stamp \/ Persist \/ PersistFails \/ Release \/ Stop \/ Stopped \/ Kill

SweepNext(p) == List(p) \/ EndPass(p) \/ (\E r \in Rows : Evaluate(p, r)) \/ Claim(p) \/ Enqueue(p)
                \/ EnqueueFails(p) \/ RowFails(p) \/ Record(p) \/ Crash(p)

Next == Tick \/ SidecarNext \/ (\E p \in Passes : SweepNext(p)) \/ (\E r \in Rows : JobMoves(r))

Spec == Init /\ [][Next]_vars

-----------------------------------------------------------------------------
(* Properties *)

\* The variables keep their types.
TypeOK ==
    /\ clock \in Instants
    /\ loop \in [pc: {"down", "sleep", "due", "stopping"}, now: Instants, seen: Times]
    /\ thread \in [pc: {"none", "call", "wait", "stamp", "persist", "release"}, stamp: Instants,
                   pass: Passes \cup {Never}]
    /\ last_run \in Times /\ disk \in Times /\ launched \in Times
    /\ faults \in 0 .. MaxFaults /\ gap \subseteq Gaps
    /\ \A r \in Rows : /\ row[r].schedule \in Schedules /\ row[r].last_run_at \in Times
                       /\ row[r].last_job_id \in 0 .. Len(jobs[r])

\* No fire time of a schedule is claimed by two sweeps, however many overlap
\* after timeouts and restarts: the agent runs at most once for it.
OncePerOccurrence == \A r \in Rows : \A o \in Instants : fired[r][o] <= 1

\* "The pile-up is bounded to ONE queued job per schedule"
\* (_dispatch_if_due, app/api/agent_schedules.py).
OneQueuedPerSchedule ==
    \A r \in Rows : Cardinality({i \in DOMAIN jobs[r] : jobs[r][i].status = "queued"}) <= 1

\* As long as every sweep is waited for and none dies, sweeps do not overlap;
\* and the backlog guard keeps its promise as long as, besides, every job that
\* was enqueued is recorded: one whose record_dispatch_result raised is not.
OneAtATime ==
    /\ "loose" \in gap \/ Cardinality({p \in Passes : pass[p].pc # "idle"}) <= 1
    /\ gap \cap {"loose", "unrecorded"} # {} \/ OneQueuedPerSchedule

\* A cron schedule is due exactly when a fire time lies in (last, now], for
\* every last run and instant the sweeps meet.
CronCatchesUp ==
    \A r \in Rows : LET s == row[r].schedule IN
        s.kind = "cron" /\ row[r].last_run_at # Never =>
            (IsDue(s, row[r].last_run_at, clock) <=> Missed(s, row[r].last_run_at, clock))

\* "a missed occurrence fires on the next tick after it passed"
\* (src/scheduler.py, of the daily schedules' catch-up contract).
DailyCatchesUp ==
    \A r \in Rows : LET s == row[r].schedule IN
        s.kind = "daily" /\ row[r].last_run_at # Never =>
            (Missed(s, row[r].last_run_at, clock) => IsDue(s, row[r].last_run_at, clock))

\* The sweep is called no sooner than its cadence allows after the last call,
\* across restarts of the sidecar too, unless the last run was never saved or was
\* written between is_table_due and the look at in_flight.
CadenceKept ==
    [][\/ launched' = launched \/ launched = Never \/ gap' \cap {"unsaved", "raced"} # {}
       \/ clock >= launched + Cadence.n]_vars
=============================================================================
