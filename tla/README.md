# TLA+ specification of Agnes: jobs, leases, chat sessions, migrations, schedules

Agnes is a Python service (FastAPI, DuckDB or Postgres, optional Redis) that runs
data syncs and AI agents for an organisation. This directory models the parts of
it that run concurrently and fail independently, checks them with TLC on small
instances, and proves the most important invariants with TLAPS for every instance.

Paths below are relative to the repository; `src/repositories/jobs.py` and the
other `src/...` files are in the repository's own `src/` package.

## 1. Inventory

| Component | State | Operations | Hard behaviours |
|---|---|---|---|
| Job queue (`src/repositories/jobs.py`, `jobs_pg.py`) | the `jobs` table | `enqueue`, `claim_next`, `heartbeat`, `complete`, `fail`, `reap_exhausted` | leases that expire under a live handler, retries, deduplication |
| Worker runtime (`app/worker/runtime.py`, `registry.py`, `kinds.py`) | lane slots, handler threads, `in_flight` | claim loop, heartbeat loop, finalize and notify, reaper, shutdown and drain | crash between two steps, shutdown with running threads, notification exactly once |
| Leader leases (`app/coordination/leases.py`) | `held`, `unavailable_since` per replica; one backend entry | `run_with_lease` | outages, lost backend state, cancellation with a call in flight |
| Coordination backend (`app/coordination/`) | leases, counters, streams, key/values, pub/sub | memory and Redis implementations | unavailability, FLUSHALL, expiry |
| Chat frames (`app/chat/frame_seq.py`, `replay.py`, part of `manager.py`, `app/api/chat.py`, `static/js/chat.js`) | seq counter, replay stream, turn buffer, gate, page | `_broadcast`, pump, `attach`, `replay_since`, gate release, client dedup | reconnect in the middle of a broadcast, eviction, counter restart |
| Session routing and inbound stream (`app/chat/routing.py`, `inbound.py`, part of `manager.py`) | per-session lease, inbound stream, cursor | attach, takeover, claim, renew, release, publish, consume | two gateways serving one session, messages skipped or fed twice at takeover |
| Session lifecycle (`app/chat/manager.py`, `persistence.py`, providers) | `_live`, LiveSession objects, sandbox columns, sandboxes | attach, spawn, pause, resume, crash respawn, kill, paused sweep | coroutines beside the session lock, failures of the provider, restart |
| Idempotency keys (`src/repositories/idempotency.py`, `app/api/agent_runtime.py`) | one row per key | get, reserve, fulfill, replay, purge | lookup and reservation apart, expiry, crash with a reservation |
| Database backend migration (`src/db_state_machine.py`, `app/api/db_state.py`, `scripts/db_state_migrator.py`, `scripts/ops/agnes-state-applier.sh`) | overlay, job JSON, cancel sentinel, lifecycle flag, containers, stores | start, cancel, copy, verify, flip, roll back, recover | three programs on shared files, kills, reboots, cancel racing the flip |
| Scheduler and agent schedules (`services/scheduler`, `src/scheduler.py`, `app/api/agent_schedules.py`, `src/repositories/agent_schedules.py`) | `last_run` in memory and on disk, `in_flight`, schedule rows, jobs | tick, call, persist; list, due check, claim, enqueue, record | timeouts that leave a sweep running, overlapping sweeps, restart before `last_run` is saved |
| Sync and distribution (`src/orchestrator.py`, `src/parquet_publish.py`, `src/distribution.py`) | extracts, published files, hashes | sync, rebuild, publish, pull | a pull during a publish |
| Data apps, store submissions, webhooks, quotas | status columns | deploy and wake, review, delivery, limits | retries, check-then-act |
| Access control, authentication, marketplace, knowledge, connectors, bots, CLI, clients, web pages | tables, files, external services | requests | mostly sequential |

How they interact. API handlers and the scheduler **enqueue**; worker processes
**claim** through the repository only, so the `jobs` table is the only state that
worker processes share. The outcome of an `agent_response` job is handed to webhook
delivery by whoever finalized it. Singletons (bot connections) run under
`run_with_lease`. A chat session lives in one gateway process: its pump task and
other tasks call `_broadcast`, which stamps a frame from a shared counter, sends it
to the connected sinks and appends it to a bounded stream; a client that reconnects
gets the gap from the stream and the turn in progress from the turn buffer, through
a gate that holds live frames back meanwhile. Which gateway hosts a session is decided
by a lease per session; another gateway either publishes messages to the session's
inbound stream, which the host consumes, or takes the session over. The scheduler
sidecar only calls the API; the sweep of agent schedules enqueues jobs. The migration
endpoint, the migrator container and the host's applier share nothing but the files
under `/data/state`.

`PROJECT.json` lists every component with its status and, under `hazards`, what is
hard to test in this code, at the line where it bites, with the properties that
cover it.

What makes each modelled component correct:

* queue and workers: every job ends; it is attempted at most `max_attempts` times;
  the newest claim's result is the recorded one; a terminal row never changes; an
  unexpired lease protects its holder; subscribers hear of an outcome at most once
  and correctly; one live job per idempotency key;
* leader lease: the singleton work is exclusive as long as the backend keeps its
  word, stops in bounded time otherwise, and resumes on one replica afterwards;
* chat frames: once a reconnect is over the page shows every frame; the client's
  dedup drops only what it shows; the gate opens;
* session lifecycle: every existing sandbox is known to the row, the registry or a
  coroutine that will register or destroy it, as long as the steps that the code leaves
  unprotected are not taken; one runner at a time; an active session
  has a handle;
* session routing: a second host does not last beside the holder of the lease; what a former
  host delivered is not delivered again; no accepted entry is passed over;
* idempotency keys: one run at a time per key, unless one outlives its reservation; a replay
  is the answer to the same body and never changes; a crashed request does not block its
  key;
* database migration: a cancelled migration does not flip; the store in use holds the last
  accepted write; the url belongs to the backend; an unfinished state ends, outside the ends
  named in section 2;
* schedules: an occurrence is used at most once and a missed one is noticed; the sidecar
  keeps its cadence across restarts.

## 2. Modules

| Module | What it is |
|---|---|
| `JobsRepo` | the `jobs` table and its operations as row operators; `EXTENDS` only `Integers` |
| `WorkerRuntime` | composes `JobsRepo` with processes, slots, reaper, shutdown, crashes; all properties of the queue |
| `JobContract` | abstract: jobs are open, attempted within a budget, settled once, announced once |
| `MCWorkerRuntime` | kinds and lanes for TLC |
| `WorkerRuntimeProofs` | theorems about `WorkerRuntime` |
| `LeaderLease`, `MCLeaderLease`, `LeaderLeaseProofs` | the leader lease |
| `FrameReplay`, `MCFrameReplay`, `FrameReplayProofs` | frames, reconnect and client |
| `SessionLifecycle`, `MCSessionLifecycle`, `SessionLifecycleProofs` | one session in one gateway, its coroutines and sandboxes |
| `SessionRouting`, `MCSessionRouting`, `SessionRoutingProofs` | one session between gateways: lease, takeover, inbound stream |
| `IdempotencyKeys`, `MCIdempotencyKeys`, `IdempotencyKeysProofs` | requests that share one Idempotency-Key |
| `DbMigration`, `MCDbMigration`, `DbMigrationProofs` | application, admin API, migrator and applier over the shared files |
| `Schedule` | schedules and when they are due, against the set of their occurrences |
| `AgentSweep`, `MCAgentSweep`, `AgentSweepProofs` | composes `Schedule` with the sidecar and the sweeps of the API |

### JobsRepo and WorkerRuntime

Each repository operation runs under `_JOBS_LOCK` (DuckDB) or in one transaction
(Postgres; `INSERT ... ON CONFLICT DO NOTHING` on the partial unique index, then a
lookup of the winner or another try), so it is one atomic change of `jobs`. Two concurrent
inserts of one key are ordered by the unique index; what is left to check is that a requeue
and a reclaim, which change rows past the insert, keep the key unique.
Timestamps are distances from now, aged by `Tick`: `lease < 0` is expired,
`run_after = 0` is due. The `uuid4` token of a claim is the number of that claim,
which is fresh because `attempts` only grows. `result_of` records which claim's
result `complete()` merged. `leased_by` is left out: the guards compare
`lease_token`, and the worker id never decides alone.

A slot `<<p, i>>` is the i-th lane task of process `p`. The steps of `_run_one` are
cut where the code awaits: `Claim`, `StartHandler`, `HandlerReturns`, `Finalize`
(the `complete()`/`fail()` call with its guard and its return value), `Notify`.
`FinalizeError` is a call that raises. `Heartbeat` may come late or not at all:
nothing in the code prevents an event loop from stalling. `Reap` and `ReapNotify`
are the reaper task. `Shutdown` cancels all tasks (a running handler goes to
`in_flight`, keyed by job id), `DrainDeadline` ends the wait, `DrainFinalize` and
`DrainAbandon` go through the entries, `DrainDone` ends the process. Where two slots of a
process run one job, the entry registered later replaces the other (`Overwritten`), whose
slot is `dropped`: its handler is not drained. `Crash` and
`Restart` are the process's supervisor.

Left out: the branch for a job whose kind has no registered handler (`claim_next`
is only asked for registered kinds), the branch for a payload without `agent_id`
(every enqueuer sets it), the Postgres `LISTEN` wake-up (it only shortens a wait),
the bound on waiting for a jobs-table call during cancellation, the handlers' own
work.

### LeaderLease

One entry `[holder, left]` of the backend and one loop per replica. A replica's
`timer` counts down to its next step and may run to `-Late`. `age` (not kept by the
code) is the time since its last successful call. `Outage`/`Recover` make the calls
of one replica raise `CoordinationUnavailable`; `Flush` loses the entry. A
cancellation while an acquire is in its thread may leave an entry nobody releases
(`CancelOther`).

### FrameReplay

One session, one client, any number of broadcasting tasks, of which `Pump` produces
the frames of turns. `_broadcast` is cut into `Stamp` (under the lock, the list of
sinks taken), `Deliver`, `AppendFrame` and `Finish` (what the pump does after
`_broadcast` returns). The route is `Connect` (seat the gate), `Peek`, `Read`,
`SendRefresh`, `Release`, `Flush`, `Drain`. The client keeps `last`, what it applied
and what it dropped. Frames carry the incarnation of the counter, so that a restart
after a FLUSHALL reuses numbers. Buffers are sets because every reader sorts by
seq; the stream is a sequence because it evicts by append order.

`unstored` are the frames that no history will ever have. The pump's `done` branch persists
an `assistant_message` only: a cancelled turn, one over its tool budget and one that failed end
with `done` alone, and their frames leave the turn buffer for nowhere (`manager.py:2289-2291`);
so do those of a runner that ends in mid-turn (`RunnerEnds`), and notices are never more than
broadcast. The load of the history may fail, and the page goes on without (`Loaded`).

The protocol has holes. `excused` records which frame met which of them, so that
everything else can be stated:

| Hole | A frame meets it when | In the code |
|---|---|---|
| `seating` | its `_broadcast` is under way when the gate of a client with a last seq is seated | sinks are listed before, the stream is appended after the sends (`manager.py:2353`); `MCSilentGap.cfg` |
| `reloading` | the same, when the client was sent to its history and that did not have the frame yet | follows `seating` |
| `watermark` | it is newer than the turn's first frame and not in the turn buffer | `_flush_gap_replay` filters it from the replay (`app/api/chat.py:585`); `session_renamed`, `cancelled`, `error` are such frames |
| `trimmed` | it is evicted before an older entry | appends run outside the lock and eviction goes by append order, but `replay_since` takes the oldest seq for the mark (`replay.py:169`) |
| `redraw` | the page was wiped, the last seq kept, and it is not yet in the history | `openSession` keeps `lastSeenSeqByChat`; the resent frame is dropped (`chat.js:1626`) |
| `unstored` | the page was drawn from a history that will never have it | the turn ended without an `assistant_message`, or the frame is a notice (`manager.py:2289-2291`) |
| `unloaded` | it is in the history, and the history could not be loaded | `loadAndRenderHistory` fails and the page goes on (`chat.js:1428-1433`) |
| `opening` | a client without a last seq loaded a history without it, and the turn buffer did not have it either when the gate was seated | `replay_since` returns at once (`replay.py:130`) |
| `cleared` | a user message cleared the turn buffer in mid-turn | `_deliver_local_user_message` (`manager.py:2552`) |
| `unavailable` | a call of the backend failed | replay is best effort by design |

`GapClosed` and `OnlyDuplicatesDropped` except the frames that met one of them, each frame
separately: a frame that meets none is shown, whatever happens to the others.

Left out: approval and question cards (exempt from dedup), `add_sink`'s unstamped
history, the nine-day TTL of the counter (a session that sleeps longer behaves as
after a flush).

### SessionLifecycle

One event loop: a step is what happens between two awaits. `op` is the coroutine that holds
the session lock (`attach`, `send_user_message`, `kill`); each `LiveSession` object has its
wait task, a resume under `_resume_lock` and a pause, which run beside that lock; `sweep` is
the reaper's sweep of sandboxes that were paused for too long. A cancelled task stops at its
await, and a spawn that is cut off may have created its sandbox. `kill()` kills the handle
that it read before its await (`KillReleased`, `KillDone`), whatever was installed
meanwhile. Every destroy may fail and nobody is told, since the callers and the provider
swallow the error (`Destroy`, `Stranded`). A runner may end and leave its sandbox, or the
connection to it may be lost (`Exited`). The provider is one that cannot list its sandboxes,
as E2B's. `IDLE` is in the enum and never assigned.

The properties are claimed up to the first step that the code leaves unprotected, and the
run does not look beyond it (`CONSTRAINT Protected`):

| Gap | Step | In the code |
|---|---|---|
| `overlap` | a pause and a resume of one object run at the same time | `_pause_live` awaits the provider without a lock (`manager.py:1267-1276`) |
| `cut` | a spawn is cut off by a cancelled task or a restart, or raises after its sandbox was created | nothing is written before `_spawn_runner` returns |
| `left` | a crash respawn replaces a sandbox that outlived its runner | the respawn does not destroy what it replaces (`manager.py:2459-2464`) |
| `crossed` | a crash respawn lands while `kill` awaits the end of the old handle | `live.handle` is evaluated before the await, the reference cleared after it (`manager.py:3499-3500`) |
| `undestroyed` | the provider could not destroy a sandbox | swallowed in `_destroy_old_sandbox` (`manager.py:1394-1397`), at a failed claim (1085-1092), in the sweep (3934-3938) and in `e2b_provider.py:212-215` |
| `unpaused` | `kill` of a PAUSED session | there is no handle to kill (`manager.py:3499`); run `session_kill_paused` |
| `resuming` | `kill` finds a resume in flight | the resumed runner is installed in an object that is no longer registered |
| `refused` | `provider.resume` raises although the sandbox exists | `_resume_live` clears the reference without destroying (`manager.py:1367`) |
| `returned` | the session came back while the sweep destroyed its sandbox | the sweep runs outside the session lock (`manager.py:3935`) |

Left out: runners of an older protocol (destroyed and spawned afresh), keepalive, tickets,
budget checks, the orphan sweep of the docker provider, which cleans up after the gaps.

### SessionRouting

Each gateway has an attach under the session lock, the wait task of its session and the
inbound consumer; a step is one call to the coordination backend, the provider or the
database. `Claim` and `Started` (the claim, then the reference in the row) are two awaits, and
`Started` does not look at the result of the claim, as `_claim_routing_lease` only logs it. A
lease that nobody renews runs out (`Expire`), and the backend may lose it (`Lost`).

While the backend is away (`outage`) each caller does what `routing.py` makes of it: `owner_of`
answers nobody, so that an attach resumes or spawns beside the host (`Owners`); a claim answers
False and the gateway serves anyway (`Claims`); a release does nothing (`Releases`); a message to
another gateway is refused (`PublishFails`); a consumer that cannot read the counter starts at 0
(`Seed`). Two gateways may then host the session. `SplitBrainEnds` says that none of them goes on
for good while another one holds the lease. When the lease itself is gone it says nothing:
a renewal does not acquire and a host that finds no owner keeps serving, so both stay
(`MCLeaseRegained.cfg`).

The number and the append of an entry are two steps, between which the gateway's event loop does
nothing else (`Quiet`) and other gateways do. The consumer seeds its cursor with the
counter; `Unread` is `read_new`, sorted by seq. `late` marks an entry that was appended after
an entry with a higher number; `NothingSkipped` excepts such an entry. `tried` is what a consumer
took up, delivered or not, since the cursor advances in both cases. `NoReplay` is about a consumer
that could read the counter, since one that starts at 0 is fed the retained stream again.

Left out: eviction of the inbound stream at 1000 entries, cancel, approval and question commands
(the same path as a message).

### IdempotencyKeys

One row and the requests that share its key. `Lookup`, `Reserve` and `Conflict` (the second
lookup) are statements of their own. `left` is the time to `expires_at`; the row is stale when
it is negative, in `get()` and in `reserve()` alike. A run lasts as long as it takes: the code
clamps the wait for the response to 600 s of a reservation of 900 s, but not the start of the
sandbox, the upload and the harvest around it. A request's own `left` is what remains of its
reservation; once that has lapsed another request may reserve the key and run beside it, and
whichever of the two answers last replaces the other's response, as `fulfill()` writes without a
condition. `NoDoubleRun` and `ReplayStable` except such a run, and nothing else. A client repeats
its call after a 409 or an error.

### DbMigration

`yaml` is the overlay, `flag` the lifecycle flag, `job` the job files, `sentinel` the cancel
files, `app` the container with the overlay it has parsed, `pg` the side-car container,
`store` the version of a row in each database. The API's handlers hold the migration lock
from their first to their last write; the migrator reads and writes the job's JSON without
it (`MigRead`, `MigWrite`) and flips under it (`Flip`, with the last look at the sentinel). It polls
the sentinel only between its stages (`MigPoll`): a cancel in mid-stage lets the stage finish or
fail, and a migrator that finds the lock held at the flip, if only by the cancel itself, reverts
and leaves a failed job. A
tick of the applier is `Tick`, `Recover`, `Lifecycle`, `Launch`, `Settle`, `Restart`; `Abort` is
its exit trap. The gaps, at the first of which the run stops:

| Gap | What happened |
|---|---|
| `racing` | the application was started by somebody else while a migration was under way, and wrote |
| `overlap`, `stale` | a migration was started while another was being settled, or on a stale view of the overlay |
| `url` | a dead migrator's job is recovered whose source is Postgres: `write_initial` dropped its url |
| `unflip` | recovery rolled back a backend that had been flipped and written to |
| `wedged` | a pending job expired, or a reboot left an in-progress overlay without an active job: no tick looks at it again |
| `flag` | a rollback removed the flag without which no tick looks at the other job |
| `orphan` | the migrator outlived the watchdog that gave it up |
| `sample` | the verification compares counts and the first 1000 rows; the old row was not among them |
| `side_car` | the applier stopped the side-car in use; run `db_sidecar_stopped` |
| `refused` | the overlay could not be written during a rollback |

and `OnTheEnvironment`: an application that starts while the overlay says in progress and
has no url uses `DATABASE_URL`.

`Settles` (what is under way ends) is claimed for behaviours that meet none of the gaps,
and says so in the formula. Three of the gaps are ends that nothing recovers from: a migrator
killed outside the watchdog once the rollback removed the flag (`flag`), an expired job or a reboot
without an active job (`wedged`), an overlay that could not be written (`refused`).

Left out: the guards against two urls of one database, `BackendFlipNotVerified` (needs a
second writer inside the lock), an unreadable overlay, the copy table by table.

### Schedule and AgentSweep

Time has units; a cron schedule is a set of days and a set of times of day, which fall on
whole minutes (`IsValid`, what the parsers accept). `CronDue` walks the days back as
`_is_cron_due` does, at most `Walk` of them (8 * 366 in the code); `Missed` is the
reference: an occurrence in `(last, now]`. The sidecar is `Wake` (now and the due check),
`Submit` (`in_flight`), and the thread's `Send`, `Return` or `TimeOut`, `Stamp`, `Persist`,
`Release`. A sweep lists the rows, and for each checks, claims by compare-and-set on
`last_run_at`, enqueues under the key of the minute and records the job. Time does not pass
between the thread's bookkeeping steps or between the due check and the submit (each is a
few instructions); it passes everywhere else. A statement of a row that raises is caught and
the sweep goes on with the next row (`RowFails`), also when the job has been enqueued and
only its id is not recorded. `gap` records `loose` (a sweep nobody waits for), `unrecorded`
(a job that was enqueued and not recorded), `unsaved` (a last run that is not in the file)
and `raced` (the last run changed between the due check and the look at `in_flight`).
`OneAtATime` has two parts: sweeps do not overlap unless one is `loose`, and a schedule has
at most one queued job unless, besides, one is `unrecorded`.

## 3. Runs

Passing runs:

| Run | Instance | Shows |
|---|---|---|
| `worker_two_processes` | 2 processes (symmetric) with a slot each, 2 jobs, one key, 2 attempts, 2 faults | `TypeOK`, `AnnouncedOnce`, `NewestClaimRecorded`, `OneLiveJobPerKey`, `AttemptsWithinBudget`, `TerminalIsFinal`, `LeaseProtectsHolder`, and `ImplementsContract` (refinement of `JobContract`) |
| `worker_every_job_ends` | 2 processes with a heavy and 2 light slots each, 2 kinds of different lanes, leases and retries, delays, 1 job, 2 faults, fair | `NewestClaimRecorded` also inside a process, where the worker id is shared; `DrainRecordsFinished`, with two slots of a lane on one job; `EveryJobEnds`; `EveryOutcomeAnnounced` (in behaviours without faults), also of jobs only the reaper ends |
| `lease_three_replicas` | 3 replicas, ttl 6, renew 2, late 1, 2 faults, 1 exit, fair | `TypeOK`, `ExclusiveWithoutFaults`, `StopsInTime`, `SettlesOnLeader` |
| `replay_gap_closed` | 2 tasks, stream of 1, 2 frames, 2 connections, a failed call (of the backend or of the history) or a loss of state, fair | `TypeOK`, `GapClosed`, `OnlyDuplicatesDropped`, `GateOpens` |
| `session_lifecycle` | 3 objects, 4 sandboxes, crashes up to a limit of 2, failures of the provider (of destroys too), restart | `TypeOK`, `NoOrphan`, `OneRunner`, `ActiveHasHandle` |
| `session_routing` | 2 gateways, a message and a kill command, 2 sandboxes, runner exits, gateway stops, outages, a lost lease, fair renewals | `NoReplay`, `NothingSkipped`, `SplitBrainEnds` |
| `idempotency_keys` | 3 requests, 2 bodies, runs of any length, fair | `NoDoubleRun`, `ReplayMatchesBody`, `ReplayStable`, `NeverWedged` |
| `db_migration` | 2 jobs, 2 versions, all three backends, ten kinds of faults, fair | `TypeOK`, `CancelHonoured`, `NoLostWrite`, `UrlFollowsBackend`, `Settles` |
| `agent_sweep` | 1 row, 2 concurrent sweeps (symmetric), 4 units of time across 2 days, 2 faults (calls that time out, rows that raise, stops, kills) | `OncePerOccurrence`, `OneAtATime`, `CronCatchesUp`, `CadenceKept` |

Runs in which TLC finds a statement of the repository violated by its code; each is
a finding in `PROJECT.json` with the quotation:

| Run | Statement | What happens |
|---|---|---|
| `worker_no_retry_reruns` | `agent_response` is never retried | a lost lease is reclaimed while attempts remain |
| `session_kill_paused` | the sandbox is destroyed before its reference is cleared | `kill` of a PAUSED session clears the reference only |
| `db_sidecar_stopped` | after a rollback to side_car the kept flag is the right one | it is the flag of the cloud, and the next tick stops the side-car |

Smaller configurations reproduce further disagreements of code and text. TLC refutes the
property in each:

| Configuration | Property | What TLC shows |
|---|---|---|
| `MCDrainOverwrite` | `DrainRecordsAll`, the docstring's sentence without the exception of `DrainRecordsFinished` | two slots on one job share the `in_flight` key at shutdown (`app/worker/runtime.py:332`), and the outcome of the newer claim may be dropped; the docstring (lines 72-76) says every finished future is finalized |
| `MCLeaseBelief` | `AtMostOneBelieves` | after a FLUSHALL two replicas believe that they hold the lease until the next renewal, against `leases.py:26-28` |
| `MCSilentGap` | `NoSilentGap` | a frame under way at the seating of a gate reaches the client on no path |
| `MCRefreshDropped` | `RefreshTaken` | after a counter restart the `full_refresh` frame itself is dropped by the dedup (`chat.js:1626`) |
| `MCEntrySkipped` | `OvertakenTaken` (3 gateways) | an entry is appended behind the cursor of a running consumer, which will not read it: another one overtook it between its number and its append |
| `MCLeaseRegained` | `LeaseRegained` | a host whose lease is gone stays without one: a renewal does not acquire, against "a real outage self-heals the moment the backend comes back" (`manager.py:3663-3665`) |
| `MCRetryOnEmpty` | `LastWriteSeen` | after a failed migration to the side-car the application is restarted with the side-car's `DATABASE_URL`; when the migration is tried again the overlay says in progress without a url, and until the applier stops it the application reads the empty side-car (`OnTheEnvironment`) |
| `MCPileUp` | `OneQueuedPerSchedule` | overlapping sweeps after a timeout queue two jobs of one schedule, against "bounded to ONE queued job per schedule" (`agent_schedules.py`) |
| `MCDailyMissed` | `DailyCatchesUp` | a daily target missed before midnight is not caught up, against "a missed occurrence fires on the next tick after it passed" (`src/scheduler.py:257-258`) |

Why the bounds suffice. Two slots are what it takes for a lost lease to be contested; two
attempts give a first, a reclaimed and an exhausted one; a lease of one time unit expires in
one step of any interleaving, a lease of zero (the shortest kind) at once; two faults allow
a crash of each process, or a shutdown and a failed call. Two jobs show the selection order
and the deduplication. Three replicas allow a lease to change hands twice while the first
holder still works. A stream of one entry makes every append evict, and two connections
allow a first open, a break and a reconnect. Three session objects are a session, its
successor and one more after a restart; four sandboxes allow a spawn, a crash respawn, a
fallback and one that is left behind. Two gateways are a host and one that takes over; two
publishers and a third gateway that consumes are the instance of `MCEntrySkipped`, and
`MCRoutingHosts` checks `TypeOK` and `SplitBrainEnds` with a third sandbox and no messages.
Three requests are an overrunning run, the one that takes its key over, and a reader. Two
migrations show a retry onto a target that is not empty, two versions a write between them.
Two sweeps are what a timeout leaves running and its successor; the horizon reaches the
second day, so that the walk of the days is taken. Every bound is a constant (`MaxJobs`,
`MaxFaults`, `MaxExits`, `MaxFrames`, `MaxConnects`, `MaxFlushes`, `MaxObjects`,
`MaxSpawns`, `MaxWrites`, `Horizon`). Runs other than those of the workers and the lease do
not check for deadlock: a session may go quiet, a bound may be used up, all requests may be
answered. `TypeOK` of `SessionRouting` and `AgentSweep` is left out of the configurations;
section 4 proves it.

Fairness. *Worker*: the event loop of a live process keeps scheduling its tasks, each of
which polls in an endless loop; handlers end (each bounds its own work by a timeout); time
passes; a supervisor restarts a process (`restart: unless-stopped` in the compose files).
Nothing is assumed of heartbeats, callers or faults; faults are finite. *Lease*: the same,
and the backend comes back eventually. *Replay*: the task of the connection runs, and its
calls of the backend return or raise; nothing is assumed of the tasks that broadcast.
*Routing* (`RenewSpec`): the reaper ticks and reaches the backend again after an outage, a
message that has its number is appended or refused, a lease that nobody renews runs out;
nothing is assumed of attaches, consumers, users, runners or faults. *Keys*: time passes,
started requests go on, a client repeats its call, and of runs that are tried again and
again one succeeds. *Migration*: started handlers and the migrator go on, the timer fires;
strong fairness of `Lifecycle` and `Recover`, because Postgres may be slow and a heartbeat
young on some ticks and not on all; the host does not reboot for ever.

## 4. Proofs

`WorkerRuntimeProofs`, under `RepoAssumption` and `RuntimeAssumption` only:

* `TypeCorrect`: `Spec => [](TypeOK /\ WellFormed)`. `WellFormed` (a slot that is not
  idle points at a row that exists and has a kind) makes the type invariant inductive:
  without it `JOB_KINDS[jobs[j].kind]` has no type. Every repository operation is first
  shown to change rows by one of six row steps (`RowStep`), every action to change
  slots by slot steps; typing follows from these two facts.
* `BudgetKept` (`AttemptsWithinBudget`) and `NewestResult` (`NewestClaimRecorded`). The inductive
  invariant `RowsInv` is a statement about single rows: a row's token is its number of
  attempts while it runs, and so the token in `complete()`'s guard can only be that of
  the newest claim.
* `Finality`: `TerminalIsFinal`, an action property, from the row steps.
* `AnnouncedAtMostOnce`: `AnnouncedOnce`. The strengthening `AnnounceInv` says that of all
  slots that are about to announce and all reapers that have swept, at most one concerns
  a given job, that job has not been announced, and it is in the state that will be
  announced.
* `OneLiveJob` (`OneLiveJobPerKey`): a row becomes live only in `enqueue()`, which looks for a live
  row of the key in the same statement; all other row steps keep or end it.
* `HolderProtected` (`LeaseProtectsHolder`, an action property). The token in the guards of
  `complete()`, `fail()` and the reaper is that of the newest claim; `SettlingInv` adds that past
  the limit of a drain every handler that is still handed off has an outcome.
* `DrainRecords` (`DrainRecordsFinished`), for any number of slots per lane: `DrainInv` says that a
  handed-off handler is registered in `in_flight` under its job, by its own slot, until the drain
  has dealt with it, and `ClaimInv` that a job whose entry was overwritten has been claimed twice.
* `RuntimeImplementsContract` (`ImplementsContract`): the initial states map to initial states of
  `JobContract` and every step to a step of it or a stutter, from `RowsInv`, `AnnounceInv` and
  `OneLiveJobPerKey`.

`LeaderLeaseProofs`, under `LeaseAssumption`:

* `LeaseTypeCorrect` and `WorkStopsInTime`: `TimingInv` bounds, for each state of the loop,
  `age` plus what is left of the timer, and relates it to `grace`; the bound of
  `StopsInTime` is the largest of these.
* `WorkIsExclusive`: with `Timely` (start, one late renewal and stop fit in a ttl), `CoverInv`
  says that without faults a working replica holds an entry that lasts longer than its
  timer and the time it then needs to stop; two replicas cannot both hold it.

`IdempotencyKeysProofs`, under `KeysAssumption` only:

* `KeysInvariant`: `KeysInv` is inductive. A request whose reservation has not lapsed is running
  and `Covered`: the row is its own reservation and lasts as long. Nothing bounds a run, so a
  request that has lapsed may run on; what it does to the others is the exception of the next two.
* `RunsOneAtATime` (`NoDoubleRun`), `AnswersOwnBody` (`ReplayMatchesBody`) and `ReplaysAgree`
  (`ReplayStable`, an action property) follow from it, for any number of requests and bodies,
  any lifetimes and runs of any duration.

`FrameReplayProofs`, under `ReplayAssumption`, for any tasks, any length of the stream and
any numbers of broadcasts, connections, failed calls and losses of state. `ReplayInvariant`
(`FullInv`) has types and a count of the numbers issued (`Typed`, `Counted`: one per
broadcast, two per connection), which hold throughout, and `ReplayInv`, which holds as long
as the backend keeps its state (a counter that starts again gives its numbers away a second
time):

* `FramesInv`, `StreamInv`: a number names one frame and the one under the lock is the highest; a
  frame that is not in the stream is yet to be appended, met a hole, or has left it before
  everything of a higher number, so that an empty or younger stream tells `replay_since` of it;
* `GateInv`: what the gate has sent, sends, holds back and is about to be given comes in the order
  of the numbers, which is why the client's last seq never overtakes a frame that is held;
* `DropInv`, `BufferInv`, `DueInv`: what lies at or below the client's last seq is shown or
  met a hole; what is under way or in the turn buffer is in the waiting gate; and every
  broadcast is shown, met a hole, is in the gate, is on its way to it, or will be found in
  the stream or cause a refresh.

A hole in these statements is one of the ten of section 2. `ReplayTyped` (`TypeOK`),
`GapsClosed` (`GapClosed`: an open gate holds nothing, so what is due is shown or still
being sent) and `DuplicatesOnly` (`OnlyDuplicatesDropped`) follow.

`SessionLifecycleProofs`, under `LifecycleAssumption`, for any numbers of objects, sandboxes
and crashes. `LifecycleInvariant` is the inductive invariant, up to the first of the nine
unprotected steps (`gap`):

* `ObjectInv`: an object that is neither registered nor being killed has no task left that
  touches a sandbox; of the current one, state, handle, reference in the row and running
  tasks agree (`Current`);
* `OpInv`: what the coroutine that holds the session lock knows stays true across its awaits;
* `HomeInv`: the only sandbox that exists is the row's, or, between the spawn and the write of
  the reference, the claimer's handle. None of the three is inductive without the others.

`LifecycleTyped` (`TypeOK`), `NothingOrphaned` (`NoOrphan`), `RunnersAlone` (`OneRunner`)
and `ActiveServed` (`ActiveHasHandle`) follow. Beyond a gap `TypeOK` does not hold: the
limit of the crashes can then be exceeded.

`SessionRoutingProofs`, under `RoutingAssumption`, for any gateways and entries. `RoutingInvariant`
(`RoutingInv`) says of every consumer that its cursor is where it started or the number of an
entry in the stream, so that what is appended behind it is late; that every entry of the
stream ahead of its start which is not late was taken up or is still ahead of the
cursor; and that a consumer which could read the counter starts behind every number that was
drawn. Outages and a lost lease are among the steps. `TakeoverRefeedsNothing`
(`NoReplay`) and `OnlyLateSkipped` (`NothingSkipped`) follow; `RoutingTyped` bounds the counter by
the number of entries with a publisher.

`DbMigrationProofs`, under the module's assumptions, for any jobs and versions:

* `MigrationTyped` (`TypeOK`), under all faults and beyond all gaps;
* `CancelKept` (`CancelHonoured`), likewise beyond all gaps: the cancel handler writes the sentinel
  under the lock while the job's step is not yet `flip_backend`, and the flip looks at it under
  the same lock;
* `UrlKept` (`UrlFollowsBackend`): while no gap was met, a job that anybody still works on is the
  only one (`OneBusy`), and whoever may roll it back (the migrator, the tick, the handler, the
  job file) remembers the url of its source (`TickUrl`, `JobUrl`, `HandlerUrl`);
* `WritesKept`: `Spec /\ []Protected => []NoLostWrite`. The hypothesis is what the run's
  `CONSTRAINT` says. `WriteInv`: the store the overlay stands for, the source to which a
  tick may roll back and the target of a verified copy hold the last write.

`AgentSweepProofs`, under `ScheduleAssumption` and `SweepAssumption`, for any rows,
schedules, sweeps and faults:

* `SweepTyped` (`TypeOK`);
* `CronCaughtUp` (`CronCatchesUp`): `CronDue` equals `Missed`, the walk over days against
  the set of occurrences. It assumes `Horizon < Day * Walk`: after more than eight years
  `_is_cron_due` gives up;
* `NoOccurrenceTwice` (`OncePerOccurrence`): the windows of a row's claims are disjoint and
  end at its `last_run_at`, by the compare-and-set of the claim;
* `CadenceHolds` (`CadenceKept`, an action property) and `SweepsOneAtATime` (`OneAtATime`),
  from what the thread, `in_flight`, the saved file and the sweep under way say of each
  other, and, for the second part of `OneAtATime`, from which jobs the rows name.

The inductive invariants were checked with TLC on the runs' instances before they were proved.

Only model-checked: the liveness properties (`EveryJobEnds`, `EveryOutcomeAnnounced`,
`SettlesOnLeader`, `GateOpens`, `SplitBrainEnds`, `NeverWedged`, `Settles`) and the fairness
behind them, which are out of the prover's reach. Every other property of a passing run has
a theorem.

## 5. Not modelled, and the plan

What is left of the plan:

1. Abstract specifications of more components, with the detailed ones shown to implement them as
   `WorkerRuntime` does `JobContract`: a page that gets every frame in order (`FrameReplay`), one
   runner per session (`SessionLifecycle`).
2. Publication of parquet files against pulls, webhook delivery, data apps, store
   submissions: each a status column with retries around an external call.
3. Quotas: the spend of the day is compared with its cap before the run that spends it
   (`manager.py:4105`), a soft limit by design.

The modules cover a small part of the repository's lines, because most of those lines have
no control to model: templates, page scripts and the admin pages (`app/web`, `app/api/admin.py`)
are user interface and single statements; `src/db.py` and `migrations/` are ordered DDL;
connectors, bots, providers and the CLI are sequential I/O against external services;
queries and the semantic layer produce SQL text; access control and authentication are set
computations and single guarded statements (candidates for reference checks); marketplace and
knowledge are file and table contents; observability changes no state. The concurrent and
failing parts are what the modules are for.
