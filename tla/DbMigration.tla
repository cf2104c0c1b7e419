---------------------------- MODULE DbMigration -----------------------------
(***************************************************************************)
(* Moving the application state between DuckDB, the side-car Postgres and a *)
(* cloud Postgres.  Three programs share the files under /data/state:       *)
(*   - the admin API (app/api/db_state.py), which queues and cancels jobs   *)
(*     while it holds the migration lock;                                  *)
(*   - the migrator (scripts/db_state_migrator.py), which copies, verifies  *)
(*     and flips the backend, and rewrites the job's JSON without the lock; *)
(*   - the applier (scripts/ops/agnes-state-applier.sh), a host timer that  *)
(*     stops the app, runs the migrator, settles or rolls back, restarts    *)
(*     the app and recovers jobs whose migrator died.                      *)
(*                                                                         *)
(* The rows of a store are abstracted to the version of one row that the    *)
(* application keeps updating; 0 is a store without it.  A client's         *)
(* cloud_url is always the same, distinct database, so the alias guards     *)
(* never fire.  The rollback that BackendFlipNotVerified withholds needs    *)
(* a second writer inside the migration lock and is left out.              *)
(***************************************************************************)
EXTENDS Naturals, FiniteSets

CONSTANTS
    MaxJobs,        \* bound: jobs queued
    MaxWrites,      \* bound: versions written by the application
    None,           \* no url, no job, no flag, no gap
    Faults          \* subset of AllFaults that may happen

AllFaults == {"up", "kill", "crash", "refused", "abort", "not_ready", "expire", "reboot", "orphan", "sample"}

ASSUME MigrationAssumption ==
    /\ MaxJobs \in Nat \ {0} /\ MaxWrites \in Nat \ {0}
    /\ Faults \subseteq AllFaults

Jobs == 1 .. MaxJobs

Pg == {"side_car", "cloud"}
Stable == Pg \cup {"duckdb"}

\* BackendState: the transient value while a migration to t is under way.
InProgress(t) == IF t = "side_car" THEN "side_car_in_progress" ELSE "cloud_in_progress"
Transient == {InProgress(t) : t \in Pg}

\* _ALLOWED_TRANSITIONS, without the reserved duckdb_quack.
Allowed(b) == IF b \in Stable THEN Stable \ {b} ELSE {t \in Pg : InProgress(t) = b}

VARIABLES
    yaml,           \* instance.yaml::database, [backend, url]
    flag,           \* db-state-target.flag: the backend whose containers it asks for
    job,            \* db-jobs/<id>.json
    sentinel,       \* the jobs with a .cancel file
    app,            \* the app container: up, its parsed overlay, its DATABASE_URL
    api,            \* the handler that holds the migration lock
    mig,            \* the migrator
    apl,            \* the applier's tick
    pg,             \* TRUE while the side-car container runs
    store,          \* store -> version of the row
    written,        \* the version the application wrote last (history)
    gap             \* the known gap this behaviour went through (history)

vars == <<yaml, flag, job, sentinel, app, api, mig, apl, pg, store, written, gap>>

Gaps == {"racing", "overlap", "url", "unflip", "wedged", "orphan", "sample", "flag", "side_car", "refused", "stale"}

ASSUME NoneAssumption == None \notin Jobs /\ None \notin Stable \cup Transient \cup Gaps

Unread == [backend |-> None, url |-> None]

NoJob == [status |-> "absent", step |-> "queued", source |-> None, target |-> None, surl |-> None]
NoHandler == [pc |-> "idle", job |-> None, doc |-> NoJob]
NoMigrator == [pc |-> "off", job |-> None, source |-> None, target |-> None, surl |-> None,
               next |-> None, doc |-> NoJob, rc |-> "exit"]
NoTick == [pc |-> "idle", job |-> None, flag |-> None, source |-> None, target |-> None, surl |-> None]

\* An instance that runs on backend b, with the flag of the migration that
\* brought it there.
Init ==
    \E b \in Stable :
        /\ yaml = [backend |-> b, url |-> IF b = "duckdb" THEN None ELSE b]
        /\ flag = IF b = "duckdb" THEN None ELSE b
        /\ job = [j \in Jobs |-> NoJob]
        /\ sentinel = {}
        /\ app = [up |-> TRUE, seen |-> Unread, env |-> IF b = "side_car" THEN b ELSE None]
        /\ api = NoHandler /\ mig = NoMigrator /\ apl = NoTick
        /\ pg = (b = "side_car")
        /\ store = [s \in Stable |-> IF s = b THEN 1 ELSE 0]
        /\ written = 1
        /\ gap = None

\* The first gap stays recorded.
Gap(g) == gap' = IF gap = None THEN g ELSE gap

-----------------------------------------------------------------------------
(* The application *)

\* read_backend_state: parsed once, until this process writes the overlay.
Seen == IF app.seen = Unread THEN yaml ELSE app.seen

\* use_pg and _resolve_url: the url of the overlay, then DATABASE_URL.
StoreOf(y) == IF y.backend = "duckdb" THEN "duckdb" ELSE IF y.url # None THEN y.url ELSE app.env

\* A recreated container; the compose overlay of the side-car injects its url.
Started(backend) == [up |-> TRUE, seen |-> Unread, env |-> IF backend = "side_car" THEN "side_car" ELSE None]

\* The part of a tick for which the applier stops the app.
UnderWay == mig.pc # "off" \/ apl.pc \in {"waiting", "restart"}

\* A request updates the row.
AppWrite ==
    LET s == StoreOf(Seen) IN
    /\ app.up /\ written < MaxWrites
    /\ s # None /\ (s = "side_car" => pg)
    /\ written' = written + 1
    /\ store' = [store EXCEPT ![s] = written + 1]
    /\ app' = [app EXCEPT !.seen = Seen]
    /\ IF UnderWay THEN Gap("racing") ELSE UNCHANGED gap
    /\ UNCHANGED <<yaml, flag, job, sentinel, api, mig, apl, pg>>

\* The operator, the boot script or the auto-upgrade runs compose up.
AppStart ==
    /\ ~ app.up
    /\ apl.pc # "idle" => "up" \in Faults
    /\ app' = Started(yaml.backend)
    /\ UNCHANGED <<yaml, flag, job, sentinel, api, mig, apl, pg, store, written, gap>>

-----------------------------------------------------------------------------
(* The admin API; the migration lock is held while api.pc # "idle" *)

\* _current_job_id
Active(j) == job[j].status \in {"pending", "running"}

\* start_migration under the lock: validated, the overlay says in progress.
StartMigration(j, t) ==
    LET cur == Seen IN
    /\ app.up /\ api.pc = "idle"
    /\ job[j].status = "absent" /\ \A k \in Jobs : k < j => job[k].status # "absent"
    /\ ~ \E k \in Jobs : Active(k)
    /\ t \in Pg \cap Allowed(cur.backend)
    /\ cur.backend \in Pg => cur.url # None
    /\ yaml' = [yaml EXCEPT !.backend = InProgress(t)]
    /\ app' = [app EXCEPT !.seen = Unread]
    /\ api' = [pc |-> "job", job |-> j,
               doc |-> [status |-> "pending", step |-> "queued", source |-> cur.backend, target |-> t,
                        surl |-> IF cur.backend \in Pg THEN cur.url ELSE None]]
    /\ IF UnderWay THEN Gap("overlap") ELSE IF cur # yaml THEN Gap("stale") ELSE UNCHANGED gap
    /\ UNCHANGED <<flag, job, sentinel, mig, apl, pg, store, written>>

\* ... the pending job is written
WriteJob ==
    /\ api.pc = "job"
    /\ job' = [job EXCEPT ![api.job] = api.doc]
    /\ api' = [api EXCEPT !.pc = "flag"]
    /\ UNCHANGED <<yaml, flag, sentinel, app, mig, apl, pg, store, written, gap>>

\* Bug: the flag asks for the containers of the source.
WriteFlagSource ==
    /\ api.pc = "flag"
    /\ flag' = api.doc.source
    /\ api' = NoHandler
    /\ UNCHANGED <<yaml, job, sentinel, app, mig, apl, pg, store, written, gap>>

\* ... and the flag; the lock is released.
WriteFlag ==
    /\ api.pc = "flag"
    /\ flag' = api.doc.target
    /\ api' = NoHandler
    /\ UNCHANGED <<yaml, job, sentinel, app, mig, apl, pg, store, written, gap>>

\* cancel_job under the lock: refused past the point of no return, otherwise
\* the sentinel comes first.
Cancel(j) ==
    /\ app.up /\ api.pc = "idle"
    /\ job[j].status = "running" /\ job[j].step # "flip_backend"
    /\ sentinel' = sentinel \cup {j}
    /\ api' = [pc |-> "cancel", job |-> j, doc |-> job[j]]
    /\ UNCHANGED <<yaml, flag, job, app, mig, apl, pg, store, written, gap>>

\* ... then the job's JSON, from what was read under the lock,
CancelWritesJob ==
    /\ api.pc = "cancel"
    /\ job' = [job EXCEPT ![api.job] = [api.doc EXCEPT !.status = "cancelled"]]
    /\ api' = [api EXCEPT !.pc = "revert"]
    /\ UNCHANGED <<yaml, flag, sentinel, app, mig, apl, pg, store, written, gap>>

\* ... then the overlay: back to the source, whose url is still there.
CancelReverts ==
    /\ api.pc = "revert"
    /\ yaml' = [backend |-> api.doc.source, url |-> IF api.doc.source = "duckdb" THEN None ELSE yaml.url]
    /\ app' = [app EXCEPT !.seen = Unread]
    /\ api' = NoHandler
    /\ UNCHANGED <<flag, job, sentinel, mig, apl, pg, store, written, gap>>

-----------------------------------------------------------------------------
(* The migrator *)

Stages == {"alembic", "data_copy", "verify", "flip_backend"}
Terminal == {"success", "failed", "cancelled"}

\* The stage after s; alembic stands for the backup as well.
After(s) == CASE s = "alembic" -> "data_copy" [] s = "data_copy" -> "verify" [] OTHER -> "flip_backend"

\* The direct copies from DuckDB to the cloud and from the cloud to the side-car
\* take no backup.
BacksUp == mig.source = "side_car" \/ (mig.source = "duckdb" /\ mig.target = "side_car")

\* The status of a document whose next write is n: "dropped" is a cancel found
\* before the first step, "unsaved" a failed backup.
StatusOf(n) == CASE n = "dropped" -> "cancelled" [] n = "unsaved" -> "failed" [] OTHER -> n

\* The next write to the job's JSON: a step or what StatusOf names.
Update(n) == mig' = [mig EXCEPT !.pc = "read", !.next = n]

\* The container ends.
Exit(rc) == mig' = [NoMigrator EXCEPT !.rc = rc]

\* write_initial replaces the whole document, source_url included; argparse
\* refuses a transient source before anything is written.
MigStart ==
    /\ mig.pc = "start"
    /\ IF mig.source \in Stable
       THEN /\ job' = [job EXCEPT ![mig.job] = [status |-> "running", step |-> "validate",
                           source |-> mig.source, target |-> mig.target, surl |-> None]]
            /\ Update("alembic")
       ELSE Exit("exit") /\ UNCHANGED job
    /\ UNCHANGED <<yaml, flag, sentinel, app, api, apl, pg, store, written, gap>>

\* JobWriter reads the document ...
MigRead ==
    /\ mig.pc = "read"
    /\ mig' = [mig EXCEPT !.pc = "write", !.doc = job[mig.job]]
    /\ UNCHANGED <<yaml, flag, job, sentinel, app, api, apl, pg, store, written, gap>>

\* ... and writes it back: update_step, or mark_success, mark_failed, mark_cancelled.
\* After "cancelled" and "unsaved" the overlay is still to be reverted.
MigWrite ==
    /\ mig.pc = "write"
    /\ job' = [job EXCEPT ![mig.job] = IF mig.next \in Stages THEN [mig.doc EXCEPT !.step = mig.next]
                                       ELSE [mig.doc EXCEPT !.status = StatusOf(mig.next)]]
    /\ IF mig.next \in {"success", "failed", "dropped"} THEN Exit("exit")
       ELSE mig' = [mig EXCEPT !.doc = NoJob,
                               !.pc = IF mig.next = "flip_backend" THEN "work"
                                      ELSE IF mig.next \in Stages THEN "poll" ELSE "revert"]
    /\ UNCHANGED <<yaml, flag, sentinel, app, api, apl, pg, store, written, gap>>

\* The step boundary, the only look at the sentinel before the stage: JobCancelled,
\* or the stage runs to its end whatever is cancelled meanwhile.
MigPoll ==
    /\ mig.pc = "poll"
    /\ IF mig.job \in sentinel THEN Update("cancelled") ELSE mig' = [mig EXCEPT !.pc = "work"]
    /\ UNCHANGED <<yaml, flag, job, sentinel, app, api, apl, pg, store, written, gap>>

\* The sentinel is there before the first step: nothing is reverted.
MigDropped ==
    /\ mig.pc = "read" /\ mig.next = "alembic"
    /\ mig.job \in sentinel
    /\ Update("dropped")
    /\ UNCHANGED <<yaml, flag, job, sentinel, app, api, apl, pg, store, written, gap>>

Working(s) == mig.pc = "work" /\ mig.next = s

\* The boundary between the upgrade and the backup.
BackupCancelled ==
    /\ Working("alembic") /\ BacksUp
    /\ mig.job \in sentinel
    /\ Update("cancelled")
    /\ UNCHANGED <<yaml, flag, job, sentinel, app, api, apl, pg, store, written, gap>>

\* The source as the migrator opens it.
Source == IF mig.source = "duckdb" THEN "duckdb" ELSE mig.surl

\* alembic upgrade and backup
Prepare ==
    /\ Working("alembic")
    /\ Update(After("alembic"))
    /\ UNCHANGED <<yaml, flag, job, sentinel, app, api, apl, pg, store, written, gap>>

\* copy_duckdb_to_pg empties the target first; copy_pg_to_pg inserts ON
\* CONFLICT DO NOTHING, which keeps a row that is already there.
Copy ==
    /\ Working("data_copy")
    /\ Source = "side_car" \/ mig.target = "side_car" => pg
    /\ store' = [store EXCEPT ![mig.target] =
                    IF Source = "duckdb" \/ @ = 0 THEN store[Source] ELSE @]
    /\ Update(After("data_copy"))
    /\ UNCHANGED <<yaml, flag, job, sentinel, app, api, apl, pg, written, gap>>

\* Bug: a mismatch does not stop the migration.
VerifyAlways ==
    /\ Working("verify")
    /\ Update("flip_backend")
    /\ UNCHANGED <<yaml, flag, job, sentinel, app, api, apl, pg, store, written, gap>>

\* verify_row_counts: source and target agree, as far as the counts and the
\* sample of 1000 rows tell.
Verify ==
    /\ Working("verify")
    /\ \/ /\ store[Source] = store[mig.target]
          /\ Update("flip_backend") /\ UNCHANGED gap
       \/ /\ store[Source] # store[mig.target]
          /\ Update("failed") /\ UNCHANGED gap
       \/ /\ store[Source] # store[mig.target] /\ "sample" \in Faults
          /\ Update("flip_backend") /\ Gap("sample")
    /\ UNCHANGED <<yaml, flag, job, sentinel, app, api, apl, pg, store, written>>

\* A table that could not be copied: the job is failed and the rest is left to
\* the applier.  A backup of the side-car that failed: failed, then reverted.
StageReports ==
    /\ \/ Working("data_copy") /\ Update("failed")
       \/ Working("alembic") /\ mig.source = "side_car" /\ Update("unsaved")
    /\ UNCHANGED <<yaml, flag, job, sentinel, app, api, apl, pg, store, written, gap>>

\* A stage raises: the overlay is reverted before the job is failed.  The flip does
\* so when the lock stays busy, for a cancel of this very job too.
StageRaises ==
    /\ \E s \in Stages : Working(s)
    /\ mig.next = "flip_backend" => api.pc # "idle"
    /\ mig' = [mig EXCEPT !.pc = "raise"]
    /\ UNCHANGED <<yaml, flag, job, sentinel, app, api, apl, pg, store, written, gap>>

\* Bug: the sentinel is not looked at again.
FlipUnchecked ==
    /\ mig.pc = "work" /\ mig.next = "flip_backend"
    /\ yaml' = [backend |-> mig.target, url |-> mig.target]
    /\ Update("success")
    /\ UNCHANGED <<flag, job, sentinel, app, api, apl, pg, store, written, gap>>

\* _flip_and_verify under the lock.
Flip ==
    /\ mig.pc = "work" /\ mig.next = "flip_backend"
    /\ api.pc = "idle"
    /\ IF mig.job \in sentinel \/ job[mig.job].status = "cancelled"
       THEN Update("cancelled") /\ UNCHANGED yaml
       ELSE Update("success") /\ yaml' = [backend |-> mig.target, url |-> mig.target]
    /\ UNCHANGED <<flag, job, sentinel, app, api, apl, pg, store, written, gap>>

\* The overlay back to the source, outside the lock: after a cancel as the
\* last thing, after an exception before mark_failed.
MigRevert ==
    /\ mig.pc \in {"revert", "raise"}
    /\ yaml' = [backend |-> mig.source, url |-> mig.surl]
    /\ IF mig.pc = "revert" THEN Exit("exit") ELSE Update("failed")
    /\ UNCHANGED <<flag, job, sentinel, app, api, apl, pg, store, written, gap>>

\* The container dies: by the watchdog or the OOM killer (137), or another way.
MigDies ==
    /\ mig.pc # "off"
    /\ \/ "kill" \in Faults /\ Exit("137") /\ UNCHANGED gap
       \/ "crash" \in Faults /\ Exit("exit") /\ UNCHANGED gap
       \/ "orphan" \in Faults /\ mig' = [mig EXCEPT !.rc = "137"] /\ Gap("orphan")
    /\ UNCHANGED <<yaml, flag, job, sentinel, app, api, apl, pg, store, written>>

-----------------------------------------------------------------------------
(* The applier: one tick at a time, under its own lock *)

\* A pending job older than an hour is failed; the overlay is left alone.
Expire(j) ==
    /\ "expire" \in Faults
    /\ apl.pc = "idle" /\ flag # None
    /\ job[j].status = "pending"
    /\ job' = [job EXCEPT ![j].status = "failed"]
    /\ Gap("wedged")
    /\ UNCHANGED <<yaml, flag, sentinel, app, api, mig, apl, pg, store, written>>

\* Without a flag the tick ends here.  Otherwise it notes the pending job.
Tick ==
    /\ apl.pc = "idle" /\ flag # None
    /\ \/ \E j \in Jobs : job[j].status = "pending" /\ apl' = [apl EXCEPT !.pc = "recover", !.flag = flag, !.job = j]
       \/ /\ \A j \in Jobs : job[j].status # "pending"
          /\ apl' = [apl EXCEPT !.pc = "recover", !.flag = flag, !.job = None]
    /\ UNCHANGED <<yaml, flag, job, sentinel, app, api, mig, pg, store, written, gap>>

\* Bug: the job is left running.
RecoverForgets(j) ==
    /\ apl.pc = "recover"
    /\ job[j].status = "running" /\ api.pc = "idle"
    /\ yaml' = [backend |-> job[j].source, url |-> job[j].surl]
    /\ app' = Started(apl.flag)
    /\ UNCHANGED <<flag, job, sentinel, api, mig, apl, pg, store, written, gap>>

\* _recover_stuck_jobs: no heartbeat for 120 s.  The source_url it restores is
\* the one write_initial dropped.
Recover(j) ==
    /\ apl.pc = "recover"
    /\ job[j].status = "running" /\ api.pc = "idle"
    /\ job' = [job EXCEPT ![j].status = "failed"]
    /\ yaml' = [backend |-> job[j].source, url |-> job[j].surl]
    /\ app' = Started(apl.flag)
    /\ IF job[j].source \in Pg THEN Gap("url")
       ELSE IF yaml.backend = job[j].target /\ store[job[j].target] # store[job[j].source] THEN Gap("unflip")
       ELSE UNCHANGED gap
    /\ UNCHANGED <<flag, sentinel, api, mig, apl, pg, store, written>>

\* The overlay cannot be rewritten: nothing is restarted.
RecoverRefused(j) ==
    /\ "refused" \in Faults
    /\ apl.pc = "recover" /\ job[j].status = "running"
    /\ job' = [job EXCEPT ![j].status = "failed"]
    /\ Gap("refused")
    /\ UNCHANGED <<yaml, flag, sentinel, app, api, mig, apl, pg, store, written>>

\* The side-car follows the flag, but is not stopped while a job is pending.
Lifecycle ==
    /\ apl.pc = "recover"
    /\ pg' = IF apl.flag = "side_car" THEN TRUE ELSE pg /\ apl.job # None
    /\ apl' = IF apl.job # None THEN [apl EXCEPT !.pc = "picked"] ELSE NoTick
    /\ IF pg /\ ~ pg' /\ yaml.backend = "side_car" THEN Gap("side_car") ELSE UNCHANGED gap
    /\ UNCHANGED <<yaml, flag, job, sentinel, app, api, mig, store, written>>

\* Postgres does not accept connections within 60 s: the tick is given up.
NotReady ==
    /\ "not_ready" \in Faults
    /\ apl.pc = "recover" /\ apl.flag = "side_car" /\ ~ pg
    /\ apl' = NoTick
    /\ UNCHANGED <<yaml, flag, job, sentinel, app, api, mig, pg, store, written, gap>>

\* The app is stopped, after the handler in flight, and the migrator is run.
Launch ==
    LET d == job[apl.job] IN
    /\ apl.pc = "picked" /\ api.pc = "idle"
    /\ \/ app' = [app EXCEPT !.up = FALSE]
       \/ "up" \in Faults /\ UNCHANGED app
    /\ apl' = [apl EXCEPT !.pc = "waiting", !.source = d.source, !.target = d.target, !.surl = d.surl]
    /\ mig' = [NoMigrator EXCEPT !.pc = "start", !.job = apl.job, !.source = d.source,
                                 !.target = d.target, !.surl = d.surl]
    /\ UNCHANGED <<yaml, flag, job, sentinel, api, pg, store, written, gap>>

\* docker run returned.
Returned == apl.pc = "waiting" /\ (mig.pc = "off" \/ mig.rc = "137")

\* What the applier takes the outcome for.
FinalStatus ==
    IF mig.rc = "137" \/ job[apl.job].status = "pending" THEN "failed" ELSE job[apl.job].status

\* Only the flag of a side-car source is kept.
FlagAfter == IF apl.source \in {"duckdb", "cloud"} THEN None ELSE flag

\* A rollback takes away the flag without which no tick looks at a job that was
\* queued meanwhile, or at this one if its migrator left it running.
FlagGap == IF FlagAfter = None
              /\ (FinalStatus = "running" \/ \E j \in Jobs \ {apl.job} : job[j].status = "pending")
           THEN Gap("flag") ELSE UNCHANGED gap

\* Bug: the source's url is not passed.
SettleWithoutUrl ==
    /\ Returned
    /\ job' = [job EXCEPT ![apl.job].status = FinalStatus]
    /\ IF FinalStatus = "success"
       THEN yaml' = [backend |-> apl.target, url |-> apl.target] /\ UNCHANGED <<flag, gap>>
       ELSE yaml' = [backend |-> apl.source, url |-> None] /\ flag' = FlagAfter /\ FlagGap
    /\ apl' = [NoTick EXCEPT !.pc = "restart", !.flag = apl.flag]
    /\ UNCHANGED <<sentinel, app, api, mig, pg, store, written>>

\* Success settles on the target; anything else rolls the overlay back.
Settle ==
    /\ Returned
    /\ job' = [job EXCEPT ![apl.job].status = FinalStatus]
    /\ IF FinalStatus = "success"
       THEN yaml' = [backend |-> apl.target, url |-> apl.target] /\ UNCHANGED <<flag, gap>>
       ELSE yaml' = [backend |-> apl.source, url |-> apl.surl] /\ flag' = FlagAfter /\ FlagGap
    /\ apl' = [NoTick EXCEPT !.pc = "restart", !.flag = apl.flag]
    /\ UNCHANGED <<sentinel, app, api, mig, pg, store, written>>

\* The rollback cannot be written: the app stays down.
SettleRefused ==
    /\ "refused" \in Faults
    /\ Returned /\ FinalStatus # "success"
    /\ job' = [job EXCEPT ![apl.job].status = "failed"]
    /\ apl' = NoTick
    /\ Gap("refused")
    /\ UNCHANGED <<yaml, flag, sentinel, app, api, mig, pg, store, written>>

\* app and scheduler are recreated, with the overlays of the flag the tick read.
Restart ==
    /\ apl.pc = "restart" /\ api.pc = "idle"
    /\ app' = Started(apl.flag)
    /\ apl' = NoTick
    /\ UNCHANGED <<yaml, flag, job, sentinel, api, mig, pg, store, written, gap>>

\* __rollback: a command of the script failed; the app is not restarted.
Abort ==
    /\ "abort" \in Faults
    /\ Returned
    /\ job' = [job EXCEPT ![apl.job].status = "failed"]
    /\ yaml' = [backend |-> apl.source, url |-> apl.surl]
    /\ flag' = FlagAfter /\ FlagGap
    /\ apl' = NoTick
    /\ UNCHANGED <<sentinel, app, api, mig, pg, store, written>>

\* A migration was begun and not settled.
Unfinished == yaml.backend \in Transient \/ \E j \in Jobs : Active(j)

\* The host reboots: every process ends, the boot script starts the app.
Reboot ==
    /\ "reboot" \in Faults
    /\ apl' = NoTick /\ mig' = NoMigrator /\ api' = NoHandler
    /\ app' = Started(yaml.backend)
    /\ IF Unfinished /\ ~ (flag # None /\ \E j \in Jobs : Active(j)) THEN Gap("wedged") ELSE UNCHANGED gap
    /\ UNCHANGED <<yaml, flag, job, sentinel, pg, store, written>>

-----------------------------------------------------------------------------

ApiNext == (\E j \in Jobs : (\E t \in Pg : StartMigration(j, t)) \/ Cancel(j))
           \/ WriteJob \/ WriteFlag \/ CancelWritesJob \/ CancelReverts

MigNext == MigStart \/ MigRead \/ MigWrite \/ MigPoll \/ MigDropped \/ BackupCancelled \/ Prepare \/ Copy \/ Verify
           \/ StageReports \/ StageRaises \/ Flip \/ MigRevert

AplNext == Tick \/ (\E j \in Jobs : Recover(j)) \/ Lifecycle \/ Launch \/ Settle \/ Restart

FaultNext == MigDies \/ (\E j \in Jobs : Expire(j) \/ RecoverRefused(j)) \/ NotReady
             \/ SettleRefused \/ Abort \/ Reboot

Next == AppWrite \/ AppStart \/ ApiNext \/ MigNext \/ AplNext \/ FaultNext

Spec == Init /\ [][Next]_vars

\* Handlers and the migrator run on, the timer fires, Postgres gets ready now
\* and then, a dead migrator's heartbeat grows old, and the host stays up.
Fairness ==
    /\ WF_vars(WriteJob \/ WriteFlag \/ CancelWritesJob \/ CancelReverts)
    /\ WF_vars(MigNext)
    /\ WF_vars(Tick \/ Launch \/ Settle \/ Restart)
    /\ SF_vars(Lifecycle) /\ SF_vars(\E j \in Jobs : Recover(j))
    /\ <>[][~ Reboot]_vars

FairSpec == Spec /\ Fairness

\* A running app without a url of its own falls back on DATABASE_URL while the
\* overlay says in progress.
OnTheEnvironment == app.up /\ Seen.backend \in Transient /\ Seen.url = None /\ app.env # None

\* The runs that look for what holds stop at the known gaps.
Protected == gap = None /\ ~ OnTheEnvironment

-----------------------------------------------------------------------------
(* Properties *)

Docs == [status: {"absent", "pending", "running"} \cup Terminal, step: {"queued", "validate"} \cup Stages,
         source: Stable \cup Transient \cup {None}, target: Pg \cup {None}, surl: Pg \cup {None}]

\* The variables keep their types.
TypeOK ==
    /\ yaml \in [backend: Stable \cup Transient, url: Pg \cup {None}]
    /\ flag \in Pg \cup {None}
    /\ job \in [Jobs -> Docs]
    /\ sentinel \subseteq Jobs
    /\ app.up \in BOOLEAN /\ app.env \in {"side_car", None}
    /\ api.pc \in {"idle", "job", "flag", "cancel", "revert"} /\ api.doc \in Docs
    /\ mig.pc \in {"off", "start", "read", "write", "poll", "work", "revert", "raise"} /\ mig.doc \in Docs
    /\ apl.pc \in {"idle", "recover", "picked", "waiting", "restart"}
    /\ pg \in BOOLEAN
    /\ store \in [Stable -> 0 .. MaxWrites] /\ written \in 1 .. MaxWrites
    /\ gap \in Gaps \cup {None}

\* A migration whose cancel was accepted never flips: no interleaving of the
\* cancel handler's three writes with the migrator's unlocked rewrites of the
\* same JSON ends in success.
CancelHonoured == \A j \in sentinel : job[j].status # "success"

\* Whatever store the application runs on holds the last write it accepted.
LastWriteSeen ==
    LET s == StoreOf(Seen) IN
    app.up /\ s # None => store[s] = written

\* Outside the known gaps no write is lost across failed, cancelled, killed and
\* repeated migrations.
NoLostWrite == Protected => LastWriteSeen

\* Outside the known gaps a settled backend comes with its own url, and DuckDB
\* with none, whichever of the rollback paths wrote it.
UrlFollowsBackend ==
    Protected /\ yaml.backend \in Stable =>
        yaml.url = IF yaml.backend = "duckdb" THEN None ELSE yaml.backend

\* A behaviour that meets none of the known gaps settles every migration it
\* begins, whatever is killed, aborted or rebooted on the way: "*_in_progress" and
\* a queued or running job are not for ever.  The gaps do include ends that
\* nothing recovers from: a migrator that died outside the watchdog while the
\* rollback removed the flag ("flag"), an expired job or a reboot that leaves
\* no tick to look ("wedged"), an overlay that could not be written ("refused").
Settles == []Protected => (Unfinished ~> ~ Unfinished)

\* The applier never stops the side-car that the overlay names as the backend.
LiveSideCarKept == [][pg /\ ~ pg' => yaml.backend # "side_car"]_vars
=============================================================================
