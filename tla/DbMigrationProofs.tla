------------------------- MODULE DbMigrationProofs --------------------------
(***************************************************************************)
(* Proofs about DbMigration: a cancelled migration never flips; a settled   *)
(* backend comes with its own url; no write of the application is lost       *)
(* outside the known gaps.                                                  *)
(***************************************************************************)
EXTENDS DbMigration, TLAPS

-----------------------------------------------------------------------------
(* Which action writes which variable *)

\* The actions that write the overlay.
LEMMA YamlWriters ==
    ASSUME [Next]_vars
    PROVE  \/ yaml' = yaml
           \/ \E j \in Jobs : (\E t \in Pg : StartMigration(j, t)) \/ Recover(j)
           \/ CancelReverts \/ Flip \/ MigRevert \/ Settle \/ Abort
BY DEF Next, vars, AppWrite, AppStart, ApiNext, Cancel, WriteJob, WriteFlag, CancelWritesJob,
   MigNext, MigStart, MigRead, MigWrite, MigPoll, BackupCancelled, MigDropped, Prepare, Copy, Verify,
   StageReports, StageRaises, AplNext, Tick, Lifecycle, Launch, Restart, FaultNext, MigDies,
   Expire, RecoverRefused, NotReady, SettleRefused, Reboot

\* ... a job's JSON,
LEMMA JobWriters ==
    ASSUME [Next]_vars
    PROVE  \/ job' = job
           \/ \E j \in Jobs : Recover(j) \/ Expire(j) \/ RecoverRefused(j)
           \/ WriteJob \/ CancelWritesJob \/ MigStart \/ MigWrite \/ Settle \/ SettleRefused \/ Abort
BY DEF Next, vars, AppWrite, AppStart, ApiNext, StartMigration, Cancel, WriteFlag, CancelReverts,
   MigNext, MigRead, MigPoll, BackupCancelled, MigDropped, Prepare, Copy, Verify, Flip, MigRevert,
   StageReports, StageRaises, AplNext, Tick, Lifecycle, Launch, Restart, FaultNext, MigDies,
   NotReady, Reboot

\* ... the handler,
LEMMA ApiWriters ==
    ASSUME [Next]_vars
    PROVE  \/ api' = api
           \/ \E j \in Jobs : (\E t \in Pg : StartMigration(j, t)) \/ Cancel(j)
           \/ WriteJob \/ WriteFlag \/ CancelWritesJob \/ CancelReverts \/ Reboot
BY DEF Next, vars, AppWrite, AppStart, ApiNext, MigNext, MigStart, MigRead, MigWrite, MigPoll, BackupCancelled,
   MigDropped, Prepare, Copy, Verify, Flip, MigRevert, StageReports, StageRaises, AplNext, Tick,
   Recover, Lifecycle, Launch, Settle, Restart, FaultNext, MigDies, Expire, RecoverRefused,
   NotReady, SettleRefused, Abort

\* ... the migrator,
LEMMA MigWriters ==
    ASSUME [Next]_vars
    PROVE  mig' = mig \/ MigNext \/ Launch \/ MigDies \/ Reboot
BY DEF Next, vars, AppWrite, AppStart, ApiNext, StartMigration, Cancel, WriteJob, WriteFlag,
   CancelWritesJob, CancelReverts, AplNext, Tick, Recover, Lifecycle, Settle, Restart, FaultNext,
   Expire, RecoverRefused, NotReady, SettleRefused, Abort

\* ... the applier's tick,
LEMMA AplWriters ==
    ASSUME [Next]_vars
    PROVE  apl' = apl \/ Tick \/ Lifecycle \/ Launch \/ Settle \/ Restart \/ NotReady \/ SettleRefused
           \/ Abort \/ Reboot
BY DEF Next, vars, AppWrite, AppStart, ApiNext, StartMigration, Cancel, WriteJob, WriteFlag,
   CancelWritesJob, CancelReverts, MigNext, MigStart, MigRead, MigWrite, MigPoll, BackupCancelled, MigDropped,
   Prepare, Copy, Verify, Flip, MigRevert, StageReports, StageRaises, AplNext, Recover, FaultNext,
   MigDies, Expire, RecoverRefused

\* ... the app container,
LEMMA AppWriters ==
    ASSUME [Next]_vars
    PROVE  \/ app' = app
           \/ \E j \in Jobs : (\E t \in Pg : StartMigration(j, t)) \/ Recover(j)
           \/ AppWrite \/ AppStart \/ CancelReverts \/ Launch \/ Restart \/ Reboot
BY DEF Next, vars, ApiNext, Cancel, WriteJob, WriteFlag, CancelWritesJob, MigNext, MigStart,
   MigRead, MigWrite, MigPoll, BackupCancelled, MigDropped, Prepare, Copy, Verify, Flip, MigRevert,
   StageReports, StageRaises, AplNext, Tick, Lifecycle, Settle, FaultNext, MigDies, Expire,
   RecoverRefused, NotReady, SettleRefused, Abort

\* ... a store, the sentinels,
LEMMA StoreWriters ==
    ASSUME [Next]_vars
    PROVE  \/ UNCHANGED <<store, written, sentinel>>
           \/ AppWrite \/ Copy \/ \E j \in Jobs : Cancel(j)
BY DEF Next, vars, AppStart, ApiNext, StartMigration, WriteJob, WriteFlag, CancelWritesJob,
   CancelReverts, MigNext, MigStart, MigRead, MigWrite, MigPoll, BackupCancelled, MigDropped, Prepare, Verify,
   Flip, MigRevert, StageReports, StageRaises, AplNext, Tick, Recover, Lifecycle, Launch, Settle,
   Restart, FaultNext, MigDies, Expire, RecoverRefused, NotReady, SettleRefused, Abort, Reboot

\* ... the flag and the side-car container.
LEMMA FlagWriters ==
    ASSUME [Next]_vars
    PROVE  UNCHANGED <<flag, pg>> \/ WriteFlag \/ Lifecycle \/ Settle \/ Abort
BY DEF Next, vars, AppWrite, AppStart, ApiNext, StartMigration, Cancel, WriteJob, CancelWritesJob,
   CancelReverts, MigNext, MigStart, MigRead, MigWrite, MigPoll, BackupCancelled, MigDropped, Prepare, Copy,
   Verify, Flip, MigRevert, StageReports, StageRaises, AplNext, Tick, Recover, Launch,
   Restart, FaultNext, MigDies, Expire, RecoverRefused, NotReady, SettleRefused, Reboot

-----------------------------------------------------------------------------
(* Types *)

Backs == Stable \cup Transient
Urls == Pg \cup {None}
Nexts == Stages \cup {"success", "failed", "cancelled", "dropped", "unsaved"}

\* A document of a migration that was queued.
Named(d) == d \in Docs /\ d.status # "absent" /\ d.source \in Backs /\ d.target \in Pg

\* A source in Postgres has a url.
Reachable(d) == d.source \in Pg => d.surl \in Pg

YamlType == yaml \in [backend: Backs, url: Urls]

JobType ==
    /\ job \in [Jobs -> Docs]
    /\ \A j \in Jobs : /\ job[j].status # "absent" => Named(job[j])
                       /\ job[j].status = "pending" => Reachable(job[j])

ApiType ==
    /\ api \in [pc: {"idle", "job", "flag", "cancel", "revert"}, job: Jobs \cup {None}, doc: Docs]
    /\ api.pc # "idle" => api.job \in Jobs /\ Named(api.doc)
    /\ api.pc = "job" => api.doc.status = "pending" /\ Reachable(api.doc)

MigType ==
    /\ mig \in [pc: {"off", "start", "read", "write", "poll", "work", "revert", "raise"}, job: Jobs \cup {None},
                source: Backs \cup {None}, target: Pg \cup {None}, surl: Urls,
                next: Nexts \cup {None}, doc: Docs, rc: {"exit", "137"}]
    /\ mig.pc # "off" => mig.job \in Jobs /\ mig.source \in Backs /\ mig.target \in Pg /\ Reachable(mig)
    /\ mig.pc \notin {"off", "start"} => mig.source \in Stable /\ mig.next \in Nexts
    /\ mig.pc \in {"poll", "work"} => mig.next \in Stages
    /\ mig.pc = "poll" => mig.next # "flip_backend"
    /\ mig.pc = "write" => Named(mig.doc) /\ mig.doc.status # "pending"

AplType ==
    /\ apl \in [pc: {"idle", "recover", "picked", "waiting", "restart"}, job: Jobs \cup {None}, flag: Urls,
                source: Backs \cup {None}, target: Pg \cup {None}, surl: Urls]
    /\ apl.pc = "picked" => apl.job \in Jobs
    /\ apl.pc = "waiting" => apl.job \in Jobs /\ apl.source \in Backs /\ apl.target \in Pg

AppType ==
    /\ app.up \in BOOLEAN /\ app.env \in {"side_car", None}
    /\ app = [up |-> app.up, seen |-> app.seen, env |-> app.env]
    /\ app.seen = Unread \/ app.seen \in [backend: Backs, url: Urls]

RestType ==
    /\ flag \in Urls /\ pg \in BOOLEAN
    /\ sentinel \subseteq Jobs
    /\ store \in [Stable -> 0 .. MaxWrites] /\ written \in 1 .. MaxWrites
    /\ gap \in Gaps \cup {None}

DbType == YamlType /\ JobType /\ ApiType /\ MigType /\ AplType /\ AppType /\ RestType

\* A cancel and the migrator work on a job that was queued and is not done; the
\* flip comes after the step that makes a cancel too late.
CancelInv ==
    /\ \A j \in sentinel : job[j].status \notin {"success", "absent", "pending"}
    /\ mig.pc # "off" =>
           /\ job[mig.job].status \notin {"absent", "success"}
           /\ job[mig.job].status = "pending" => mig.pc = "start" /\ apl.pc = "waiting" /\ apl.job = mig.job
    /\ mig.pc = "write" => mig.doc.status \notin {"absent", "success", "pending"}
    /\ mig.pc \in {"read", "write"} /\ mig.next = "success" =>
           /\ job[mig.job].step = "flip_backend" /\ mig.job \notin sentinel
           /\ mig.pc = "write" => mig.doc.step = "flip_backend"
    /\ mig.pc = "work" /\ mig.next = "flip_backend" =>
           job[mig.job].step = "flip_backend" \/ mig.job \in sentinel
    /\ api.pc \in {"cancel", "revert"} => api.job \in sentinel
    /\ api.pc = "job" => job[api.job].status = "absent"
    /\ apl.pc \in {"recover", "picked"} /\ apl.job # None => apl.job \in Jobs /\ job[apl.job].status = "pending"
    /\ apl.pc = "waiting" => job[apl.job].status # "absent"

\* The names of the backends differ from each other and from None.
LEMMA Names ==
    /\ None \notin Backs /\ None \notin Pg /\ None \notin Jobs
    /\ Pg \subseteq Stable /\ Stable \subseteq Backs /\ Transient \subseteq Backs
    /\ \A t \in Pg : InProgress(t) \in Transient
    /\ Stable \cap Transient = {}
    /\ Stages \subseteq Nexts
<1>1. Stable = {"side_car", "cloud", "duckdb"} /\ Transient = {"side_car_in_progress", "cloud_in_progress"}
  BY DEF Stable, Transient, Pg, InProgress
<1>3. None \notin Backs /\ None \notin Pg /\ None \notin Jobs
  BY NoneAssumption DEF Backs, Stable
<1>5. \A t \in Pg : InProgress(t) \in Transient
  BY DEF Transient
<1>6. Stable \cap Transient = {}
  BY <1>1
<1> QED
  BY <1>3, <1>5, <1>6 DEF Backs, Stable, Nexts

LEMMA DocTypes ==
    /\ NoJob \in Docs /\ NoJob.status = "absent"
    /\ NoHandler \in [pc: {"idle", "job", "flag", "cancel", "revert"}, job: Jobs \cup {None}, doc: Docs]
    /\ NoHandler.pc = "idle"
    /\ NoTick \in [pc: {"idle", "recover", "picked", "waiting", "restart"}, job: Jobs \cup {None}, flag: Urls,
                   source: Backs \cup {None}, target: Pg \cup {None}, surl: Urls]
    /\ NoTick.pc = "idle"
    /\ NoMigrator \in [pc: {"off", "start", "read", "write", "poll", "work", "revert", "raise"}, job: Jobs \cup {None},
                       source: Backs \cup {None}, target: Pg \cup {None}, surl: Urls,
                       next: Nexts \cup {None}, doc: Docs, rc: {"exit", "137"}]
    /\ NoMigrator.pc = "off"
    /\ \A b \in Backs : Started(b).seen = Unread /\ Started(b).up = TRUE
<1>1. NoJob \in Docs /\ NoJob.status = "absent"
  BY DEF NoJob, Docs
<1> QED
  BY <1>1 DEF NoHandler, NoTick, NoMigrator, Urls, Started

\* A cancelled migration has not flipped, at the start.
LEMMA InitMigration == Init => DbType /\ CancelInv
<1> SUFFICES ASSUME Init PROVE DbType /\ CancelInv
  OBVIOUS
<1> USE DocTypes, Names, MigrationAssumption
<1>1. PICK b \in Stable :
        /\ yaml = [backend |-> b, url |-> IF b = "duckdb" THEN None ELSE b]
        /\ flag = IF b = "duckdb" THEN None ELSE b
        /\ app = [up |-> TRUE, seen |-> Unread, env |-> IF b = "side_car" THEN b ELSE None]
        /\ store = [s \in Stable |-> IF s = b THEN 1 ELSE 0]
        /\ pg = (b = "side_car")
  BY DEF Init
<1>2. job = [j \in Jobs |-> NoJob] /\ sentinel = {} /\ api = NoHandler /\ mig = NoMigrator /\ apl = NoTick
      /\ written = 1 /\ gap = None
  BY DEF Init
<1>3. (IF b = "duckdb" THEN None ELSE b) \in Urls
  BY DEF Stable, Urls
<1>4. YamlType
  BY <1>1, <1>3 DEF YamlType
<1>5. AppType
  BY <1>1 DEF AppType
<1>6. RestType
  BY <1>1, <1>2, <1>3 DEF RestType, Urls
<1>7. JobType
  BY <1>2 DEF JobType
<1>8. ApiType
  BY <1>2 DEF ApiType
<1>9. MigType
  BY <1>2 DEF MigType
<1>10. AplType
  BY <1>2 DEF AplType
<1>11. CancelInv
  BY <1>2 DEF CancelInv
<1> QED
  BY <1>4, <1>5, <1>6, <1>7, <1>8, <1>9, <1>10, <1>11 DEF DbType

\* The overlay an application sees is one that was written.
LEMMA SeenType == ASSUME YamlType, AppType PROVE Seen \in [backend: Backs, url: Urls]
BY DEF YamlType, AppType, Seen

\* The overlay.
LEMMA YamlTyped == ASSUME DbType, CancelInv, [Next]_vars PROVE YamlType'
<1> USE Names DEF DbType
<1>1. CASE yaml' = yaml
  BY <1>1 DEF YamlType
<1>2. ASSUME NEW j \in Jobs, NEW t \in Pg, StartMigration(j, t) PROVE YamlType'
  BY <1>2 DEF StartMigration, YamlType
<1>3. ASSUME NEW j \in Jobs, Recover(j) PROVE YamlType'
  <2>1. job[j] \in Docs /\ Named(job[j])
    BY <1>3 DEF Recover, JobType
  <2> QED
    BY <1>3, <2>1 DEF Recover, YamlType, Named, Docs, Urls
<1>4. CASE CancelReverts
  <2>1. api.doc.source \in Backs
    BY <1>4 DEF CancelReverts, ApiType, Named
  <2> QED
    BY <1>4, <2>1 DEF CancelReverts, YamlType, Urls
<1>5. CASE Flip
  <2>1. mig.target \in Pg
    BY <1>5 DEF Flip, MigType
  <2> QED
    BY <1>5, <2>1 DEF Flip, YamlType, Urls, Backs, Stable
<1>6. CASE MigRevert
  <2>1. mig.source \in Backs /\ mig.surl \in Urls
    BY <1>6 DEF MigRevert, MigType
  <2> QED
    BY <1>6, <2>1 DEF MigRevert, YamlType
<1>7. CASE Settle \/ Abort
  <2>1. apl.source \in Backs /\ apl.target \in Pg /\ apl.surl \in Urls
    BY <1>7 DEF Settle, Abort, Returned, AplType
  <2> QED
    BY <1>7, <2>1 DEF Settle, Abort, YamlType, Urls, Backs, Stable
<1> QED
  BY <1>1, <1>2, <1>3, <1>4, <1>5, <1>6, <1>7, YamlWriters

\* A field of a document that changes.
LEMMA DocKept ==
    ASSUME NEW d \in Docs, NEW s \in {"absent", "pending", "running"} \cup Terminal
    PROVE  /\ [d EXCEPT !.status = s] \in Docs
           /\ [d EXCEPT !.status = s].source = d.source /\ [d EXCEPT !.status = s].target = d.target
           /\ [d EXCEPT !.status = s].surl = d.surl /\ [d EXCEPT !.status = s].step = d.step
           /\ [d EXCEPT !.status = s].status = s
BY DEF Docs

\* One job's document that is replaced.
LEMMA JobStep ==
    ASSUME JobType, NEW j \in Jobs, NEW d \in Docs, job' = [job EXCEPT ![j] = d],
           d.status # "absent" => Named(d), d.status = "pending" => Reachable(d)
    PROVE  JobType'
BY DEF JobType

\* ... by one of another status.
LEMMA StatusStep ==
    ASSUME JobType, NEW j \in Jobs, NEW s \in {"running"} \cup Terminal,
           job' = [job EXCEPT ![j].status = s], job[j].status # "absent"
    PROVE  JobType'
<1> DEFINE d == [job[j] EXCEPT !.status = s]
<1>1. job[j] \in Docs /\ Named(job[j]) /\ job' = [job EXCEPT ![j] = d]
  BY DEF JobType
<1>2. d \in Docs /\ d.status = s /\ d.source = job[j].source /\ d.target = job[j].target
  BY <1>1, DocKept
<1>3. Named(d) /\ d.status # "pending"
  BY <1>1, <1>2 DEF Named, Terminal
<1> HIDE DEF d
<1> QED
  BY <1>1, <1>2, <1>3, JobStep

\* What the applier takes the outcome for is a status it may write.
LEMMA FinalIs ==
    ASSUME DbType, CancelInv, Returned
    PROVE  /\ apl.job \in Jobs /\ job[apl.job].status # "absent"
           /\ FinalStatus \in {"running"} \cup Terminal
<1>1. apl.job \in Jobs /\ job[apl.job] \in Docs /\ job[apl.job].status # "absent"
  BY DEF DbType, JobType, AplType, CancelInv, Returned
<1> QED
  BY <1>1 DEF FinalStatus, Docs, Terminal

\* The documents.
LEMMA JobTyped == ASSUME DbType, CancelInv, [Next]_vars PROVE JobType'
<1> USE Names DEF DbType
<1>0. job \in [Jobs -> Docs]
  BY DEF JobType
<1>1. CASE job' = job
  BY <1>1 DEF JobType
<1>2. ASSUME NEW j \in Jobs, Recover(j) \/ Expire(j) \/ RecoverRefused(j) PROVE JobType'
  <2>1. job' = [job EXCEPT ![j].status = "failed"] /\ job[j].status # "absent"
    BY <1>2 DEF Recover, Expire, RecoverRefused
  <2> QED
    BY <2>1, StatusStep DEF Terminal
<1>3. CASE WriteJob
  BY <1>3, JobStep DEF WriteJob, ApiType
<1>4. CASE CancelWritesJob
  <2> DEFINE d == [api.doc EXCEPT !.status = "cancelled"]
  <2>1. api.job \in Jobs /\ Named(api.doc) /\ api.doc \in Docs /\ job' = [job EXCEPT ![api.job] = d]
    BY <1>4 DEF CancelWritesJob, ApiType
  <2>2. d \in Docs /\ d.status = "cancelled" /\ d.source = api.doc.source /\ d.target = api.doc.target
    BY <2>1, DocKept DEF Terminal
  <2> HIDE DEF d
  <2> QED
    BY <2>1, <2>2, JobStep DEF Named
<1>5. CASE MigStart
  <2>1. CASE mig.source \in Stable
    <3> DEFINE d == [status |-> "running", step |-> "validate", source |-> mig.source,
                     target |-> mig.target, surl |-> None]
    <3>1. mig.job \in Jobs /\ mig.target \in Pg /\ job' = [job EXCEPT ![mig.job] = d]
      BY <1>5, <2>1 DEF MigStart, MigType
    <3>2. d \in Docs /\ Named(d) /\ d.status = "running"
      BY <2>1, <3>1 DEF Docs, Named, Backs
    <3> HIDE DEF d
    <3> QED
      BY <3>1, <3>2, JobStep
  <2>2. CASE mig.source \notin Stable
    BY <1>5, <2>2 DEF MigStart, JobType
  <2> QED
    BY <2>1, <2>2
<1>6. CASE MigWrite
  <2>1. mig.job \in Jobs /\ Named(mig.doc) /\ mig.doc \in Docs /\ mig.next \in Nexts
        /\ mig.doc.status # "pending"
    BY <1>6 DEF MigWrite, MigType
  <2>2. CASE mig.next \in Stages
    <3> DEFINE d == [mig.doc EXCEPT !.step = mig.next]
    <3>1. job' = [job EXCEPT ![mig.job] = d]
      BY <1>6, <2>2 DEF MigWrite
    <3>2. d \in Docs /\ d.status = mig.doc.status /\ d.source = mig.doc.source /\ d.target = mig.doc.target
      BY <2>1, <2>2 DEF Docs
    <3> HIDE DEF d
    <3> QED
      BY <2>1, <3>1, <3>2, JobStep DEF Named
  <2>3. CASE mig.next \notin Stages
    <3> DEFINE d == [mig.doc EXCEPT !.status = StatusOf(mig.next)]
    <3>1. job' = [job EXCEPT ![mig.job] = d]
      BY <1>6, <2>3 DEF MigWrite
    <3>2. StatusOf(mig.next) \in Terminal
      BY <2>1, <2>3 DEF Nexts, StatusOf, Terminal
    <3>3. d \in Docs /\ d.status \in Terminal /\ d.source = mig.doc.source /\ d.target = mig.doc.target
      BY <2>1, <3>2, DocKept
    <3> HIDE DEF d
    <3> QED
      BY <2>1, <3>1, <3>3, JobStep DEF Named, Terminal
  <2> QED
    BY <2>2, <2>3
<1>7. CASE Settle
  <2>1. Returned /\ job' = [job EXCEPT ![apl.job].status = FinalStatus]
    BY <1>7 DEF Settle
  <2> QED
    BY <2>1, FinalIs, StatusStep
<1>8. CASE SettleRefused \/ Abort
  <2>1. Returned /\ job' = [job EXCEPT ![apl.job].status = "failed"]
    BY <1>8 DEF SettleRefused, Abort
  <2> QED
    BY <2>1, FinalIs, StatusStep DEF Terminal
<1> QED
  BY <1>1, <1>2, <1>3, <1>4, <1>5, <1>6, <1>7, <1>8, JobWriters

\* The handler.
LEMMA ApiTyped == ASSUME DbType, CancelInv, [Next]_vars PROVE ApiType'
<1> USE Names, DocTypes DEF DbType
<1>0. NoHandler.pc = "idle"
  BY DEF NoHandler
<1>1. CASE api' = api
  BY <1>1 DEF ApiType
<1>2. ASSUME NEW j \in Jobs, NEW t \in Pg, StartMigration(j, t) PROVE ApiType'
  <2> DEFINE u == IF Seen.backend \in Pg THEN Seen.url ELSE None
             d == [status |-> "pending", step |-> "queued", source |-> Seen.backend, target |-> t, surl |-> u]
  <2>1. Seen.backend \in Backs /\ Seen.url \in Urls
    BY SeenType
  <2>2. api' = [pc |-> "job", job |-> j, doc |-> d] /\ (Seen.backend \in Pg => Seen.url # None)
    BY <1>2 DEF StartMigration
  <2>3. d.source \in Pg => d.surl \in Pg
    BY <2>1, <2>2 DEF Urls
  <2>4. d.surl \in Urls
    BY <2>1 DEF Urls
  <2>5. d \in Docs /\ d.status = "pending" /\ d.source \in Backs /\ d.target \in Pg
    BY <2>1, <2>4 DEF Docs, Urls, Backs
  <2> HIDE DEF d
  <2> QED
    BY <2>2, <2>3, <2>5 DEF ApiType, Named, Reachable
<1>3. ASSUME NEW j \in Jobs, Cancel(j) PROVE ApiType'
  <2>1. job[j] \in Docs /\ Named(job[j]) /\ api' = [pc |-> "cancel", job |-> j, doc |-> job[j]]
    BY <1>3 DEF Cancel, JobType
  <2> QED
    BY <2>1 DEF ApiType
<1>4. CASE WriteJob
  BY <1>4 DEF WriteJob, ApiType
<1>5. CASE CancelWritesJob
  BY <1>5 DEF CancelWritesJob, ApiType
<1>6. CASE WriteFlag \/ CancelReverts \/ Reboot
  BY <1>0, <1>6 DEF WriteFlag, CancelReverts, Reboot, ApiType
<1> QED
  BY <1>1, <1>2, <1>3, <1>4, <1>5, <1>6, ApiWriters

\* The migrator.
LEMMA MigTyped == ASSUME DbType, CancelInv, [Next]_vars PROVE MigType'
<1> USE Names, DocTypes DEF DbType
<1>0. mig \in [pc: {"off", "start", "read", "write", "poll", "work", "revert", "raise"}, job: Jobs \cup {None},
               source: Backs \cup {None}, target: Pg \cup {None}, surl: Urls,
               next: Nexts \cup {None}, doc: Docs, rc: {"exit", "137"}]
  BY DEF MigType
<1>1. CASE mig' = mig
  BY <1>1 DEF MigType
<1>a. ASSUME NEW rc \in {"exit", "137"}, Exit(rc) PROVE MigType'
  <2>1. mig' = [NoMigrator EXCEPT !.rc = rc]
    BY <1>a DEF Exit
  <2>2. mig'.pc = "off"
    BY <2>1
  <2> QED
    BY <2>1, <2>2 DEF MigType
<1>b. ASSUME NEW n \in Nexts, Update(n), mig.pc # "off", mig.source \in Stable PROVE MigType'
  <2>1. mig' = [mig EXCEPT !.pc = "read", !.next = n]
    BY <1>b DEF Update
  <2> QED
    BY <1>b, <2>1 DEF MigType, Reachable
<1>2. CASE MigStart
  <2>1. CASE mig.source \in Stable
    BY <1>2, <1>b, <2>1 DEF MigStart, Nexts, Stages
  <2>2. CASE mig.source \notin Stable
    BY <1>2, <1>a, <2>2 DEF MigStart
  <2> QED
    BY <2>1, <2>2
<1>3. CASE MigRead
  <2>1. mig.job \in Jobs /\ job[mig.job] \in Docs /\ Named(job[mig.job]) /\ job[mig.job].status # "pending"
    BY <1>3 DEF MigRead, MigType, JobType, CancelInv
  <2>2. mig' = [mig EXCEPT !.pc = "write", !.doc = job[mig.job]] /\ mig.pc = "read"
    BY <1>3 DEF MigRead
  <2> QED
    BY <1>0, <2>1, <2>2 DEF MigType, Reachable
<1>4. CASE MigWrite
  <2>1. CASE mig.next \in {"success", "failed", "dropped"}
    BY <1>4, <1>a, <2>1 DEF MigWrite
  <2>2. CASE mig.next \notin {"success", "failed", "dropped"}
    <3>1. mig' = [mig EXCEPT !.doc = NoJob,
                             !.pc = IF mig.next = "flip_backend" THEN "work"
                                    ELSE IF mig.next \in Stages THEN "poll" ELSE "revert"]
          /\ mig.pc = "write"
      BY <1>4, <2>2 DEF MigWrite
    <3>2. "flip_backend" \in Stages
      BY DEF Stages
    <3> QED
      BY <1>0, <3>1, <3>2, ZenonT(30) DEF MigType, Reachable
  <2> QED
    BY <2>1, <2>2
<1>11. CASE MigPoll
  <2>1. CASE mig.job \in sentinel
    BY <1>11, <1>b, <2>1 DEF MigPoll, MigType, Nexts
  <2>2. CASE mig.job \notin sentinel
    <3>1. mig' = [mig EXCEPT !.pc = "work"] /\ mig.pc = "poll"
      BY <1>11, <2>2 DEF MigPoll
    <3> QED
      BY <1>0, <3>1 DEF MigType, Reachable
  <2> QED
    BY <2>1, <2>2
<1>5. CASE BackupCancelled \/ MigDropped \/ Prepare \/ Copy \/ Verify \/ StageReports \/ Flip
  <2>1. \E n \in Nexts : Update(n)
    BY <1>5 DEF MigPoll, BackupCancelled, MigDropped, Prepare, Copy, Verify, StageReports, Flip, After, Nexts, Stages
  <2>2. mig.pc \in {"read", "work"}
    BY <1>5 DEF MigPoll, BackupCancelled, MigDropped, Prepare, Copy, Verify, StageReports, Flip, Working
  <2> QED
    BY <1>b, <2>1, <2>2 DEF MigType
<1>6. CASE StageRaises
  <2>1. mig.pc = "work" /\ mig' = [mig EXCEPT !.pc = "raise"]
    BY <1>6 DEF StageRaises, Working
  <2> QED
    BY <1>0, <2>1 DEF MigType, Reachable
<1>7. CASE MigRevert
  <2>1. CASE mig.pc = "revert"
    BY <1>7, <1>a, <2>1 DEF MigRevert
  <2>2. CASE mig.pc # "revert"
    BY <1>7, <1>b, <2>2 DEF MigRevert, MigType, Nexts
  <2> QED
    BY <2>1, <2>2
<1>8. CASE Launch
  <2> DEFINE d == job[apl.job]
  <2>1. apl.job \in Jobs /\ d \in Docs /\ Named(d) /\ Reachable(d)
    BY <1>8 DEF Launch, JobType, AplType, CancelInv
  <2>2. mig' = [NoMigrator EXCEPT !.pc = "start", !.job = apl.job, !.source = d.source,
                                  !.target = d.target, !.surl = d.surl]
    BY <1>8 DEF Launch
  <2>3. d.source \in Backs /\ d.target \in Pg /\ d.surl \in Urls
    BY <2>1 DEF Named, Docs, Urls
  <2> QED
    BY <2>1, <2>2, <2>3 DEF MigType, Reachable
<1>9. CASE MigDies
  <2>1. CASE Exit("137") \/ Exit("exit")
    BY <1>a, <2>1
  <2>2. CASE mig' = [mig EXCEPT !.rc = "137"]
    BY <1>0, <2>2 DEF MigType, Reachable
  <2> QED
    BY <1>9, <2>1, <2>2 DEF MigDies
<1>10. CASE Reboot
  BY <1>10 DEF Reboot, MigType
<1> QED
  BY <1>1, <1>2, <1>3, <1>4, <1>5, <1>6, <1>7, <1>8, <1>9, <1>10, <1>11, MigWriters DEF MigNext

\* The applier's tick.
LEMMA AplTyped == ASSUME DbType, CancelInv, [Next]_vars PROVE AplType'
<1> USE Names, DocTypes DEF DbType
<1>0. apl \in [pc: {"idle", "recover", "picked", "waiting", "restart"}, job: Jobs \cup {None}, flag: Urls,
               source: Backs \cup {None}, target: Pg \cup {None}, surl: Urls] /\ flag \in Urls
  BY DEF AplType, RestType
<1>1. CASE apl' = apl
  BY <1>1 DEF AplType
<1>a. apl' = NoTick => AplType'
  BY DEF AplType
<1>2. CASE Tick
  BY <1>0, <1>2, ZenonT(40) DEF Tick, AplType
<1>3. CASE Lifecycle
  <2>1. CASE apl.job = None
    BY <1>3, <1>a, <2>1 DEF Lifecycle
  <2>2. CASE apl.job # None
    BY <1>0, <1>3, <2>2 DEF Lifecycle, AplType
  <2> QED
    BY <2>1, <2>2
<1>4. CASE Launch
  <2> DEFINE d == job[apl.job]
  <2>1. apl.job \in Jobs /\ d \in Docs /\ Named(d)
    BY <1>4 DEF Launch, JobType, AplType, CancelInv
  <2>2. apl' = [apl EXCEPT !.pc = "waiting", !.source = d.source, !.target = d.target, !.surl = d.surl]
    BY <1>4 DEF Launch
  <2>3. d.source \in Backs /\ d.target \in Pg /\ d.surl \in Urls
    BY <2>1 DEF Named, Docs, Urls
  <2> QED
    BY <1>0, <2>1, <2>2, <2>3 DEF AplType
<1>5. CASE Settle
  <2>1. apl' = [NoTick EXCEPT !.pc = "restart", !.flag = apl.flag]
    BY <1>5 DEF Settle
  <2> QED
    BY <1>0, <2>1 DEF AplType
<1>6. CASE Restart \/ NotReady \/ SettleRefused \/ Abort \/ Reboot
  BY <1>6, <1>a DEF Restart, NotReady, SettleRefused, Abort, Reboot
<1> QED
  BY <1>1, <1>2, <1>3, <1>4, <1>5, <1>6, AplWriters

\* The app container.
LEMMA AppTyped == ASSUME DbType, CancelInv, [Next]_vars PROVE AppType'
<1> USE DEF DbType
<1>a. ASSUME NEW b, app' = Started(b) PROVE AppType'
  BY <1>a DEF AppType, Started
<1>1. CASE app' = app
  BY <1>1 DEF AppType
<1>2. ASSUME app' = [app EXCEPT !.seen = Unread] PROVE AppType'
  BY <1>2 DEF AppType
<1>3. CASE AppWrite
  <2>1. app' = [app EXCEPT !.seen = Seen] /\ Seen \in [backend: Backs, url: Urls]
    BY <1>3, SeenType DEF AppWrite
  <2> HIDE DEF Seen
  <2> QED
    BY <2>1 DEF AppType
<1>4. CASE Launch
  BY <1>4 DEF Launch, AppType
<1> QED
  BY <1>1, <1>2, <1>3, <1>4, <1>a, AppWriters DEF StartMigration, CancelReverts, AppStart, Recover, Restart, Reboot

\* The first gap is one of the known ones.
LEMMA GapTyped == ASSUME DbType, [Next]_vars PROVE gap' \in Gaps \cup {None}
BY DEF DbType, RestType, Gaps, Gap, Next, vars, AppWrite, AppStart, ApiNext, StartMigration, Cancel, WriteJob,
   WriteFlag, CancelWritesJob, CancelReverts, MigNext, MigStart, MigRead, MigWrite, MigPoll, BackupCancelled,
   MigDropped, Prepare, Copy, Verify, Flip, MigRevert, StageReports, StageRaises, AplNext, Tick,
   Recover, Lifecycle, Launch, Settle, Restart, FaultNext, MigDies, Expire, RecoverRefused,
   NotReady, SettleRefused, Abort, Reboot, FlagGap

\* Where the migrator reads from.
LEMMA SourceType == ASSUME MigType, mig.pc \notin {"off", "start"} PROVE Source \in Stable
BY Names DEF MigType, Source, Reachable, Stable

\* The stores, the sentinels, the flag and the side-car container.
LEMMA RestTyped == ASSUME DbType, CancelInv, [Next]_vars PROVE RestType'
<1> USE Names DEF DbType
<1>1. gap' \in Gaps \cup {None}
  BY GapTyped
<1>2. flag' \in Urls /\ pg' \in BOOLEAN
  <2>1. CASE UNCHANGED <<flag, pg>>
    BY <2>1 DEF RestType
  <2>2. CASE WriteFlag
    BY <2>2 DEF WriteFlag, RestType, ApiType, Named, Urls
  <2>3. CASE Lifecycle
    BY <2>3 DEF Lifecycle, RestType
  <2>4. CASE Settle \/ Abort
    BY <2>4 DEF Settle, Abort, FlagAfter, RestType, Urls
  <2> QED
    BY <2>1, <2>2, <2>3, <2>4, FlagWriters
<1>3. sentinel' \subseteq Jobs /\ store' \in [Stable -> 0 .. MaxWrites] /\ written' \in 1 .. MaxWrites
  <2>0. sentinel \subseteq Jobs /\ store \in [Stable -> 0 .. MaxWrites] /\ written \in 1 .. MaxWrites
        /\ MaxWrites \in Nat
    BY MigrationAssumption DEF RestType
  <2>1. CASE UNCHANGED <<store, written, sentinel>>
    BY <2>0, <2>1
  <2>2. CASE AppWrite
    <3>1. PICK s : store' = [store EXCEPT ![s] = written + 1]
      BY <2>2 DEF AppWrite
    <3>2. written' = written + 1 /\ written < MaxWrites /\ sentinel' = sentinel
      BY <2>2 DEF AppWrite
    <3>3. written + 1 \in 1 .. MaxWrites /\ written + 1 \in 0 .. MaxWrites
      BY <2>0, <3>2
    <3> QED
      BY <2>0, <3>1, <3>2, <3>3
  <2>3. CASE Copy
    <3>1. Source \in Stable /\ mig.target \in Stable
      BY <2>3, SourceType DEF Copy, Working, MigType
    <3>2. PICK v \in 0 .. MaxWrites : store' = [store EXCEPT ![mig.target] = v]
      <4>1. store[mig.target] \in 0 .. MaxWrites /\ store[Source] \in 0 .. MaxWrites
        BY <2>0, <3>1
      <4> QED
        BY <2>3, <4>1 DEF Copy
    <3> QED
      BY <2>0, <2>3, <3>1, <3>2 DEF Copy
  <2>4. ASSUME NEW j \in Jobs, Cancel(j) PROVE sentinel' = sentinel \cup {j} /\ UNCHANGED <<store, written>>
    BY <2>4 DEF Cancel
  <2> QED
    BY <2>0, <2>1, <2>2, <2>3, <2>4, StoreWriters
<1> QED
  BY <1>1, <1>2, <1>3 DEF RestType

-----------------------------------------------------------------------------
(* A cancelled migration never flips *)

\* The overlay, the container, the flag and the stores do not matter.
LEMMA CancelFrame ==
    ASSUME CancelInv, UNCHANGED <<job, sentinel, api, mig, apl>>
    PROVE  CancelInv'
BY DEF CancelInv

\* A status that may be changed: the job is neither queued nor claimed by a
\* step of the applier, unless the applier is done with it.
LEMMA StatusKept ==
    ASSUME DbType, CancelInv, NEW j \in Jobs, NEW s \in {"running", "failed", "cancelled"},
           job' = [job EXCEPT ![j].status = s], UNCHANGED <<sentinel, api>>,
           mig' = mig, job[j].status # "absent",
           job[j].status = "pending" => ~ (apl.pc \in {"recover", "picked"} /\ apl.job = j),
           \/ apl' = apl
           \/ apl'.pc \in {"idle", "restart"} /\ (apl.pc = "waiting" => apl.job = j)
    PROVE  CancelInv'
<1>1. job \in [Jobs -> Docs]
  BY DEF DbType, JobType
<1>2. job'[j].status = s /\ job'[j].step = job[j].step /\ \A k \in Jobs : k # j => job'[k] = job[k]
  BY <1>1 DEF Docs
<1>3. \A k \in Jobs : job'[k].status = "absent" <=> job[k].status = "absent"
  BY <1>2
<1>4. \A k \in Jobs : job'[k].step = job[k].step
  BY <1>2
<1>5. (api.pc # "idle" => api.job \in Jobs) /\ (mig.pc # "off" => mig.job \in Jobs)
      /\ (apl.pc = "waiting" => apl.job \in Jobs) /\ sentinel \subseteq Jobs
  BY DEF DbType, ApiType, MigType, AplType, RestType
<1>6. \A k \in sentinel : job'[k].status \notin {"success", "absent", "pending"}
  BY <1>2, <1>5 DEF CancelInv
<1>7. mig.pc # "off" =>
           /\ job'[mig.job].status \notin {"absent", "success"}
           /\ job'[mig.job].status = "pending" => mig.pc = "start" /\ apl'.pc = "waiting" /\ apl'.job = mig.job
  BY <1>2, <1>5 DEF CancelInv
<1>8. apl'.pc \in {"recover", "picked"} /\ apl'.job # None => apl'.job \in Jobs /\ job'[apl'.job].status = "pending"
  BY <1>2 DEF CancelInv
<1>9. apl'.pc = "waiting" => job'[apl'.job].status # "absent"
  BY <1>3, <1>5 DEF CancelInv
<1>10. api.pc = "job" => job'[api.job].status = "absent"
  BY <1>3, <1>5 DEF CancelInv
<1>11. mig.pc \in {"read", "write", "work"} => job'[mig.job].step = job[mig.job].step
  BY <1>4, <1>5
<1> QED
  BY <1>6, <1>7, <1>8, <1>9, <1>10, <1>11 DEF CancelInv

\* The handler's steps.
LEMMA CancelApi ==
    ASSUME DbType, CancelInv, ApiNext
    PROVE  CancelInv'
<1> USE Names, DocTypes
<1>0. job \in [Jobs -> Docs] /\ sentinel \subseteq Jobs
      /\ (api.pc # "idle" => api.job \in Jobs /\ Named(api.doc)) /\ (api.pc = "job" => api.doc.status = "pending")
      /\ (mig.pc # "off" => mig.job \in Jobs) /\ (apl.pc = "waiting" => apl.job \in Jobs)
  BY DEF DbType, ApiType, JobType, MigType, AplType, RestType
<1>1. ASSUME NEW j \in Jobs, NEW t \in Pg, StartMigration(j, t) PROVE CancelInv'
  <2>1. UNCHANGED <<job, sentinel, mig, apl>> /\ api'.pc = "job" /\ api'.job = j /\ job[j].status = "absent"
    BY <1>1 DEF StartMigration
  <2> QED
    BY <2>1 DEF CancelInv
<1>2. ASSUME NEW j \in Jobs, Cancel(j) PROVE CancelInv'
  <2>1. /\ UNCHANGED <<job, mig, apl>> /\ api'.pc = "cancel" /\ api'.job = j
        /\ sentinel' = sentinel \cup {j}
        /\ job[j].status = "running" /\ job[j].step # "flip_backend"
    BY <1>2 DEF Cancel
  <2>2. mig.pc \in {"read", "write"} /\ mig.next = "success" => mig.job # j
    BY <2>1 DEF CancelInv
  <2> QED
    BY <2>1, <2>2 DEF CancelInv
<1>3. CASE WriteJob
  <2> DEFINE k == api.job
  <2>1. /\ job' = [job EXCEPT ![k] = api.doc] /\ api'.pc = "flag" /\ UNCHANGED <<sentinel, mig, apl>>
        /\ k \in Jobs /\ api.doc.status = "pending" /\ job[k].status = "absent"
    BY <1>0, <1>3 DEF WriteJob, ApiType, DbType, CancelInv
  <2>2. job'[k].status = "pending" /\ \A j \in Jobs : j # k => job'[j] = job[j]
    BY <1>0, <2>1
  <2>3. k \notin sentinel /\ (mig.pc # "off" => mig.job # k) /\ (apl.pc = "waiting" => apl.job # k)
        /\ (apl.pc \in {"recover", "picked"} /\ apl.job # None => apl.job # k)
    BY <2>1 DEF CancelInv
  <2> HIDE DEF k
  <2>4. mig.pc # "off" => job'[mig.job] = job[mig.job]
    BY <1>0, <2>2, <2>3
  <2>5. apl.pc = "waiting" => job'[apl.job] = job[apl.job]
    BY <1>0, <2>2, <2>3
  <2>6. apl.pc \in {"recover", "picked"} /\ apl.job # None => apl.job \in Jobs /\ job'[apl.job] = job[apl.job]
    BY <2>2, <2>3 DEF CancelInv
  <2>7. \A j \in sentinel : job'[j] = job[j]
    BY <1>0, <2>2, <2>3
  <2> QED
    BY <2>1, <2>4, <2>5, <2>6, <2>7 DEF CancelInv
<1>4. CASE CancelWritesJob
  <2> DEFINE k == api.job
             d == [api.doc EXCEPT !.status = "cancelled"]
  <2>1. /\ job' = [job EXCEPT ![k] = d] /\ api'.pc = "revert" /\ api'.job = k
        /\ UNCHANGED <<sentinel, mig, apl>> /\ k \in Jobs /\ k \in sentinel
    BY <1>0, <1>4 DEF CancelWritesJob, ApiType, DbType, CancelInv
  <2>2. d.status = "cancelled"
    BY <1>0, <1>4, DocKept DEF CancelWritesJob, Named, Terminal
  <2> HIDE DEF d
  <2>3. job'[k].status = "cancelled" /\ \A j \in Jobs : j # k => job'[j] = job[j]
    BY <1>0, <2>1, <2>2
  <2>4. job[k].status # "pending"
    BY <2>1 DEF CancelInv
  <2> HIDE DEF k
  <2>5. \A j \in sentinel : job'[j].status \notin {"success", "absent", "pending"}
    BY <1>0, <2>3 DEF CancelInv
  <2>6. mig.pc # "off" => \/ mig.job = k /\ job'[mig.job].status = "cancelled"
                          \/ mig.job # k /\ job'[mig.job] = job[mig.job]
    BY <1>0, <2>3
  <2>7. apl.pc = "waiting" => job'[apl.job].status # "absent"
    BY <1>0, <2>3 DEF CancelInv
  <2>8. apl.pc \in {"recover", "picked"} /\ apl.job # None => apl.job \in Jobs /\ job'[apl.job] = job[apl.job]
    BY <2>3, <2>4 DEF CancelInv
  <2>9. mig.pc \in {"read", "write"} /\ mig.next = "success" => mig.job # k
    BY <2>1 DEF CancelInv
  <2> QED
    BY <2>1, <2>5, <2>6, <2>7, <2>8, <2>9 DEF CancelInv
<1>5. CASE WriteFlag \/ CancelReverts
  <2>1. UNCHANGED <<job, sentinel, mig, apl>> /\ api'.pc = "idle"
    BY <1>5 DEF WriteFlag, CancelReverts, NoHandler
  <2> QED
    BY <2>1 DEF CancelInv
<1> QED
  BY <1>1, <1>2, <1>3, <1>4, <1>5 DEF ApiNext

\* The migrator's steps.
LEMMA CancelMig ==
    ASSUME DbType, CancelInv, MigNext
    PROVE  CancelInv'
<1> USE Names, DocTypes
<1>0. job \in [Jobs -> Docs] /\ sentinel \subseteq Jobs /\ mig.pc # "off" /\ mig.job \in Jobs
      /\ (mig.pc = "write" => mig.doc \in Docs) /\ (mig.pc = "work" => mig.next \in Stages)
      /\ (api.pc # "idle" => api.job \in Jobs) /\ (apl.pc = "waiting" => apl.job \in Jobs)
      /\ (mig.pc # "start" => mig.next \in Nexts)
  <2>1. mig.pc # "off"
    BY DEF MigNext, MigStart, MigRead, MigWrite, MigPoll, BackupCancelled, MigDropped, Prepare, Copy, Verify,
       StageReports, StageRaises, Flip, MigRevert, Working
  <2> QED
    BY <2>1 DEF DbType, JobType, MigType, RestType, Named, ApiType, AplType
<1>m. mig = [mig EXCEPT !.pc = mig.pc] /\ mig \in [pc: {"off", "start", "read", "write", "poll", "work", "revert", "raise"}, job: Jobs \cup {None},
               source: Backs \cup {None}, target: Pg \cup {None}, surl: Urls,
               next: Nexts \cup {None}, doc: Docs, rc: {"exit", "137"}]
  BY DEF DbType, MigType
<1>a. ASSUME NEW rc, Exit(rc), UNCHANGED <<job, sentinel, api, apl>> PROVE CancelInv'
  <2>1. mig'.pc = "off"
    BY <1>a DEF Exit
  <2> QED
    BY <1>a, <2>1 DEF CancelInv
<1>b. ASSUME NEW n, Update(n), mig.pc # "start", UNCHANGED <<job, sentinel, api, apl>>,
             n = "success" => job[mig.job].step = "flip_backend" /\ mig.job \notin sentinel
      PROVE  CancelInv'
  <2>1. mig'.pc = "read" /\ mig'.next = n /\ mig'.job = mig.job
    BY <1>b, <1>m DEF Update
  <2> QED
    BY <1>0, <1>b, <2>1 DEF CancelInv
<1>1. CASE MigStart
  <2>1. CASE mig.source \in Stable
    <3> DEFINE k == mig.job
               d == [status |-> "running", step |-> "validate", source |-> mig.source,
                     target |-> mig.target, surl |-> None]
    <3>1. job' = [job EXCEPT ![k] = d] /\ UNCHANGED <<sentinel, api, apl>> /\ Update("alembic") /\ mig.pc = "start"
      BY <1>1, <2>1 DEF MigStart
    <3>2. job'[k].status = "running" /\ \A j \in Jobs : j # k => job'[j] = job[j]
      BY <1>0, <3>1
    <3>3. mig'.pc = "read" /\ mig'.next = "alembic" /\ mig'.job = k
      BY <1>m, <3>1 DEF Update
    <3>4. job[k].status # "absent"
      BY <1>0 DEF CancelInv
    <3>5. job[k].status = "pending" => apl.pc = "waiting"
      BY <1>0 DEF CancelInv
    <3> HIDE DEF k, d
    <3>6. \A j \in sentinel : job'[j].status \notin {"success", "absent", "pending"}
      BY <1>0, <3>2 DEF CancelInv
    <3>7. api.pc = "job" => job'[api.job].status = "absent"
      BY <1>0, <3>2, <3>4 DEF CancelInv
    <3>8. apl.pc = "waiting" => job'[apl.job].status # "absent"
      BY <1>0, <3>2 DEF CancelInv
    <3>9. apl.pc \in {"recover", "picked"} /\ apl.job # None => apl.job \in Jobs /\ job'[apl.job].status = "pending"
      BY <1>0, <3>2, <3>5 DEF CancelInv
    <3> QED
      BY <3>1, <3>2, <3>3, <3>6, <3>7, <3>8, <3>9 DEF CancelInv
  <2>2. CASE mig.source \notin Stable
    BY <1>1, <1>a, <2>2 DEF MigStart
  <2> QED
    BY <2>1, <2>2
<1>2. CASE MigRead
  <2>1. mig'.pc = "write" /\ mig'.doc = job[mig.job] /\ mig'.job = mig.job /\ mig'.next = mig.next
        /\ mig.pc = "read" /\ UNCHANGED <<job, sentinel, api, apl>>
    BY <1>2, <1>m DEF MigRead
  <2> QED
    BY <1>0, <2>1 DEF CancelInv
<1>3. CASE MigWrite
  <2> DEFINE k == mig.job
             d == IF mig.next \in Stages THEN [mig.doc EXCEPT !.step = mig.next]
                  ELSE [mig.doc EXCEPT !.status = StatusOf(mig.next)]
  <2>1. job' = [job EXCEPT ![k] = d] /\ UNCHANGED <<sentinel, api, apl>> /\ mig.pc = "write"
        /\ mig.next \in Nexts
    BY <1>0, <1>3 DEF MigWrite
  <2>2. /\ d.status \notin {"absent", "pending"}
        /\ d.status = "success" => mig.next = "success"
        /\ mig.next = "flip_backend" => d.step = "flip_backend"
    <3>1. mig.doc \in Docs /\ mig.doc.status \notin {"absent", "success", "pending"}
      BY <1>0, <2>1 DEF CancelInv
    <3>2. CASE mig.next \in Stages
      BY <3>1, <3>2 DEF Docs
    <3>3. CASE mig.next \notin Stages
      <4>1. d.status = StatusOf(mig.next)
        BY <3>1, <3>3 DEF Docs
      <4>2. StatusOf(mig.next) \in Terminal /\ (StatusOf(mig.next) = "success" => mig.next = "success")
        BY <2>1, <3>3 DEF Nexts, StatusOf, Terminal
      <4> QED
        BY <3>3, <4>1, <4>2 DEF Terminal, Stages
    <3> QED
      BY <3>2, <3>3
  <2>3. \/ mig'.pc = "off"
        \/ mig.next # "success" /\ mig'.pc = "revert" /\ mig'.job = k
        \/ mig.next # "success" /\ mig'.pc \in {"poll", "work"} /\ mig'.next = mig.next /\ mig'.job = k
    <3>1. CASE mig.next \in {"success", "failed", "dropped"}
      BY <1>3, <3>1 DEF MigWrite, Exit
    <3>2. CASE mig.next \notin {"success", "failed", "dropped"}
      <4> DEFINE c == IF mig.next = "flip_backend" THEN "work" ELSE IF mig.next \in Stages THEN "poll" ELSE "revert"
      <4>1. mig' = [mig EXCEPT !.doc = NoJob, !.pc = c] /\ c \in {"poll", "work", "revert"}
        BY <1>3, <3>2 DEF MigWrite
      <4> HIDE DEF c
      <4>2. mig'.pc = c /\ mig'.next = mig.next /\ mig'.job = mig.job
        BY <1>m, <4>1
      <4> QED
        BY <3>2, <4>1, <4>2
    <3> QED
      BY <3>1, <3>2
  <2>4. job[k].status \notin {"absent", "pending"} /\ (mig.next = "success" => k \notin sentinel)
    BY <1>0, <2>1 DEF CancelInv
  <2>5. k \in Jobs
    BY <1>0
  <2> HIDE DEF d, k
  <2>6. job'[k] = d /\ \A j \in Jobs : j # k => job'[j] = job[j]
    BY <1>0, <2>1, <2>5
  <2>7. \A j \in sentinel : job'[j].status \notin {"success", "absent", "pending"}
    BY <1>0, <2>2, <2>4, <2>6 DEF CancelInv
  <2>8. api.pc = "job" => job'[api.job].status = "absent"
    BY <1>0, <2>4, <2>6 DEF CancelInv
  <2>9. apl.pc = "waiting" => job'[apl.job].status # "absent"
    BY <1>0, <2>2, <2>6 DEF CancelInv
  <2>10. apl.pc \in {"recover", "picked"} /\ apl.job # None => apl.job \in Jobs /\ job'[apl.job].status = "pending"
    BY <2>4, <2>6 DEF CancelInv
  <2>11. mig'.pc # "off" => job'[k].status \notin {"absent", "success", "pending"}
    BY <2>2, <2>3, <2>6
  <2>12. mig'.pc = "work" /\ mig'.next = "flip_backend" => job'[k].step = "flip_backend"
    BY <2>2, <2>3, <2>6
  <2> QED
    BY <2>1, <2>3, <2>7, <2>8, <2>9, <2>10, <2>11, <2>12 DEF CancelInv
<1>4. CASE BackupCancelled \/ MigDropped \/ Prepare \/ Copy \/ Verify \/ StageReports
  <2>1. \E n : n # "success" /\ Update(n)
    BY <1>4 DEF MigPoll, BackupCancelled, MigDropped, Prepare, Copy, Verify, StageReports, After
  <2>2. mig.pc # "start" /\ UNCHANGED <<job, sentinel, api, apl>>
    BY <1>4 DEF MigPoll, BackupCancelled, MigDropped, Prepare, Copy, Verify, StageReports, Working
  <2> QED
    BY <1>b, <2>1, <2>2
<1>5. CASE StageRaises
  <2>1. mig'.pc = "raise" /\ mig'.job = mig.job /\ mig.pc = "work" /\ UNCHANGED <<job, sentinel, api, apl>>
    BY <1>5, <1>m DEF StageRaises, Working
  <2> QED
    BY <1>0, <2>1 DEF CancelInv
<1>6. CASE Flip
  <2>1. UNCHANGED <<job, sentinel, api, apl>> /\ mig.pc = "work" /\ mig.next = "flip_backend"
    BY <1>6 DEF Flip
  <2>2. CASE mig.job \in sentinel
    BY <1>6, <1>b, <2>1, <2>2 DEF Flip
  <2>3. CASE mig.job \notin sentinel
    <3>1. job[mig.job].step = "flip_backend"
      BY <2>1, <2>3 DEF CancelInv
    <3> QED
      BY <1>6, <1>b, <2>1, <2>3, <3>1 DEF Flip
  <2> QED
    BY <2>2, <2>3
<1>7. CASE MigRevert
  <2>1. UNCHANGED <<job, sentinel, api, apl>> /\ mig.pc # "start"
    BY <1>7 DEF MigRevert
  <2>2. Exit("exit") \/ Update("failed")
    BY <1>7 DEF MigRevert
  <2> QED
    BY <1>a, <1>b, <2>1, <2>2
<1>8. CASE MigPoll
  <2>1. UNCHANGED <<job, sentinel, api, apl>> /\ mig.pc = "poll"
    BY <1>8 DEF MigPoll
  <2>2. CASE mig.job \in sentinel
    BY <1>8, <1>b, <2>1, <2>2 DEF MigPoll
  <2>3. CASE mig.job \notin sentinel
    <3>1. mig'.pc = "work" /\ mig'.job = mig.job /\ mig'.next = mig.next /\ mig.next # "flip_backend"
      BY <1>8, <1>m, <2>3 DEF MigPoll, DbType, MigType
    <3> QED
      BY <1>0, <2>1, <3>1 DEF CancelInv
  <2> QED
    BY <2>2, <2>3
<1> QED
  BY <1>1, <1>2, <1>3, <1>4, <1>5, <1>6, <1>7, <1>8 DEF MigNext

\* The applier's steps and the faults.
LEMMA CancelApl ==
    ASSUME DbType, CancelInv, AplNext \/ FaultNext
    PROVE  CancelInv'
<1> USE Names, DocTypes
<1>0. job \in [Jobs -> Docs] /\ sentinel \subseteq Jobs
      /\ (api.pc # "idle" => api.job \in Jobs) /\ (mig.pc # "off" => mig.job \in Jobs)
      /\ (apl.pc = "waiting" => apl.job \in Jobs)
      /\ apl \in [pc: {"idle", "recover", "picked", "waiting", "restart"}, job: Jobs \cup {None}, flag: Urls,
                  source: Backs \cup {None}, target: Pg \cup {None}, surl: Urls]
  BY DEF DbType, JobType, ApiType, MigType, AplType, RestType
<1>a. ASSUME UNCHANGED <<job, sentinel, api, mig>>, apl'.pc \in {"idle", "restart"}, apl.pc # "waiting"
      PROVE  CancelInv'
  BY <1>a DEF CancelInv
<1>1. CASE Tick
  <2>1. UNCHANGED <<job, sentinel, api, mig>> /\ apl.pc = "idle" /\ apl'.pc = "recover"
    BY <1>0, <1>1 DEF Tick
  <2>2. apl'.job # None => apl'.job \in Jobs /\ job[apl'.job].status = "pending"
    BY <1>0, <1>1 DEF Tick
  <2> QED
    BY <2>1, <2>2 DEF CancelInv
<1>2. ASSUME NEW j \in Jobs, Recover(j) \/ RecoverRefused(j) \/ Expire(j) PROVE CancelInv'
  <2>1. /\ job' = [job EXCEPT ![j].status = "failed"] /\ UNCHANGED <<sentinel, api, mig, apl>>
        /\ job[j].status # "absent"
        /\ job[j].status = "pending" => apl.pc = "idle"
    BY <1>2 DEF Recover, RecoverRefused, Expire
  <2> QED
    BY <2>1, StatusKept
<1>3. CASE Lifecycle
  <2>1. UNCHANGED <<job, sentinel, api, mig>> /\ apl.pc = "recover"
    BY <1>3 DEF Lifecycle
  <2>2. CASE apl.job = None
    BY <1>3, <1>a, <2>1, <2>2 DEF Lifecycle
  <2>3. CASE apl.job # None
    <3>1. apl'.pc = "picked" /\ apl'.job = apl.job
      BY <1>0, <1>3, <2>3 DEF Lifecycle
    <3> QED
      BY <2>1, <2>3, <3>1 DEF CancelInv
  <2> QED
    BY <2>2, <2>3
<1>4. CASE Launch
  <2>1. /\ UNCHANGED <<job, sentinel, api>> /\ apl.pc = "picked" /\ api.pc = "idle"
        /\ apl'.pc = "waiting" /\ apl'.job = apl.job /\ mig'.pc = "start" /\ mig'.job = apl.job
    BY <1>0, <1>4 DEF Launch, NoMigrator
  <2>2. apl.job \in Jobs /\ job[apl.job].status = "pending"
    BY <2>1 DEF CancelInv, DbType, AplType
  <2> QED
    BY <2>1, <2>2 DEF CancelInv
<1>5. CASE Settle
  <2>1. Returned /\ job' = [job EXCEPT ![apl.job].status = FinalStatus] /\ UNCHANGED <<sentinel, api, mig>>
        /\ apl.pc = "waiting"
    BY <1>5 DEF Settle, Returned
  <2>2. apl.job \in Jobs /\ job[apl.job].status # "absent" /\ FinalStatus \in {"running"} \cup Terminal
    BY <2>1, FinalIs
  <2>3. apl'.pc = "restart"
    BY <1>5 DEF Settle, NoTick
  <2>4. CASE FinalStatus = "success"
    <3>1. job[apl.job].status = "success"
      BY <2>4 DEF FinalStatus
    <3>2. [job[apl.job] EXCEPT !.status = "success"] = job[apl.job]
      BY <1>0, <2>2, <3>1 DEF Docs
    <3>3. job' = [job EXCEPT ![apl.job] = job[apl.job]]
      BY <2>1, <2>4, <3>2
    <3>4. job' = job
      BY <1>0, <2>2, <3>3
    <3>5. mig.pc # "off" => job[mig.job].status # "pending"
      BY <3>1 DEF CancelInv
    <3> QED
      BY <2>1, <2>3, <3>4, <3>5 DEF CancelInv
  <2>5. CASE FinalStatus # "success"
    <3>1. apl'.pc \in {"idle", "restart"}
      BY <2>3
    <3>2. CASE FinalStatus = "running"
      <4>1. job' = [job EXCEPT ![apl.job].status = "running"]
        BY <2>1, <3>2
      <4> QED
        BY <2>1, <2>2, <3>1, <4>1, StatusKept
    <3>3. CASE FinalStatus = "failed"
      <4>1. job' = [job EXCEPT ![apl.job].status = "failed"]
        BY <2>1, <3>3
      <4> QED
        BY <2>1, <2>2, <3>1, <4>1, StatusKept
    <3>4. CASE FinalStatus = "cancelled"
      <4>1. job' = [job EXCEPT ![apl.job].status = "cancelled"]
        BY <2>1, <3>4
      <4> QED
        BY <2>1, <2>2, <3>1, <4>1, StatusKept
    <3> QED
      BY <2>2, <2>5, <3>2, <3>3, <3>4 DEF Terminal
  <2> QED
    BY <2>4, <2>5
<1>6. CASE SettleRefused \/ Abort
  <2>1. Returned /\ job' = [job EXCEPT ![apl.job].status = "failed"] /\ UNCHANGED <<sentinel, api, mig>>
        /\ apl.pc = "waiting" /\ apl' = NoTick
    BY <1>6 DEF SettleRefused, Abort, Returned
  <2>2. apl.job \in Jobs /\ job[apl.job].status # "absent"
    BY <2>1, FinalIs
  <2> QED
    BY <2>1, <2>2, StatusKept
<1>7. CASE Restart \/ NotReady
  <2>1. UNCHANGED <<job, sentinel, api, mig>> /\ apl' = NoTick /\ apl.pc # "waiting"
    BY <1>7 DEF Restart, NotReady
  <2> QED
    BY <1>a, <2>1
<1>8. CASE MigDies
  <2>1. UNCHANGED <<job, sentinel, api, apl>>
    BY <1>8 DEF MigDies
  <2>2. \/ mig'.pc = "off"
        \/ mig'.pc = mig.pc /\ mig'.job = mig.job /\ mig'.next = mig.next /\ mig'.doc = mig.doc
    BY <1>8 DEF MigDies, Exit, DbType, MigType
  <2> QED
    BY <2>1, <2>2 DEF CancelInv
<1>9. CASE Reboot
  <2>1. UNCHANGED <<job, sentinel>> /\ apl'.pc = "idle" /\ mig'.pc = "off" /\ api'.pc = "idle"
    BY <1>9 DEF Reboot
  <2> QED
    BY <2>1 DEF CancelInv
<1> QED
  BY <1>1, <1>2, <1>3, <1>4, <1>5, <1>6, <1>7, <1>8, <1>9 DEF AplNext, FaultNext

\* Types and the cancel's invariant hold in every reachable state.
LEMMA MigrationInv == Spec => [](DbType /\ CancelInv)
<1>1. ASSUME DbType, CancelInv, [Next]_vars PROVE DbType'
  BY <1>1, YamlTyped, JobTyped, ApiTyped, MigTyped, AplTyped, AppTyped, RestTyped DEF DbType
<1>2. ASSUME DbType, CancelInv, [Next]_vars PROVE CancelInv'
  <2>1. CASE AppWrite \/ AppStart \/ UNCHANGED vars
    BY <1>2, <2>1, CancelFrame DEF AppWrite, AppStart, vars
  <2> QED
    BY <1>2, <2>1, CancelApi, CancelMig, CancelApl DEF Next
<1> QED
  BY InitMigration, <1>1, <1>2, PTL DEF Spec

\* The variables keep their types, whatever faults happen: in particular the
\* overlay never names a backend that is none, and a copy has a source.
THEOREM MigrationTyped == Spec => []TypeOK
<1>1. DbType => TypeOK
  BY DEF DbType, YamlType, JobType, ApiType, MigType, AplType, AppType, RestType, TypeOK, Backs, Urls
<1> QED
  BY MigrationInv, <1>1, PTL

\* A migration whose cancel was accepted never ends in success, however the
\* handler's writes and the migrator's unlocked rewrites of the job interleave,
\* and whatever dies, is killed or rebooted in between: the sentinel is written
\* while the step is not yet flip_backend, and looked at under the same lock.
THEOREM CancelKept == Spec => []CancelHonoured
<1>1. CancelInv => CancelHonoured
  BY DEF CancelInv, CancelHonoured
<1> QED
  BY MigrationInv, <1>1, PTL

-----------------------------------------------------------------------------
(* Everyone who works on a job knows where it goes from and to *)

SameRoute(d, e) == d.source = e.source /\ d.target = e.target

RouteInv ==
    /\ apl.pc = "waiting" => SameRoute(apl, job[apl.job])
    /\ mig.pc # "off" => SameRoute(mig, job[mig.job])
    /\ mig.pc = "write" => SameRoute(mig.doc, mig)
    /\ api.pc \in {"cancel", "revert"} => SameRoute(api.doc, job[api.job])

\* No write to a job's JSON redirects it.
LEMMA RouteKept ==
    ASSUME DbType, CancelInv, RouteInv, [Next]_vars, NEW k \in Jobs, job[k].status # "absent"
    PROVE  SameRoute(job'[k], job[k])
<1>0. job \in [Jobs -> Docs]
  BY DEF DbType, JobType
<1>a. ASSUME NEW j \in Jobs, NEW d, job' = [job EXCEPT ![j] = d], SameRoute(d, job[j])
      PROVE  SameRoute(job'[k], job[k])
  BY <1>0, <1>a DEF SameRoute
<1>b. ASSUME NEW j \in Jobs, NEW s, job' = [job EXCEPT ![j].status = s] PROVE SameRoute(job'[k], job[k])
  <2>1. job'[k].source = job[k].source /\ job'[k].target = job[k].target
    BY <1>0, <1>b DEF Docs
  <2> QED
    BY <2>1 DEF SameRoute
<1>1. CASE job' = job
  BY <1>1 DEF SameRoute
<1>2. ASSUME NEW j \in Jobs, Recover(j) \/ Expire(j) \/ RecoverRefused(j) PROVE SameRoute(job'[k], job[k])
  <2>1. job' = [job EXCEPT ![j].status = "failed"]
    BY <1>2 DEF Recover, Expire, RecoverRefused
  <2> QED
    BY <1>b, <2>1
<1>3. CASE WriteJob
  <2>1. api.job \in Jobs /\ job' = [job EXCEPT ![api.job] = api.doc] /\ job[api.job].status = "absent"
    BY <1>3 DEF WriteJob, DbType, ApiType, CancelInv
  <2>2. job'[k] = job[k]
    BY <1>0, <2>1
  <2> QED
    BY <2>2 DEF SameRoute
<1>4. CASE CancelWritesJob
  <2> DEFINE d == [api.doc EXCEPT !.status = "cancelled"]
  <2>1. api.job \in Jobs /\ job' = [job EXCEPT ![api.job] = d] /\ api.doc \in Docs
        /\ SameRoute(api.doc, job[api.job])
    BY <1>4 DEF CancelWritesJob, DbType, ApiType, RouteInv, Named
  <2>2. SameRoute(d, job[api.job])
    BY <2>1 DEF SameRoute, Docs
  <2> HIDE DEF d
  <2> QED
    BY <1>a, <2>1, <2>2
<1>5. CASE MigStart
  <2>1. mig.job \in Jobs /\ SameRoute(mig, job[mig.job])
    BY <1>5 DEF MigStart, DbType, MigType, RouteInv
  <2>2. CASE mig.source \in Stable
    <3> DEFINE d == [status |-> "running", step |-> "validate", source |-> mig.source,
                     target |-> mig.target, surl |-> None]
    <3>1. job' = [job EXCEPT ![mig.job] = d]
      BY <1>5, <2>2 DEF MigStart
    <3>2. SameRoute(d, job[mig.job])
      BY <2>1 DEF SameRoute
    <3> HIDE DEF d
    <3> QED
      BY <1>a, <2>1, <3>1, <3>2
  <2>3. CASE mig.source \notin Stable
    BY <1>1, <1>5, <2>3 DEF MigStart
  <2> QED
    BY <2>2, <2>3
<1>6. CASE MigWrite
  <2> DEFINE d == IF mig.next \in Stages THEN [mig.doc EXCEPT !.step = mig.next]
                  ELSE [mig.doc EXCEPT !.status = StatusOf(mig.next)]
  <2>1. mig.job \in Jobs /\ mig.doc \in Docs /\ job' = [job EXCEPT ![mig.job] = d]
        /\ SameRoute(mig, job[mig.job]) /\ SameRoute(mig.doc, mig)
    BY <1>6 DEF MigWrite, DbType, MigType, RouteInv, Named
  <2>2. SameRoute(d, mig.doc)
    BY <2>1 DEF SameRoute, Docs
  <2>3. SameRoute(d, job[mig.job])
    BY <2>1, <2>2 DEF SameRoute
  <2> HIDE DEF d
  <2> QED
    BY <1>a, <2>1, <2>3
<1>7. CASE Settle
  <2>1. apl.job \in Jobs /\ job' = [job EXCEPT ![apl.job].status = FinalStatus]
    BY <1>7, FinalIs DEF Settle
  <2> QED
    BY <1>b, <2>1
<1>8. CASE SettleRefused \/ Abort
  <2>1. apl.job \in Jobs /\ job' = [job EXCEPT ![apl.job].status = "failed"]
    BY <1>8, FinalIs DEF SettleRefused, Abort
  <2> QED
    BY <1>b, <2>1
<1> QED
  BY <1>1, <1>2, <1>3, <1>4, <1>5, <1>6, <1>7, <1>8, JobWriters

\* The routes agree in every reachable state.
LEMMA RoutesAgree == Spec => []RouteInv
<1>1. Init => RouteInv
  BY DocTypes DEF Init, RouteInv
<1>2. ASSUME DbType, CancelInv, RouteInv, [Next]_vars PROVE RouteInv'
  <2> USE DocTypes, Names
  <2>0. DbType' /\ CancelInv'
    BY <1>2, YamlTyped, JobTyped, ApiTyped, MigTyped, AplTyped, AppTyped, RestTyped, CancelFrame,
       CancelApi, CancelMig, CancelApl DEF DbType, Next, AppWrite, AppStart, vars
  <2>1. apl'.pc = "waiting" => SameRoute(apl', job'[apl'.job])
    <3>1. CASE Launch
      <4>1. apl'.source = job[apl.job].source /\ apl'.target = job[apl.job].target /\ apl'.job = apl.job
            /\ job' = job
        BY <1>2, <3>1 DEF Launch, DbType, AplType
      <4> QED
        BY <4>1 DEF SameRoute
    <3>2. CASE ~ Launch /\ apl'.pc = "waiting"
      <4>1. apl' = apl
        BY <1>2, <2>0, <3>2, AplWriters, ZenonT(40) DEF Tick, Lifecycle, Settle, Restart, NotReady, SettleRefused, Abort, Reboot,
           DbType, AplType
      <4>2. apl.job \in Jobs /\ job[apl.job].status # "absent" /\ SameRoute(apl, job[apl.job])
        BY <1>2, <3>2, <4>1 DEF DbType, AplType, CancelInv, RouteInv
      <4>3. SameRoute(job'[apl.job], job[apl.job])
        BY <1>2, <4>2, RouteKept
      <4> QED
        BY <4>1, <4>2, <4>3 DEF SameRoute
    <3> QED
      BY <3>1, <3>2
  <2>2. (mig'.pc # "off" => SameRoute(mig', job'[mig'.job])) /\ (mig'.pc = "write" => SameRoute(mig'.doc, mig'))
    <3>0. mig \in [pc: {"off", "start", "read", "write", "poll", "work", "revert", "raise"}, job: Jobs \cup {None},
               source: Backs \cup {None}, target: Pg \cup {None}, surl: Urls,
               next: Nexts \cup {None}, doc: Docs, rc: {"exit", "137"}]
          /\ (mig.pc # "off" => mig.job \in Jobs /\ job[mig.job].status # "absent" /\ SameRoute(mig, job[mig.job]))
          /\ (mig.pc = "write" => SameRoute(mig.doc, mig))
      BY <1>2 DEF DbType, MigType, CancelInv, RouteInv
    <3>1. mig.pc # "off" => SameRoute(job'[mig.job], job[mig.job])
      BY <1>2, <3>0, RouteKept
    <3>2. CASE Launch
      <4>1. mig'.source = job[apl.job].source /\ mig'.target = job[apl.job].target /\ mig'.job = apl.job
            /\ job' = job /\ mig'.pc = "start"
        BY <3>2 DEF Launch, NoMigrator
      <4> QED
        BY <4>1 DEF SameRoute
    <3>3. CASE mig'.pc = "off"
      BY <3>3
    <3>4. ASSUME mig.pc # "off", mig'.job = mig.job, mig'.source = mig.source, mig'.target = mig.target,
                 mig'.pc = "write" => mig'.doc = job[mig.job] \/ (mig.pc = "write" /\ mig'.doc = mig.doc)
          PROVE  (mig'.pc # "off" => SameRoute(mig', job'[mig'.job])) /\ (mig'.pc = "write" => SameRoute(mig'.doc, mig'))
      BY <3>0, <3>1, <3>4 DEF SameRoute
    <3>5. CASE mig' = mig
      BY <3>0, <3>4, <3>5
    <3>6. ASSUME NEW n, Update(n), mig.pc # "off"
          PROVE  mig'.pc = "read" /\ mig'.job = mig.job /\ mig'.source = mig.source /\ mig'.target = mig.target
      BY <3>0, <3>6 DEF Update
    <3>7. ASSUME NEW rc, Exit(rc) PROVE mig'.pc = "off"
      BY <3>7 DEF Exit
    <3>8. CASE MigStart \/ BackupCancelled \/ MigDropped \/ Prepare \/ Copy \/ Verify \/ StageReports \/ Flip \/ MigRevert
      <4>1. mig.pc # "off" /\ ((\E n : Update(n)) \/ Exit("exit"))
        BY <3>8 DEF MigStart, MigPoll, BackupCancelled, MigDropped, Prepare, Copy, Verify, StageReports, Flip, MigRevert, Working
      <4> QED
        BY <3>3, <3>4, <3>6, <3>7, <4>1
    <3>9. CASE MigRead
      <4>1. mig'.pc = "write" /\ mig'.doc = job[mig.job] /\ mig'.job = mig.job /\ mig'.source = mig.source
            /\ mig'.target = mig.target /\ mig.pc # "off"
        BY <3>0, <3>9 DEF MigRead
      <4> QED
        BY <3>4, <4>1
    <3>10. CASE MigWrite
      <4>1. CASE mig.next \in {"success", "failed", "dropped"}
        BY <3>3, <3>7, <3>10, <4>1 DEF MigWrite
      <4>2. CASE mig.next \notin {"success", "failed", "dropped"}
        <5> DEFINE c == IF mig.next = "flip_backend" THEN "work" ELSE IF mig.next \in Stages THEN "poll" ELSE "revert"
        <5>0. mig' = [mig EXCEPT !.doc = NoJob, !.pc = c] /\ c # "write" /\ mig.pc = "write"
          BY <3>10, <4>2 DEF MigWrite
        <5> HIDE DEF c
        <5>1. mig'.pc # "write" /\ mig'.job = mig.job /\ mig'.source = mig.source
              /\ mig'.target = mig.target /\ mig.pc # "off"
          BY <3>0, <5>0
        <5> QED
          BY <3>4, <5>1
      <4> QED
        BY <4>1, <4>2
    <3>11. CASE StageRaises
      <4>1. mig'.pc = "raise" /\ mig'.job = mig.job /\ mig'.source = mig.source
            /\ mig'.target = mig.target /\ mig.pc # "off"
        BY <3>0, <3>11 DEF StageRaises, Working
      <4> QED
        BY <3>4, <4>1
    <3>14. CASE MigPoll
      <4>1. CASE mig.job \in sentinel
        BY <3>4, <3>6, <3>14, <4>1 DEF MigPoll
      <4>2. CASE mig.job \notin sentinel
        <5>1. mig'.pc = "work" /\ mig'.job = mig.job /\ mig'.source = mig.source
              /\ mig'.target = mig.target /\ mig.pc # "off"
          BY <3>0, <3>14, <4>2 DEF MigPoll
        <5> QED
          BY <3>4, <5>1
      <4> QED
        BY <4>1, <4>2
    <3>12. CASE MigDies
      <4>1. CASE mig' = [mig EXCEPT !.rc = "137"]
        <5>1. mig'.pc = mig.pc /\ mig'.job = mig.job /\ mig'.source = mig.source
              /\ mig'.target = mig.target /\ mig.pc # "off" /\ mig'.doc = mig.doc
          BY <3>0, <3>12, <4>1 DEF MigDies
        <5> QED
          BY <3>4, <5>1
      <4> QED
        BY <3>3, <3>7, <3>12, <4>1 DEF MigDies
    <3>13. CASE Reboot
      BY <3>3, <3>13 DEF Reboot
    <3> QED
      BY <1>2, <3>2, <3>5, <3>8, <3>9, <3>10, <3>11, <3>12, <3>13, <3>14, MigWriters DEF MigNext
  <2>3. api'.pc \in {"cancel", "revert"} => SameRoute(api'.doc, job'[api'.job])
    <3>1. ASSUME NEW j \in Jobs, Cancel(j) PROVE SameRoute(api'.doc, job'[api'.job])
      BY <3>1 DEF Cancel, SameRoute
    <3>2. CASE api.pc \in {"cancel", "revert"} /\ api'.job = api.job /\ api'.doc = api.doc
      <4>1. api.job \in Jobs /\ job[api.job].status # "absent" /\ SameRoute(api.doc, job[api.job])
        BY <1>2, <3>2 DEF DbType, ApiType, CancelInv, RouteInv
      <4>2. SameRoute(job'[api.job], job[api.job])
        BY <1>2, <4>1, RouteKept
      <4> QED
        BY <3>2, <4>1, <4>2 DEF SameRoute
    <3>3. CASE api'.pc \notin {"cancel", "revert"}
      BY <3>3
    <3>4. CASE CancelWritesJob
      BY <1>2, <3>2, <3>4 DEF CancelWritesJob, DbType, ApiType
    <3>5. CASE api' = api
      BY <3>2, <3>3, <3>5
    <3>6. CASE WriteJob
      BY <1>2, <3>3, <3>6 DEF WriteJob, DbType, ApiType
    <3> QED
      BY <1>2, <3>1, <3>3, <3>4, <3>5, <3>6, ApiWriters DEF StartMigration, WriteFlag, CancelReverts, Reboot
  <2> QED
    BY <2>1, <2>2, <2>3 DEF RouteInv
<1>3. ASSUME DbType /\ CancelInv, RouteInv, [Next]_vars PROVE RouteInv'
  BY <1>2, <1>3
<1> QED
  BY MigrationInv, <1>1, <1>3, PTL DEF Spec

-----------------------------------------------------------------------------
(* A settled backend comes with its own url *)

UrlOf(b) == IF b \in Pg THEN b ELSE None

\* A job that a handler, a tick or its own status still holds.
Busy(j) == Active(j) \/ (api.pc # "idle" /\ api.job = j) \/ (apl.pc = "waiting" /\ apl.job = j)

OneBusy == \A j, k \in Jobs : Busy(j) /\ Busy(k) => j = k

\* A migrator runs only below a waiting tick, and both know the url to roll
\* back to; it stays in the overlay until the flip.
TickUrl ==
    /\ mig.pc # "off" => apl.pc = "waiting" /\ apl.job = mig.job /\ mig.surl = UrlOf(mig.source) /\ mig.rc # "137"
    /\ apl.pc = "waiting" => apl.source \in Stable /\ apl.surl = UrlOf(apl.source)
    /\ mig.pc # "off" /\ (mig.pc = "start" \/ mig.next # "success") => yaml.url = UrlOf(mig.source)

\* A transient overlay belongs to somebody.
OverlayUrl ==
    /\ yaml.backend \in Stable => yaml.url = UrlOf(yaml.backend)
    /\ yaml.backend \in Transient => \E j \in Jobs : Busy(j)

\* An active job finds the overlay at its source's url or at its target.
JobUrl ==
    \A j \in Jobs : Active(j) =>
        /\ job[j].source \in Stable
        /\ yaml.url = UrlOf(job[j].source) \/ yaml = [backend |-> job[j].target, url |-> job[j].target]
        /\ job[j].step # "flip_backend" => yaml.url = UrlOf(job[j].source)
        /\ job[j].status = "pending" => yaml.url = UrlOf(job[j].source) /\ job[j].surl = UrlOf(job[j].source)

\* A handler finds it at its source's; none queues a job below a waiting tick.
HandlerUrl ==
    /\ api.pc \in {"cancel", "revert", "job"} => api.doc.source \in Stable /\ yaml.url = UrlOf(api.doc.source)
    /\ api.pc = "job" => api.doc.surl = UrlOf(api.doc.source)
    /\ api.pc \in {"job", "flag"} => apl.pc # "waiting"
    /\ api.pc = "flag" => job[api.job].status = "pending"

UrlInv == OneBusy /\ TickUrl /\ OverlayUrl /\ JobUrl /\ HandlerUrl

\* A document that leaves DuckDB has no url to restore.
Plain(d) == d.source = "duckdb" => d.surl = None
PlainInv == Plain(api.doc) /\ Plain(mig.doc) /\ \A j \in Jobs : Plain(job[j])

LEMMA UrlNames ==
    /\ \A b \in Stable : UrlOf(b) = IF b = "duckdb" THEN None ELSE b
    /\ \A b \in Pg : UrlOf(b) = b /\ b # None /\ b # "duckdb"
    /\ UrlOf("duckdb") = None /\ "duckdb" \in Stable
    /\ "duckdb" \notin Pg /\ None \notin Stable
    /\ \A b \in Stable : b = "duckdb" \/ b \in Pg
BY Names DEF UrlOf, Stable, Pg, Backs

\* A gap is never forgotten, and one that is reached shows.
LEMMA GapFirst == ASSUME NEW g \in Gaps, Gap(g) PROVE gap' # None
BY NoneAssumption DEF Gap

LEMMA GapStays == ASSUME [Next]_vars, gap' = None PROVE gap = None
<1>1. gap' = gap \/ \E g \in Gaps : Gap(g)
  BY DEF Gaps, Next, vars, AppWrite, AppStart, ApiNext, StartMigration, Cancel, WriteJob,
   WriteFlag, CancelWritesJob, CancelReverts, MigNext, MigStart, MigRead, MigWrite, MigPoll, BackupCancelled,
   MigDropped, Prepare, Copy, Verify, Flip, MigRevert, StageReports, StageRaises, AplNext, Tick,
   Recover, Lifecycle, Launch, Settle, Restart, FaultNext, MigDies, Expire, RecoverRefused,
   NotReady, SettleRefused, Abort, Reboot, FlagGap
<1> QED
  BY <1>1, GapFirst

\* No document that is written keeps a url for DuckDB.
LEMMA PlainKept == Spec => []PlainInv
<1>1. Init => PlainInv
  BY DocTypes, Names, UrlNames DEF Init, PlainInv, Plain, NoHandler, NoMigrator, NoJob
<1>2. ASSUME DbType, CancelInv, PlainInv, [Next]_vars PROVE PlainInv'
  <2> USE UrlNames
  <2>0. Plain(NoJob) /\ Plain(NoHandler.doc) /\ Plain(NoMigrator.doc) /\ job \in [Jobs -> Docs]
        /\ mig \in [pc: {"off", "start", "read", "write", "poll", "work", "revert", "raise"}, job: Jobs \cup {None},
                    source: Backs \cup {None}, target: Pg \cup {None}, surl: Urls,
                    next: Nexts \cup {None}, doc: Docs, rc: {"exit", "137"}]
    BY <1>2 DEF Plain, NoHandler, NoMigrator, NoJob, DbType, JobType, MigType
  <2>1. Plain(api.doc')
    <3>1. ASSUME NEW j \in Jobs, NEW t \in Pg, StartMigration(j, t) PROVE Plain(api'.doc)
      BY <3>1 DEF StartMigration, Plain
    <3>2. ASSUME NEW j \in Jobs, Cancel(j) PROVE Plain(api'.doc)
      BY <1>2, <3>2 DEF Cancel, PlainInv
    <3>3. CASE WriteJob \/ CancelWritesJob
      BY <1>2, <3>3 DEF WriteJob, CancelWritesJob, PlainInv, DbType, ApiType
    <3>4. CASE WriteFlag \/ CancelReverts \/ Reboot
      BY <2>0, <3>4 DEF WriteFlag, CancelReverts, Reboot
    <3> QED
      BY <1>2, <3>1, <3>2, <3>3, <3>4, ApiWriters DEF PlainInv
  <2>2. Plain(mig'.doc)
    <3>1. mig'.doc = mig.doc \/ mig'.doc = NoJob \/ (mig'.doc = job[mig.job] /\ mig.job \in Jobs)
      <4>1. CASE mig' = mig
        BY <4>1
      <4>2. CASE MigRead
        BY <1>2, <2>0, <4>2 DEF MigRead, DbType, MigType
      <4>3. CASE MigDies
        <5>1. \/ \E rc : mig' = [NoMigrator EXCEPT !.rc = rc]
              \/ mig' = [mig EXCEPT !.rc = "137"]
          BY <4>3 DEF MigDies, Exit
        <5> QED
          BY <2>0, <5>1 DEF NoMigrator
      <4>9. CASE Launch
        BY <4>9 DEF Launch, NoMigrator
      <4>10. CASE Reboot
        BY <4>10 DEF Reboot, NoMigrator
      <4>4. CASE MigWrite
        BY <2>0, <4>4 DEF MigWrite, Exit, NoMigrator
      <4>11. CASE MigPoll
        BY <2>0, <4>11 DEF MigPoll, Update
      <4>5. ASSUME NEW n, Update(n) PROVE mig'.doc = mig.doc
        BY <2>0, <4>5 DEF Update
      <4>6. ASSUME NEW rc, Exit(rc) PROVE mig'.doc = NoJob
        BY <4>6 DEF Exit, NoMigrator
      <4>7. CASE StageRaises
        BY <2>0, <4>7 DEF StageRaises
      <4>8. CASE MigStart \/ BackupCancelled \/ MigDropped \/ Prepare \/ Copy \/ Verify \/ StageReports \/ Flip \/ MigRevert
        <5>1. (\E n : Update(n)) \/ Exit("exit")
          BY <4>8 DEF MigStart, MigPoll, BackupCancelled, MigDropped, Prepare, Copy, Verify, StageReports, Flip, MigRevert
        <5> QED
          BY <4>5, <4>6, <5>1
      <4> QED
        BY <1>2, <4>1, <4>2, <4>3, <4>4, <4>7, <4>8, <4>9, <4>10, <4>11, MigWriters DEF MigNext
    <3> QED
      BY <1>2, <2>0, <3>1 DEF PlainInv
  <2>3. ASSUME NEW k \in Jobs PROVE Plain(job'[k])
    <3>a. ASSUME NEW j \in Jobs, NEW d, job' = [job EXCEPT ![j] = d], Plain(d) PROVE Plain(job'[k])
      BY <1>2, <2>0, <3>a DEF PlainInv
    <3>b. ASSUME NEW j \in Jobs, NEW s, job' = [job EXCEPT ![j].status = s] PROVE Plain(job'[k])
      <4>1. job'[k].source = job[k].source /\ job'[k].surl = job[k].surl
        BY <2>0, <3>b DEF Docs
      <4> QED
        BY <1>2, <4>1 DEF PlainInv, Plain
    <3>1. CASE job' = job
      BY <1>2, <3>1 DEF PlainInv
    <3>2. ASSUME NEW j \in Jobs, Recover(j) \/ Expire(j) \/ RecoverRefused(j) PROVE Plain(job'[k])
      BY <3>2, <3>b DEF Recover, Expire, RecoverRefused
    <3>3. CASE WriteJob
      BY <1>2, <3>3, <3>a DEF WriteJob, PlainInv, DbType, ApiType
    <3>4. CASE CancelWritesJob
      <4> DEFINE d == [api.doc EXCEPT !.status = "cancelled"]
      <4>1. api.job \in Jobs /\ job' = [job EXCEPT ![api.job] = d] /\ api.doc \in Docs /\ Plain(api.doc)
        BY <1>2, <3>4 DEF CancelWritesJob, DbType, ApiType, Named, PlainInv
      <4>2. Plain(d)
        BY <4>1 DEF Plain, Docs
      <4> HIDE DEF d
      <4> QED
        BY <3>a, <4>1, <4>2
    <3>5. CASE MigStart
      <4> DEFINE d == [status |-> "running", step |-> "validate", source |-> mig.source,
                       target |-> mig.target, surl |-> None]
      <4>1. job' = job \/ (mig.job \in Jobs /\ job' = [job EXCEPT ![mig.job] = d])
        BY <1>2, <3>5 DEF MigStart, DbType, MigType
      <4>2. Plain(d)
        BY DEF Plain
      <4> HIDE DEF d
      <4> QED
        BY <3>1, <3>a, <4>1, <4>2
    <3>6. CASE MigWrite
      <4> DEFINE d == IF mig.next \in Stages THEN [mig.doc EXCEPT !.step = mig.next]
                      ELSE [mig.doc EXCEPT !.status = StatusOf(mig.next)]
      <4>1. mig.job \in Jobs /\ mig.doc \in Docs /\ job' = [job EXCEPT ![mig.job] = d] /\ Plain(mig.doc)
        BY <1>2, <3>6 DEF MigWrite, DbType, MigType, PlainInv, Named
      <4>2. Plain(d)
        BY <4>1 DEF Plain, Docs
      <4> HIDE DEF d
      <4> QED
        BY <3>a, <4>1, <4>2
    <3>7. CASE Settle \/ SettleRefused \/ Abort
      <4>1. apl.job \in Jobs /\ \E s : job' = [job EXCEPT ![apl.job].status = s]
        BY <1>2, <3>7, FinalIs DEF Settle, SettleRefused, Abort
      <4> QED
        BY <3>b, <4>1
    <3> QED
      BY <1>2, <3>1, <3>2, <3>3, <3>4, <3>5, <3>6, <3>7, JobWriters
  <2> QED
    BY <2>1, <2>2, <2>3 DEF PlainInv
<1>3. ASSUME DbType /\ CancelInv, PlainInv, [Next]_vars PROVE PlainInv'
  BY <1>2, <1>3
<1> QED
  BY MigrationInv, <1>1, <1>3, PTL DEF Spec

\* What a state may change that the overlay's url does not depend on.
LEMMA UrlFrame ==
    ASSUME UrlInv, UNCHANGED <<yaml, job, api, mig, apl>>
    PROVE  UrlInv'
BY DEF UrlInv, OneBusy, Busy, Active, TickUrl, OverlayUrl, JobUrl, HandlerUrl

\* The migrator goes on, or ends; the flip is not among these steps.
LEMMA UrlMigFrame ==
    ASSUME UrlInv, UNCHANGED <<yaml, job, api, apl>>,
           \/ mig'.pc = "off"
           \/ /\ mig.pc # "off" /\ mig'.pc # "start"
              /\ mig'.job = mig.job /\ mig'.source = mig.source /\ mig'.surl = mig.surl /\ mig'.rc = mig.rc
              /\ mig'.next # "success" => mig.pc = "start" \/ mig.next # "success"
    PROVE  UrlInv'
<1>1. OneBusy' /\ OverlayUrl' /\ JobUrl' /\ HandlerUrl'
  BY DEF UrlInv, OneBusy, Busy, Active, OverlayUrl, JobUrl, HandlerUrl
<1>2. TickUrl'
  BY DEF UrlInv, TickUrl
<1> QED
  BY <1>1, <1>2 DEF UrlInv

\* A tick moves before it runs the migrator, or after.
LEMMA UrlAplFrame ==
    ASSUME UrlInv, UNCHANGED <<yaml, job, api, mig>>, apl.pc # "waiting", apl'.pc # "waiting"
    PROVE  UrlInv'
<1>1. OneBusy' /\ OverlayUrl'
  BY DEF UrlInv, OneBusy, Busy, Active, OverlayUrl
<1>2. JobUrl' /\ HandlerUrl'
  BY DEF UrlInv, JobUrl, Active, HandlerUrl
<1>3. TickUrl'
  BY DEF UrlInv, TickUrl
<1> QED
  BY <1>1, <1>2, <1>3 DEF UrlInv

\* The handler's steps.
LEMMA UrlApi ==
    ASSUME DbType, CancelInv, RouteInv, UrlInv, ApiNext, gap = None, gap' = None
    PROVE  UrlInv'
<1> USE UrlNames, Names, DocTypes
<1>0. /\ job \in [Jobs -> Docs] /\ yaml \in [backend: Backs, url: Urls]
      /\ api \in [pc: {"idle", "job", "flag", "cancel", "revert"}, job: Jobs \cup {None}, doc: Docs]
      /\ (api.pc # "idle" => api.job \in Jobs /\ api.doc.target \in Pg)
      /\ (mig.pc # "off" => mig.job \in Jobs) /\ (apl.pc = "waiting" => apl.job \in Jobs)
  BY DEF DbType, YamlType, ApiType, JobType, MigType, AplType, Named
<1>1. ASSUME NEW j \in Jobs, NEW t \in Pg, StartMigration(j, t) PROVE UrlInv'
  <2>1. ~ UnderWay /\ Seen = yaml
    BY <1>1, GapFirst DEF StartMigration, Gaps
  <2>2. mig.pc = "off" /\ apl.pc # "waiting" /\ api.pc = "idle" /\ \A k \in Jobs : ~ Active(k)
    BY <1>1, <2>1 DEF StartMigration, UnderWay
  <2>3. \A k \in Jobs : ~ Busy(k)
    BY <2>2 DEF Busy
  <2>4. yaml.backend \in Stable
    BY <1>0, <2>3 DEF UrlInv, OverlayUrl, Backs
  <2>5. yaml.url = UrlOf(yaml.backend)
    BY <2>4 DEF UrlInv, OverlayUrl
  <2>6. yaml'.backend = InProgress(t) /\ yaml'.url = yaml.url
    BY <1>0, <1>1 DEF StartMigration
  <2>7. api'.pc = "job" /\ api'.job = j /\ api'.doc.source = yaml.backend
        /\ api'.doc.surl = IF yaml.backend \in Pg THEN yaml.url ELSE None
    BY <1>1, <2>1 DEF StartMigration
  <2>8. UNCHANGED <<job, mig, apl>>
    BY <1>1 DEF StartMigration
  <2>9. yaml'.backend \notin Stable
    BY <2>6
  <2>10. \A k \in Jobs : ~ Active(k)'
    BY <2>2, <2>8 DEF Active
  <2>11. \A k \in Jobs : Busy(k)' <=> k = j
    BY <2>2, <2>7, <2>8, <2>10 DEF Busy
  <2>12. OneBusy' /\ OverlayUrl'
    BY <2>9, <2>11 DEF OneBusy, OverlayUrl
  <2>13. TickUrl' /\ JobUrl'
    BY <2>2, <2>8, <2>10 DEF TickUrl, JobUrl
  <2>14. HandlerUrl'
    BY <2>2, <2>4, <2>5, <2>6, <2>7, <2>8 DEF HandlerUrl, UrlOf
  <2> QED
    BY <2>12, <2>13, <2>14 DEF UrlInv
<1>2. ASSUME NEW j \in Jobs, Cancel(j) PROVE UrlInv'
  <2>1. /\ UNCHANGED <<yaml, job, mig, apl>> /\ api.pc = "idle"
        /\ api'.pc = "cancel" /\ api'.job = j /\ api'.doc = job[j]
        /\ job[j].status = "running" /\ job[j].step # "flip_backend"
    BY <1>2 DEF Cancel
  <2>2. \A k \in Jobs : Busy(k)' <=> Busy(k)
    BY <2>1 DEF Busy, Active
  <2>3. OneBusy' /\ OverlayUrl'
    BY <2>1, <2>2 DEF UrlInv, OneBusy, OverlayUrl
  <2>4. TickUrl' /\ JobUrl'
    BY <2>1 DEF UrlInv, TickUrl, JobUrl, Active
  <2>5. HandlerUrl'
    BY <2>1 DEF UrlInv, JobUrl, Active, HandlerUrl
  <2> QED
    BY <2>3, <2>4, <2>5 DEF UrlInv
<1>3. CASE WriteJob
  <2> DEFINE k == api.job
  <2>1. /\ job' = [job EXCEPT ![k] = api.doc] /\ api.pc = "job" /\ k \in Jobs /\ api.doc.status = "pending"
        /\ UNCHANGED <<yaml, mig, apl>> /\ api'.pc = "flag" /\ api'.job = k /\ api'.doc = api.doc
    BY <1>0, <1>3 DEF WriteJob, DbType, ApiType
  <2>2. /\ api.doc.source \in Stable /\ yaml.url = UrlOf(api.doc.source)
        /\ api.doc.surl = UrlOf(api.doc.source) /\ apl.pc # "waiting"
    BY <2>1 DEF UrlInv, HandlerUrl
  <2>3. Busy(k) /\ api.job = k
    BY <2>1 DEF Busy
  <2> HIDE DEF k
  <2>4. job'[k] = api.doc /\ \A j \in Jobs : j # k => job'[j] = job[j]
    BY <1>0, <2>1
  <2>5. \A j \in Jobs : Busy(j)' <=> Busy(j)
    BY <2>1, <2>3, <2>4 DEF Busy, Active
  <2>6. OneBusy' /\ OverlayUrl'
    BY <2>1, <2>5 DEF UrlInv, OneBusy, OverlayUrl
  <2>7. TickUrl'
    BY <2>1 DEF UrlInv, TickUrl
  <2>8. JobUrl'
    BY <2>1, <2>2, <2>4 DEF UrlInv, JobUrl, Active
  <2>9. HandlerUrl'
    BY <2>1, <2>2, <2>4 DEF UrlInv, HandlerUrl
  <2> QED
    BY <2>6, <2>7, <2>8, <2>9 DEF UrlInv
<1>4. CASE WriteFlag
  <2>1. UNCHANGED <<yaml, job, mig, apl>> /\ api.pc = "flag" /\ api'.pc = "idle"
    BY <1>4 DEF WriteFlag
  <2>2. Active(api.job) /\ api.job \in Jobs
    BY <1>0, <2>1 DEF UrlInv, HandlerUrl, Active
  <2>3. \A j \in Jobs : Busy(j)' <=> Busy(j)
    BY <2>1, <2>2 DEF Busy, Active
  <2>4. OneBusy' /\ OverlayUrl'
    BY <2>1, <2>3 DEF UrlInv, OneBusy, OverlayUrl
  <2>5. TickUrl' /\ JobUrl' /\ HandlerUrl'
    BY <2>1 DEF UrlInv, TickUrl, JobUrl, Active, HandlerUrl
  <2> QED
    BY <2>4, <2>5 DEF UrlInv
<1>5. CASE CancelWritesJob
  <2> DEFINE k == api.job
             d == [api.doc EXCEPT !.status = "cancelled"]
  <2>1. /\ job' = [job EXCEPT ![k] = d] /\ api.pc = "cancel" /\ k \in Jobs
        /\ UNCHANGED <<yaml, mig, apl>> /\ api'.pc = "revert" /\ api'.job = k /\ api'.doc = api.doc
    BY <1>0, <1>5 DEF CancelWritesJob
  <2>2. d.status = "cancelled"
    BY <1>0, DocKept DEF Terminal
  <2>3. Busy(k) /\ api.job = k
    BY <2>1 DEF Busy
  <2> HIDE DEF k, d
  <2>4. job'[k].status = "cancelled" /\ \A j \in Jobs : j # k => job'[j] = job[j]
    BY <1>0, <2>1, <2>2
  <2>5. \A j \in Jobs : Busy(j)' <=> Busy(j)
    BY <2>1, <2>3, <2>4 DEF Busy, Active
  <2>6. OneBusy' /\ OverlayUrl'
    BY <2>1, <2>5 DEF UrlInv, OneBusy, OverlayUrl
  <2>7. TickUrl'
    BY <2>1 DEF UrlInv, TickUrl
  <2>8. JobUrl'
    BY <2>1, <2>4 DEF UrlInv, JobUrl, Active
  <2>9. HandlerUrl'
    BY <2>1 DEF UrlInv, HandlerUrl
  <2> QED
    BY <2>6, <2>7, <2>8, <2>9 DEF UrlInv
<1>6. CASE CancelReverts
  <2>1. /\ UNCHANGED <<job, mig, apl>> /\ api.pc = "revert" /\ api'.pc = "idle" /\ api.job \in Jobs
        /\ yaml' = [backend |-> api.doc.source, url |-> IF api.doc.source = "duckdb" THEN None ELSE yaml.url]
    BY <1>0, <1>6 DEF CancelReverts
  <2>2. /\ api.doc.source \in Stable /\ yaml.url = UrlOf(api.doc.source)
        /\ Busy(api.job) /\ job[api.job].source = api.doc.source
    BY <2>1 DEF UrlInv, HandlerUrl, Busy, RouteInv, SameRoute
  <2>3. yaml'.backend = api.doc.source /\ yaml'.url = UrlOf(api.doc.source)
    BY <2>1, <2>2
  <2>4. \A j \in Jobs : Busy(j)' => j = api.job
    BY <2>1, <2>2 DEF Busy, Active, UrlInv, OneBusy
  <2>5. OneBusy' /\ OverlayUrl'
    BY <2>2, <2>3, <2>4 DEF OneBusy, OverlayUrl
  <2>6. JobUrl'
    BY <2>1, <2>2, <2>3, <2>4 DEF UrlInv, JobUrl, Active, Busy
  <2>7. mig.pc # "off" => mig.source = api.doc.source
    <3>1. mig.pc # "off" => apl.pc = "waiting" /\ apl.job = mig.job /\ mig.source = job[mig.job].source
      BY DEF UrlInv, TickUrl, RouteInv, SameRoute
    <3>2. mig.pc # "off" => mig.job = api.job
      BY <1>0, <2>1, <2>4, <3>1 DEF Busy
    <3> QED
      BY <2>2, <3>1, <3>2
  <2>8. TickUrl'
    BY <2>1, <2>3, <2>7 DEF UrlInv, TickUrl
  <2>9. HandlerUrl'
    BY <2>1 DEF HandlerUrl
  <2> QED
    BY <2>5, <2>6, <2>8, <2>9 DEF UrlInv
<1> QED
  BY <1>1, <1>2, <1>3, <1>4, <1>5, <1>6 DEF ApiNext

\* The migrator's steps.
LEMMA UrlMig ==
    ASSUME DbType, CancelInv, RouteInv, UrlInv, MigNext, gap = None, gap' = None
    PROVE  UrlInv'
<1> USE UrlNames, Names, DocTypes
<1>0. /\ job \in [Jobs -> Docs] /\ mig.pc # "off" /\ mig.job \in Jobs /\ mig.target \in Pg
      /\ mig \in [pc: {"off", "start", "read", "write", "poll", "work", "revert", "raise"}, job: Jobs \cup {None},
                  source: Backs \cup {None}, target: Pg \cup {None}, surl: Urls,
                  next: Nexts \cup {None}, doc: Docs, rc: {"exit", "137"}]
      /\ (api.pc # "idle" => api.job \in Jobs)
  <2>1. mig.pc # "off"
    BY DEF MigNext, MigStart, MigRead, MigWrite, MigPoll, BackupCancelled, MigDropped, Prepare, Copy, Verify,
       StageReports, StageRaises, Flip, MigRevert, Working
  <2> QED
    BY <2>1 DEF DbType, JobType, MigType, ApiType
<1>t. /\ apl.pc = "waiting" /\ apl.job = mig.job /\ mig.surl = UrlOf(mig.source) /\ mig.rc # "137"
      /\ (mig.pc = "start" \/ mig.next # "success" => yaml.url = UrlOf(mig.source))
      /\ Busy(mig.job) /\ \A j \in Jobs : Busy(j) => j = mig.job
  BY <1>0 DEF UrlInv, TickUrl, Busy, OneBusy
<1>s. mig.source \in Stable /\ job[mig.job].source = mig.source /\ job[mig.job].target = mig.target
  BY <1>0, <1>t DEF UrlInv, TickUrl, RouteInv, SameRoute
<1>d. ASSUME NEW rc, Exit(rc) PROVE mig'.pc = "off"
  BY <1>d DEF Exit
<1>a. ASSUME NEW rc, Exit(rc), UNCHANGED <<yaml, job, api, apl>> PROVE UrlInv'
  <2>1. mig'.pc = "off"
    BY <1>a DEF Exit
  <2> QED
    BY <1>a, <2>1, UrlMigFrame
<1>b. ASSUME NEW n, Update(n), UNCHANGED <<yaml, job, api, apl>>, mig.pc = "start" \/ mig.next # "success"
      PROVE  UrlInv'
  <2>1. mig'.pc = "read" /\ mig'.job = mig.job /\ mig'.source = mig.source /\ mig'.surl = mig.surl /\ mig'.rc = mig.rc
    BY <1>0, <1>b DEF Update
  <2> QED
    BY <1>0, <1>b, <2>1, UrlMigFrame
<1>c. ASSUME NEW d, job' = [job EXCEPT ![mig.job] = d], UNCHANGED <<yaml, api, apl>>,
             d.source = mig.source, d.status # "pending",
             d.status = "running" => mig.pc = "start" \/ mig.next # "success",
             \/ mig'.pc = "off"
             \/ /\ mig'.pc # "start" /\ mig'.job = mig.job /\ mig'.source = mig.source /\ mig'.surl = mig.surl
                /\ mig'.rc = mig.rc /\ (mig'.next # "success" => mig.pc = "start" \/ mig.next # "success")
      PROVE  UrlInv'
  <2>1. job'[mig.job] = d /\ \A j \in Jobs : j # mig.job => job'[j] = job[j]
    BY <1>0, <1>c
  <2>2. \A j \in Jobs : Busy(j)' <=> Busy(j)
    BY <1>c, <1>t, <2>1 DEF Busy, Active
  <2>3. OneBusy' /\ OverlayUrl'
    BY <1>c, <2>2 DEF UrlInv, OneBusy, OverlayUrl
  <2>4. TickUrl'
    BY <1>0, <1>c DEF UrlInv, TickUrl
  <2>5. JobUrl'
    <3>1. \A j \in Jobs : Active(j)' => j = mig.job
      BY <1>t, <2>2 DEF Busy
    <3>2. \A j \in Jobs : Active(j)' => d.status = "running"
      BY <1>c, <2>1, <3>1 DEF Active
    <3>3. \A j \in Jobs : Active(j)' => job'[j].source = mig.source /\ yaml'.url = UrlOf(mig.source)
      BY <1>c, <1>t, <2>1, <3>1, <3>2
    <3>4. \A j \in Jobs : Active(j)' => job'[j].status # "pending"
      BY <1>c, <2>1, <3>1
    <3> QED
      BY <1>s, <3>3, <3>4 DEF JobUrl
  <2>6. HandlerUrl'
    <3>1. api.pc # "flag"
      BY <1>t DEF UrlInv, HandlerUrl
    <3> QED
      BY <1>c, <3>1 DEF UrlInv, HandlerUrl
  <2> QED
    BY <2>3, <2>4, <2>5, <2>6 DEF UrlInv
<1>1. CASE MigStart
  <2> DEFINE d == [status |-> "running", step |-> "validate", source |-> mig.source,
                   target |-> mig.target, surl |-> None]
  <2>1. job' = [job EXCEPT ![mig.job] = d] /\ Update("alembic") /\ UNCHANGED <<yaml, api, apl>> /\ mig.pc = "start"
    BY <1>1, <1>s DEF MigStart
  <2>2. mig'.pc = "read" /\ mig'.job = mig.job /\ mig'.source = mig.source /\ mig'.surl = mig.surl
        /\ mig'.rc = mig.rc
    BY <1>0, <2>1 DEF Update
  <2>3. d.source = mig.source /\ d.status = "running"
    OBVIOUS
  <2> HIDE DEF d
  <2> QED
    BY <1>c, <2>1, <2>2, <2>3
<1>2. CASE MigRead
  <2>1. /\ UNCHANGED <<yaml, job, api, apl>> /\ mig.pc = "read"
        /\ mig'.pc = "write" /\ mig'.job = mig.job /\ mig'.source = mig.source /\ mig'.surl = mig.surl
        /\ mig'.rc = mig.rc /\ mig'.next = mig.next
    BY <1>0, <1>2 DEF MigRead
  <2> QED
    BY <1>0, <2>1, UrlMigFrame
<1>3. CASE MigWrite
  <2> DEFINE d == IF mig.next \in Stages THEN [mig.doc EXCEPT !.step = mig.next]
                  ELSE [mig.doc EXCEPT !.status = StatusOf(mig.next)]
  <2>1. job' = [job EXCEPT ![mig.job] = d] /\ UNCHANGED <<yaml, api, apl>> /\ mig.pc = "write"
        /\ mig.next \in Nexts
    BY <1>3 DEF MigWrite, DbType, MigType
  <2>2. mig.doc \in Docs /\ mig.doc.status \notin {"absent", "success", "pending"} /\ mig.doc.source = mig.source
    BY <1>0, <2>1 DEF CancelInv, RouteInv, SameRoute
  <2>3. d.source = mig.source /\ d.status # "pending" /\ (d.status = "running" => mig.next # "success")
    <3>1. CASE mig.next \in Stages
      BY <2>2, <3>1 DEF Docs, Stages
    <3>2. CASE mig.next \notin Stages
      <4>1. d.status = StatusOf(mig.next) /\ d.source = mig.source
        BY <2>2, <3>2 DEF Docs
      <4>2. StatusOf(mig.next) \in Terminal
        BY <2>1, <3>2 DEF Nexts, StatusOf, Terminal
      <4> QED
        BY <4>1, <4>2 DEF Terminal
    <3> QED
      BY <3>1, <3>2
  <2>4. \/ mig'.pc = "off"
        \/ /\ mig'.pc # "start" /\ mig'.job = mig.job /\ mig'.source = mig.source /\ mig'.surl = mig.surl
           /\ mig'.rc = mig.rc /\ mig'.next = mig.next
    <3>1. CASE mig.next \in {"success", "failed", "dropped"}
      BY <1>3, <1>d, <3>1 DEF MigWrite
    <3>2. CASE mig.next \notin {"success", "failed", "dropped"}
      <4> DEFINE c == IF mig.next = "flip_backend" THEN "work" ELSE IF mig.next \in Stages THEN "poll" ELSE "revert"
      <4>1. mig' = [mig EXCEPT !.doc = NoJob, !.pc = c] /\ c # "start"
        BY <1>3, <3>2 DEF MigWrite
      <4> HIDE DEF c
      <4> QED
        BY <1>0, <4>1
    <3> QED
      BY <3>1, <3>2
  <2>5. d.status = "running" => mig.pc = "start" \/ mig.next # "success"
    BY <2>3
  <2>6. \/ mig'.pc = "off"
        \/ /\ mig'.pc # "start" /\ mig'.job = mig.job /\ mig'.source = mig.source /\ mig'.surl = mig.surl
           /\ mig'.rc = mig.rc /\ (mig'.next # "success" => mig.pc = "start" \/ mig.next # "success")
    BY <2>4
  <2> HIDE DEF d
  <2> QED
    BY <1>c, <2>1, <2>3, <2>5, <2>6
<1>4. CASE BackupCancelled \/ MigDropped \/ Prepare \/ Copy \/ Verify \/ StageReports
  <2>1. \E n : Update(n)
    BY <1>4 DEF MigPoll, BackupCancelled, MigDropped, Prepare, Copy, Verify, StageReports
  <2>2. mig.pc = "work" \/ mig.next = "alembic"
    BY <1>4 DEF MigPoll, BackupCancelled, MigDropped, Prepare, Copy, Verify, StageReports, Working
  <2>3. mig.next # "success"
    BY <2>2 DEF DbType, MigType, Stages
  <2>4. UNCHANGED <<yaml, job, api, apl>>
    BY <1>4 DEF MigPoll, BackupCancelled, MigDropped, Prepare, Copy, Verify, StageReports
  <2> QED
    BY <1>b, <2>1, <2>3, <2>4
<1>5. CASE StageRaises
  <2>1. /\ UNCHANGED <<yaml, job, api, apl>>
        /\ mig'.pc = "raise" /\ mig'.job = mig.job /\ mig'.source = mig.source /\ mig'.surl = mig.surl
        /\ mig'.rc = mig.rc /\ mig'.next = mig.next
    BY <1>0, <1>5 DEF StageRaises
  <2> QED
    BY <1>0, <2>1, UrlMigFrame
<1>6. CASE Flip
  <2>1. mig.pc = "work" /\ mig.next = "flip_backend" /\ api.pc = "idle" /\ UNCHANGED <<job, api, apl>>
    BY <1>6 DEF Flip
  <2>2. CASE mig.job \in sentinel \/ job[mig.job].status = "cancelled"
    BY <1>6, <1>b, <2>1, <2>2 DEF Flip
  <2>3. CASE ~ (mig.job \in sentinel \/ job[mig.job].status = "cancelled")
    <3>1. Update("success") /\ yaml' = [backend |-> mig.target, url |-> mig.target]
      BY <1>6, <2>3 DEF Flip
    <3>2. /\ mig'.pc = "read" /\ mig'.next = "success" /\ mig'.job = mig.job /\ mig'.source = mig.source
          /\ mig'.surl = mig.surl /\ mig'.rc = mig.rc
      BY <1>0, <3>1 DEF Update
    <3>3. job[mig.job].step = "flip_backend" /\ job[mig.job].status # "pending"
      BY <1>0, <2>1, <2>3 DEF CancelInv
    <3>4. \A j \in Jobs : Active(j) => j = mig.job
      BY <1>t DEF Busy
    <3>5. OneBusy' /\ OverlayUrl'
      <4>1. \A j \in Jobs : Busy(j)' <=> Busy(j)
        BY <2>1 DEF Busy, Active
      <4> QED
        BY <1>0, <3>1, <4>1 DEF UrlInv, OneBusy, OverlayUrl
    <3>6. TickUrl'
      BY <1>t, <2>1, <3>2 DEF UrlInv, TickUrl
    <3>7. JobUrl'
      BY <1>s, <2>1, <3>1, <3>3, <3>4 DEF JobUrl, Active
    <3>8. HandlerUrl'
      BY <2>1 DEF HandlerUrl
    <3> QED
      BY <3>5, <3>6, <3>7, <3>8 DEF UrlInv
  <2> QED
    BY <2>2, <2>3
<1>7. CASE MigRevert
  <2>1. mig.pc \in {"revert", "raise"} /\ yaml' = [backend |-> mig.source, url |-> mig.surl]
        /\ UNCHANGED <<job, api, apl>>
    BY <1>7 DEF MigRevert
  <2>2. \/ mig'.pc = "off"
        \/ mig'.pc = "read" /\ mig'.job = mig.job /\ mig'.source = mig.source /\ mig'.surl = mig.surl /\ mig'.rc = mig.rc
    <3>1. Exit("exit") \/ Update("failed")
      BY <1>7 DEF MigRevert
    <3>2. Update("failed") => mig'.pc = "read" /\ mig'.job = mig.job /\ mig'.source = mig.source
                              /\ mig'.surl = mig.surl /\ mig'.rc = mig.rc
      BY <1>0 DEF Update
    <3> QED
      BY <1>d, <3>1, <3>2
  <2>3. yaml'.backend = mig.source /\ yaml'.url = UrlOf(mig.source)
    BY <1>t, <2>1
  <2>4. \A j \in Jobs : Busy(j)' <=> Busy(j)
    BY <2>1 DEF Busy, Active
  <2>5. OneBusy' /\ OverlayUrl'
    BY <1>s, <2>3, <2>4 DEF UrlInv, OneBusy, OverlayUrl
  <2>6. TickUrl'
    BY <1>0, <1>t, <2>1, <2>2, <2>3 DEF UrlInv, TickUrl
  <2>7. JobUrl'
    <3>1. \A j \in Jobs : Active(j) => j = mig.job
      BY <1>t DEF Busy
    <3>2. job[mig.job].status = "pending" => job[mig.job].surl = UrlOf(mig.source)
      BY <1>0, <1>s DEF UrlInv, JobUrl, Active
    <3> QED
      BY <1>s, <2>1, <2>3, <3>1, <3>2 DEF JobUrl, Active
  <2>8. HandlerUrl'
    <3>1. api.pc \in {"cancel", "revert"} => api.doc.source = mig.source
      <4>1. api.pc \in {"cancel", "revert"} => api.job = mig.job /\ api.doc.source = job[api.job].source
        BY <1>0, <1>t DEF Busy, RouteInv, SameRoute
      <4> QED
        BY <1>s, <4>1
    <3>2. api.pc \notin {"job", "flag"}
      BY <1>t DEF UrlInv, HandlerUrl
    <3> QED
      BY <1>s, <2>1, <2>3, <3>1, <3>2 DEF UrlInv, HandlerUrl
  <2> QED
    BY <2>5, <2>6, <2>7, <2>8 DEF UrlInv
<1>8. CASE MigPoll
  <2>1. UNCHANGED <<yaml, job, api, apl>> /\ mig.pc = "poll" /\ mig.next # "success"
    BY <1>8 DEF MigPoll, DbType, MigType, Stages
  <2>2. CASE mig.job \in sentinel
    BY <1>8, <1>b, <2>1, <2>2 DEF MigPoll
  <2>3. CASE mig.job \notin sentinel
    <3>1. /\ mig'.pc = "work" /\ mig'.job = mig.job /\ mig'.source = mig.source /\ mig'.surl = mig.surl
          /\ mig'.rc = mig.rc /\ mig'.next = mig.next
      BY <1>0, <1>8, <2>3 DEF MigPoll
    <3> QED
      BY <1>0, <2>1, <3>1, UrlMigFrame
  <2> QED
    BY <2>2, <2>3
<1> QED
  BY <1>1, <1>2, <1>3, <1>4, <1>5, <1>6, <1>7, <1>8 DEF MigNext

\* Everything the applier's last step leaves behind is on the url it wrote.
LEMMA UrlSettled ==
    ASSUME DbType, CancelInv, RouteInv, UrlInv, apl.pc = "waiting", apl'.pc # "waiting",
           NEW s \in {"running"} \cup Terminal, job' = [job EXCEPT ![apl.job].status = s],
           UNCHANGED <<api, mig>>, mig.pc = "off",
           \/ yaml' = [backend |-> apl.source, url |-> apl.surl]
           \/ /\ yaml' = [backend |-> apl.target, url |-> apl.target]
              /\ s = "success" /\ job[apl.job].status = "success"
    PROVE  UrlInv'
<1> USE UrlNames, Names
<1>0. /\ job \in [Jobs -> Docs] /\ apl.job \in Jobs /\ apl.target \in Pg
      /\ apl.source \in Stable /\ apl.surl = UrlOf(apl.source)
      /\ job[apl.job].source = apl.source /\ job[apl.job].status # "absent"
      /\ (api.pc # "idle" => api.job \in Jobs)
  BY DEF DbType, JobType, AplType, ApiType, UrlInv, TickUrl, RouteInv, SameRoute, CancelInv
<1>1. job'[apl.job].status = s /\ job'[apl.job].source = apl.source /\ \A j \in Jobs : j # apl.job => job'[j] = job[j]
  BY <1>0 DEF Docs
<1>2. \A j \in Jobs : Busy(j) => j = apl.job
  BY <1>0 DEF Busy, UrlInv, OneBusy
<1>3. yaml'.backend \in Stable /\ yaml'.url = UrlOf(yaml'.backend)
  BY <1>0
<1>4. \A j \in Jobs : Active(j)' => j = apl.job /\ s = "running"
  <2>1. \A j \in Jobs : Active(j)' => j = apl.job
    BY <1>1, <1>2 DEF Busy, Active
  <2> QED
    BY <1>1, <2>1 DEF Active, Terminal
<1>5. OneBusy'
  BY <1>2, <1>4 DEF OneBusy, Busy
<1>6. OverlayUrl' /\ TickUrl'
  BY <1>3 DEF OverlayUrl, TickUrl
<1>7. JobUrl'
  <2>1. \A j \in Jobs : Active(j)' => job'[j].status = "running" /\ job'[j].source = apl.source /\ yaml'.url = UrlOf(apl.source)
    BY <1>0, <1>1, <1>4
  <2> QED
    BY <1>0, <2>1 DEF JobUrl
<1>8. HandlerUrl'
  <2>1. api.pc \notin {"job", "flag"}
    BY DEF UrlInv, HandlerUrl
  <2>2. api.pc \in {"cancel", "revert"} =>
           api.doc.source = apl.source /\ api.job = apl.job /\ job[apl.job].status # "success"
    <3>1. api.pc \in {"cancel", "revert"} =>
             /\ api.job = apl.job /\ api.job \in sentinel
             /\ api.doc.source = job[api.job].source
      BY <1>0, <1>2 DEF Busy, RouteInv, SameRoute, CancelInv
    <3> QED
      BY <1>0, <3>1 DEF CancelInv
  <2> QED
    BY <1>0, <2>1, <2>2 DEF HandlerUrl
<1> QED
  BY <1>5, <1>6, <1>7, <1>8 DEF UrlInv

\* The applier's steps and the faults.
LEMMA UrlApl ==
    ASSUME DbType, CancelInv, RouteInv, PlainInv, UrlInv, AplNext \/ FaultNext, gap = None, gap' = None
    PROVE  UrlInv'
<1> USE UrlNames, Names, DocTypes
<1>0. /\ job \in [Jobs -> Docs] /\ yaml \in [backend: Backs, url: Urls]
      /\ apl \in [pc: {"idle", "recover", "picked", "waiting", "restart"}, job: Jobs \cup {None}, flag: Urls,
                  source: Backs \cup {None}, target: Pg \cup {None}, surl: Urls]
      /\ mig \in [pc: {"off", "start", "read", "write", "poll", "work", "revert", "raise"}, job: Jobs \cup {None},
                  source: Backs \cup {None}, target: Pg \cup {None}, surl: Urls,
                  next: Nexts \cup {None}, doc: Docs, rc: {"exit", "137"}]
      /\ (mig.pc # "off" => apl.pc = "waiting")
  BY DEF DbType, YamlType, JobType, AplType, MigType, UrlInv, TickUrl
<1>1. CASE Tick \/ Lifecycle \/ Restart \/ NotReady
  <2>1. UNCHANGED <<yaml, job, api, mig>> /\ apl.pc \in {"idle", "recover", "restart"}
    BY <1>1 DEF Tick, Lifecycle, Restart, NotReady
  <2>2. apl'.pc # "waiting"
    <3>1. CASE Tick
      <4>1. apl'.pc = "recover"
        BY <1>0, <3>1, ZenonT(40) DEF Tick
      <4> QED
        BY <4>1
    <3>2. CASE Lifecycle
      <4>1. apl'.pc = "picked" \/ apl' = NoTick
        BY <1>0, <3>2 DEF Lifecycle
      <4> QED
        BY <4>1
    <3>3. CASE Restart \/ NotReady
      BY <3>3 DEF Restart, NotReady
    <3> QED
      BY <1>1, <3>1, <3>2, <3>3
  <2> QED
    BY <2>1, <2>2, UrlAplFrame
<1>2. ASSUME NEW j \in Jobs, Recover(j) PROVE UrlInv'
  <2>1. /\ apl.pc = "recover" /\ job[j].status = "running" /\ api.pc = "idle"
        /\ job' = [job EXCEPT ![j].status = "failed"]
        /\ yaml' = [backend |-> job[j].source, url |-> job[j].surl] /\ UNCHANGED <<api, mig, apl>>
    BY <1>2 DEF Recover
  <2>2. job[j].source \notin Pg
    BY <1>2, GapFirst DEF Recover, Gaps
  <2>3. Active(j) /\ Busy(j) /\ mig.pc = "off"
    BY <1>0, <2>1 DEF Active, Busy
  <2>4. job[j].source = "duckdb" /\ job[j].surl = None
    BY <2>2, <2>3 DEF UrlInv, JobUrl, PlainInv, Plain
  <2>5. job'[j].status = "failed" /\ \A k \in Jobs : k # j => job'[k] = job[k]
    BY <1>0, <2>1 DEF Docs
  <2>6. \A k \in Jobs : ~ Active(k)'
    BY <2>3, <2>5 DEF Active, Busy, UrlInv, OneBusy
  <2>7. OneBusy' /\ TickUrl' /\ JobUrl' /\ HandlerUrl'
    BY <2>1, <2>3, <2>6 DEF OneBusy, Busy, TickUrl, JobUrl, HandlerUrl
  <2>8. OverlayUrl'
    BY <2>1, <2>4 DEF OverlayUrl
  <2> QED
    BY <2>7, <2>8 DEF UrlInv
<1>3. CASE Launch
  <2> DEFINE k == apl.job
  <2>1. /\ apl.pc = "picked" /\ api.pc = "idle" /\ k \in Jobs /\ job[k].status = "pending"
        /\ UNCHANGED <<yaml, job, api>> /\ mig.pc = "off"
    <3>1. apl.pc = "picked" /\ api.pc = "idle" /\ UNCHANGED <<yaml, job, api>>
      BY <1>3 DEF Launch
    <3> QED
      BY <1>0, <3>1, NoneAssumption DEF DbType, AplType, CancelInv
  <2>2. apl'.pc = "waiting" /\ apl'.job = k /\ apl'.source = job[k].source /\ apl'.surl = job[k].surl
    BY <1>0, <1>3 DEF Launch
  <2>3. mig'.pc = "start" /\ mig'.job = k /\ mig'.source = job[k].source /\ mig'.surl = job[k].surl /\ mig'.rc = "exit"
    BY <1>3 DEF Launch, NoMigrator
  <2>4. Busy(k) /\ Active(k) /\ job[k].source \in Stable /\ yaml.url = UrlOf(job[k].source)
        /\ job[k].surl = UrlOf(job[k].source)
    BY <2>1 DEF Busy, Active, UrlInv, JobUrl
  <2> HIDE DEF k
  <2>5. \A j \in Jobs : Busy(j)' <=> Busy(j)
    BY <2>1, <2>2, <2>4 DEF Busy, Active
  <2>6. OneBusy' /\ OverlayUrl'
    BY <2>1, <2>5 DEF UrlInv, OneBusy, OverlayUrl
  <2>7. TickUrl'
    BY <2>1, <2>2, <2>3, <2>4 DEF TickUrl
  <2>8. JobUrl' /\ HandlerUrl'
    BY <2>1 DEF UrlInv, JobUrl, Active, HandlerUrl
  <2> QED
    BY <2>6, <2>7, <2>8 DEF UrlInv
<1>4. CASE Settle \/ Abort
  <2>1. Returned /\ apl.pc = "waiting" /\ mig.pc = "off" /\ UNCHANGED <<api, mig>>
    BY <1>4 DEF Settle, Abort, Returned, UrlInv, TickUrl
  <2>2. FinalStatus \in {"running"} \cup Terminal
    BY <2>1, FinalIs
  <2>3. CASE Settle
    <3>1. apl'.pc = "restart" /\ job' = [job EXCEPT ![apl.job].status = FinalStatus]
      BY <2>3 DEF Settle, NoTick
    <3>2. FinalStatus = "success" => job[apl.job].status = "success"
      BY DEF FinalStatus
    <3>3. \/ yaml' = [backend |-> apl.source, url |-> apl.surl]
          \/ /\ yaml' = [backend |-> apl.target, url |-> apl.target]
             /\ FinalStatus = "success" /\ job[apl.job].status = "success"
      BY <2>3, <3>2 DEF Settle
    <3>4. apl'.pc # "waiting"
      BY <3>1
    <3> HIDE DEF FinalStatus
    <3> QED
      BY <2>1, <2>2, <3>1, <3>3, <3>4, UrlSettled
  <2>4. CASE Abort
    <3>1. apl'.pc # "waiting" /\ job' = [job EXCEPT ![apl.job].status = "failed"]
          /\ yaml' = [backend |-> apl.source, url |-> apl.surl]
      BY <2>4 DEF Abort
    <3> QED
      BY <2>1, <3>1, UrlSettled DEF Terminal
  <2> QED
    BY <1>4, <2>3, <2>4
<1>5. CASE MigDies
  <2>1. ~ Gap("orphan")
    BY GapFirst DEF Gaps
  <2>2. Exit("137") \/ Exit("exit")
    BY <1>5, <2>1 DEF MigDies
  <2>3. mig'.pc = "off"
    BY <2>2 DEF Exit
  <2> QED
    BY <1>5, <2>3, UrlMigFrame DEF MigDies
<1>6. CASE Reboot
  <2>1. /\ UNCHANGED <<yaml, job>> /\ apl'.pc = "idle" /\ mig'.pc = "off" /\ api'.pc = "idle"
    BY <1>6 DEF Reboot
  <2>2. Unfinished => \E j \in Jobs : Active(j)
    BY <1>6, GapFirst DEF Reboot, Gaps
  <2>3. \A j \in Jobs : (Busy(j)' <=> Active(j)) /\ (Active(j) => Busy(j))
    BY <2>1 DEF Busy, Active
  <2>4. OneBusy'
    BY <2>3 DEF UrlInv, OneBusy
  <2>5. OverlayUrl'
    BY <2>1, <2>2, <2>3 DEF UrlInv, OverlayUrl, Unfinished
  <2>6. TickUrl' /\ JobUrl' /\ HandlerUrl'
    BY <2>1 DEF UrlInv, TickUrl, JobUrl, Active, HandlerUrl
  <2> QED
    BY <2>4, <2>5, <2>6 DEF UrlInv
<1>7. ~ SettleRefused /\ \A j \in Jobs : ~ Expire(j) /\ ~ RecoverRefused(j)
  BY GapFirst DEF SettleRefused, Expire, RecoverRefused, Gaps
<1> QED
  BY <1>1, <1>2, <1>3, <1>4, <1>5, <1>6, <1>7 DEF AplNext, FaultNext

\* At the start.
LEMMA InitUrl == Init => UrlInv
<1> SUFFICES ASSUME Init PROVE UrlInv
  OBVIOUS
<1> USE UrlNames, Names, DocTypes
<1>1. PICK b \in Stable : yaml = [backend |-> b, url |-> IF b = "duckdb" THEN None ELSE b]
  BY DEF Init
<1>2. job = [j \in Jobs |-> NoJob] /\ api.pc = "idle" /\ mig.pc = "off" /\ apl.pc = "idle"
  BY DEF Init
<1>3. \A j \in Jobs : ~ Active(j) /\ ~ Busy(j)
  BY <1>2 DEF Active, Busy
<1>4. OverlayUrl
  BY <1>1 DEF OverlayUrl
<1> QED
  BY <1>2, <1>3, <1>4 DEF UrlInv, OneBusy, TickUrl, JobUrl, HandlerUrl

\* Until a known gap the urls agree.
LEMMA UrlsAgree == Spec => [](gap = None => UrlInv)
<1>1. Init => (gap = None => UrlInv)
  BY InitUrl
<1>2. ASSUME DbType, CancelInv, RouteInv, PlainInv, gap = None => UrlInv, [Next]_vars
      PROVE  (gap = None => UrlInv)'
  <2> SUFFICES ASSUME gap' = None PROVE UrlInv'
    OBVIOUS
  <2>1. gap = None /\ UrlInv
    BY <1>2, GapStays
  <2>2. CASE AppWrite \/ AppStart \/ UNCHANGED vars
    BY <2>1, <2>2, UrlFrame DEF AppWrite, AppStart, vars
  <2> QED
    BY <1>2, <2>1, <2>2, UrlApi, UrlMig, UrlApl DEF Next
<1>3. ASSUME DbType /\ CancelInv, RouteInv, PlainInv, gap = None => UrlInv, [Next]_vars
      PROVE  (gap = None => UrlInv)'
  BY <1>2, <1>3
<1> QED
  BY MigrationInv, RoutesAgree, PlainKept, <1>1, <1>3, PTL DEF Spec

\* Outside the known gaps a settled backend comes with its own url, whichever of
\* the five paths that write the overlay was the last, and wherever the handler,
\* the migrator and the applier stopped: a job that anybody still works on is
\* the only one, and everybody who may roll it back remembers the url of its source.
THEOREM UrlKept == Spec => []UrlFollowsBackend
<1>1. DbType /\ (gap = None => UrlInv) => UrlFollowsBackend
  BY UrlNames DEF DbType, YamlType, UrlFollowsBackend, Protected, UrlInv, OverlayUrl
<1> QED
  BY MigrationInv, UrlsAgree, <1>1, PTL

-----------------------------------------------------------------------------
(* No write of the application is lost *)

\* The store of an overlay, and of a source.
Home(y) == IF y.url # None THEN y.url ELSE "duckdb"
HomeOf(b) == IF b \in Pg THEN b ELSE "duckdb"

\* The store the overlay stands for holds the last write,
HomeHolds == store[Home(yaml)] = written

\* so does the source of a tick, and its target once the job is a success,
TickHolds ==
    apl.pc = "waiting" =>
        /\ store[HomeOf(apl.source)] = written
        /\ job[apl.job].status = "success" => store[apl.target] = written

\* so does the target of a migrator that has verified the copy,
CopyHolds ==
    mig.pc \notin {"off", "start"} /\ mig.next \in {"flip_backend", "success"} => store[mig.target] = written

\* and so does the store an application found in the overlay when it started.
SeenHolds ==
    app.seen # Unread =>
        /\ store[Home(app.seen)] = written
        /\ ~ UnderWay => Home(app.seen) = Home(yaml)
        /\ apl.pc = "waiting" => Home(app.seen) = HomeOf(apl.source)
        /\ app.seen.backend = "duckdb" <=> app.seen.url = None

WriteInv == HomeHolds /\ TickHolds /\ CopyHolds /\ SeenHolds

LEMMA Homes ==
    /\ \A y \in [backend: Backs, url: Urls] : Home(y) \in Stable
    /\ \A b \in Stable : HomeOf(b) \in Stable
    /\ \A y \in [backend: Backs, url: Urls], b \in Stable : y.url = UrlOf(b) => Home(y) = HomeOf(b)
<1> USE UrlNames, Names
<1>1. \A y \in [backend: Backs, url: Urls] : Home(y) \in Stable
  BY DEF Home, Urls
<1>2. \A b \in Stable : HomeOf(b) \in Stable
  BY DEF HomeOf
<1>3. \A y, b : b \in Stable /\ y.url = UrlOf(b) => Home(y) = HomeOf(b)
  BY DEF Home, HomeOf, UrlOf
<1> QED
  BY <1>1, <1>2, <1>3

\* An application that may write, writes to the store of the overlay it saw.
LEMMA StoreSeen ==
    ASSUME DbType, UrlInv, WriteInv, Protected, app.up, StoreOf(Seen) # None
    PROVE  /\ StoreOf(Seen) = Home(Seen) /\ store[Home(Seen)] = written /\ Home(Seen) \in Stable
           /\ Seen.backend = "duckdb" <=> Seen.url = None
<1> USE UrlNames, Names
<1>1. Seen \in [backend: Backs, url: Urls]
  BY SeenType DEF DbType
<1>2. store[Home(Seen)] = written
  BY DEF Seen, WriteInv, HomeHolds, SeenHolds
<1>3. Seen.backend \in Stable => (Seen.backend = "duckdb" <=> Seen.url = None)
  <2>1. CASE app.seen = Unread
    BY <2>1 DEF Seen, UrlInv, OverlayUrl
  <2>2. CASE app.seen # Unread
    BY <2>2 DEF Seen, WriteInv, SeenHolds
  <2> QED
    BY <2>1, <2>2
<1>4. Seen.backend \in Transient => Seen.url # None
  BY DEF StoreOf, Protected, OnTheEnvironment
<1>5. Seen.backend = "duckdb" <=> Seen.url = None
  BY <1>1, <1>3, <1>4 DEF Backs
<1>6. StoreOf(Seen) = Home(Seen)
  BY <1>5 DEF StoreOf, Home
<1> QED
  BY <1>1, <1>2, <1>5, <1>6, Homes

\* The application.
LEMMA WriteApp ==
    ASSUME DbType, UrlInv, WriteInv, Protected, gap' = None, AppWrite \/ AppStart \/ UNCHANGED vars
    PROVE  WriteInv'
<1>1. CASE AppWrite
  <2> DEFINE s == Home(Seen)
  <2>1. /\ app.up /\ StoreOf(Seen) # None /\ written' = written + 1
        /\ store' = [store EXCEPT ![StoreOf(Seen)] = written + 1]
        /\ app' = [app EXCEPT !.seen = Seen] /\ UNCHANGED <<yaml, job, mig, apl>>
    BY <1>1 DEF AppWrite
  <2>2. ~ UnderWay
    BY <1>1, GapFirst DEF AppWrite, Gaps
  <2>3. StoreOf(Seen) = s /\ s \in Stable /\ (Seen.backend = "duckdb" <=> Seen.url = None)
    BY <2>1, StoreSeen
  <2>4. s = Home(yaml)
    BY <2>2 DEF Seen, WriteInv, SeenHolds
  <2>5. app'.seen = Seen
    BY <2>1 DEF DbType, AppType
  <2>6. s = Home(app'.seen)
    BY <2>5
  <2> HIDE DEF s
  <2>7. store'[s] = written'
    BY <2>1, <2>3 DEF DbType, RestType
  <2>8. mig.pc = "off" /\ apl.pc # "waiting"
    BY <2>2 DEF UnderWay
  <2>9. HomeHolds' /\ TickHolds' /\ CopyHolds'
    BY <2>1, <2>4, <2>7, <2>8 DEF HomeHolds, TickHolds, CopyHolds
  <2>10. SeenHolds'
    BY <2>1, <2>3, <2>4, <2>5, <2>6, <2>7, <2>8 DEF SeenHolds
  <2> QED
    BY <2>9, <2>10 DEF WriteInv
<1>2. CASE AppStart
  <2>1. app'.seen = Unread /\ UNCHANGED <<yaml, job, mig, apl, store, written>>
    BY <1>2 DEF AppStart, Started
  <2> QED
    BY <2>1 DEF WriteInv, HomeHolds, TickHolds, CopyHolds, SeenHolds
<1>3. CASE UNCHANGED vars
  BY <1>3 DEF vars, WriteInv, HomeHolds, TickHolds, CopyHolds, SeenHolds, UnderWay
<1> QED
  BY <1>1, <1>2, <1>3

\* The handler's steps.
LEMMA WriteApi ==
    ASSUME DbType, UrlInv, UrlInv', WriteInv, ApiNext
    PROVE  WriteInv'
<1> USE Names
<1>0. job \in [Jobs -> Docs] /\ yaml \in [backend: Backs, url: Urls] /\ (api.pc # "idle" => api.job \in Jobs)
      /\ (apl.pc = "waiting" => apl.job \in Jobs)
      /\ app = [up |-> app.up, seen |-> app.seen, env |-> app.env]
  BY DEF DbType, YamlType, JobType, ApiType, AppType, AplType
<1>1. UNCHANGED <<store, written, mig, apl>>
  BY DEF ApiNext, StartMigration, Cancel, WriteJob, WriteFlag, CancelWritesJob, CancelReverts
<1>2. Home(yaml') = Home(yaml)
  <2>1. CASE CancelReverts
    <3>1. api.doc.source \in Stable /\ yaml.url = UrlOf(api.doc.source)
      BY <2>1 DEF CancelReverts, UrlInv, HandlerUrl
    <3>2. yaml'.url = yaml.url
      BY <2>1, <3>1, UrlNames DEF CancelReverts
    <3> QED
      BY <3>2 DEF Home
  <2>2. ASSUME NEW j \in Jobs, NEW t \in Pg, StartMigration(j, t) PROVE Home(yaml') = Home(yaml)
    <3>1. yaml'.url = yaml.url
      BY <1>0, <2>2 DEF StartMigration
    <3> QED
      BY <3>1 DEF Home
  <2>3. CASE ~ CancelReverts /\ \A j \in Jobs, t \in Pg : ~ StartMigration(j, t)
    BY <2>3 DEF ApiNext, Cancel, WriteJob, WriteFlag, CancelWritesJob
  <2> QED
    BY <2>1, <2>2, <2>3
<1>3. app'.seen = Unread \/ app' = app
  BY <1>0 DEF ApiNext, StartMigration, Cancel, WriteJob, WriteFlag, CancelWritesJob, CancelReverts
<1>4. apl.pc = "waiting" /\ job'[apl.job].status = "success" => job[apl.job].status = "success"
  <2>1. CASE job' = job
    BY <2>1
  <2>2. CASE WriteJob
    BY <2>2 DEF WriteJob, UrlInv, HandlerUrl
  <2>3. CASE CancelWritesJob
    <3> DEFINE d == [api.doc EXCEPT !.status = "cancelled"]
    <3>1. job' = [job EXCEPT ![api.job] = d] /\ api.job \in Jobs /\ api.doc \in Docs
      BY <1>0, <2>3 DEF CancelWritesJob, DbType, ApiType
    <3>2. d.status = "cancelled"
      BY <3>1 DEF Docs
    <3> HIDE DEF d
    <3> QED
      BY <1>0, <3>1, <3>2
  <2> QED
    BY <2>1, <2>2, <2>3 DEF ApiNext, StartMigration, Cancel, WriteFlag, CancelReverts
<1>5. HomeHolds'
  BY <1>1, <1>2 DEF WriteInv, HomeHolds
<1>6. TickHolds' /\ CopyHolds'
  BY <1>1, <1>4 DEF WriteInv, TickHolds, CopyHolds
<1>7. SeenHolds'
  BY <1>1, <1>2, <1>3 DEF WriteInv, SeenHolds, UnderWay
<1> QED
  BY <1>5, <1>6, <1>7 DEF WriteInv

\* The migrator's steps.
LEMMA WriteMig ==
    ASSUME DbType, CancelInv, RouteInv, UrlInv, UrlInv', WriteInv, MigNext, gap' = None
    PROVE  WriteInv'
<1> USE UrlNames, Names
<1>0. /\ job \in [Jobs -> Docs] /\ mig.pc # "off" /\ mig.job \in Jobs /\ mig.target \in Pg
      /\ mig \in [pc: {"off", "start", "read", "write", "poll", "work", "revert", "raise"}, job: Jobs \cup {None},
                  source: Backs \cup {None}, target: Pg \cup {None}, surl: Urls,
                  next: Nexts \cup {None}, doc: Docs, rc: {"exit", "137"}]
  <2>1. mig.pc # "off"
    BY DEF MigNext, MigStart, MigRead, MigWrite, MigPoll, BackupCancelled, MigDropped, Prepare, Copy, Verify,
       StageReports, StageRaises, Flip, MigRevert, Working
  <2> QED
    BY <2>1 DEF DbType, JobType, MigType
<1>t. /\ apl.pc = "waiting" /\ apl.job = mig.job /\ mig.surl = UrlOf(mig.source)
      /\ apl.source = mig.source /\ apl.target = mig.target /\ mig.source \in Stable
  BY <1>0 DEF UrlInv, TickUrl, RouteInv, SameRoute
<1>s. mig.pc # "start" => Source = HomeOf(mig.source) /\ Source \in Stable /\ store[Source] = written
  <2>1. Source = HomeOf(mig.source)
    BY <1>t DEF Source, HomeOf
  <2> QED
    BY <1>t, <2>1, Homes DEF WriteInv, TickHolds
<1>1. UNCHANGED <<app, apl, written>>
  BY DEF MigNext, MigStart, MigRead, MigWrite, MigPoll, BackupCancelled, MigDropped, Prepare, Copy, Verify,
     StageReports, StageRaises, Flip, MigRevert
<1>d. ASSUME NEW rc, Exit(rc) PROVE mig'.pc = "off"
  BY <1>d, DocTypes DEF Exit
<1>b. ASSUME NEW n, Update(n) PROVE mig'.pc = "read" /\ mig'.next = n /\ mig'.target = mig.target
  BY <1>0, <1>b DEF Update
\* What held the last write still does.
<1>2. \A s \in Stable : store[s] = written => store'[s] = written
  <2>1. CASE Copy
    <3>1. mig.pc # "start" /\ store' = [store EXCEPT ![mig.target] =
                    IF Source = "duckdb" \/ store[mig.target] = 0 THEN store[Source] ELSE store[mig.target]]
      BY <2>1 DEF Copy, Working
    <3> QED
      BY <1>s, <3>1 DEF DbType, RestType
  <2>2. CASE ~ Copy
    BY <2>2 DEF MigNext, MigStart, MigRead, MigWrite, MigPoll, BackupCancelled, MigDropped, Prepare, Verify,
       StageReports, StageRaises, Flip, MigRevert
  <2> QED
    BY <2>1, <2>2
\* A copy that was verified is the last write.
<1>3. mig'.pc \notin {"off", "start"} /\ mig'.next \in {"flip_backend", "success"} =>
          mig'.target = mig.target /\ store[mig.target] = written
  <2>1. CASE Verify
    <3>1. ~ Gap("sample")
      BY GapFirst DEF Gaps
    <3>2. mig.pc # "start" /\ (Update("failed") \/ (store[Source] = store[mig.target] /\ Update("flip_backend")))
      BY <2>1, <3>1 DEF Verify, Working
    <3> QED
      BY <1>b, <1>s, <3>2
  <2>2. CASE Flip
    <3>1. store[mig.target] = written
      BY <2>2 DEF Flip, WriteInv, CopyHolds
    <3>2. mig'.target = mig.target
      BY <1>b, <2>2 DEF Flip
    <3> QED
      BY <3>1, <3>2
  <2>3. CASE MigStart \/ MigRevert
    <3>1. Update("alembic") \/ Exit("exit") \/ Update("failed")
      BY <2>3 DEF MigStart, MigRevert
    <3> QED
      BY <1>b, <1>d, <3>1
  <2>4. CASE MigRead \/ StageRaises
    <3>1. mig'.next = mig.next /\ mig'.target = mig.target /\ mig.pc # "start"
      BY <1>0, <2>4, ZenonT(40) DEF MigRead, StageRaises, Working
    <3> QED
      BY <1>0, <3>1 DEF WriteInv, CopyHolds
  <2>5. CASE MigWrite
    <3>1. CASE mig.next \in {"success", "failed", "dropped"}
      BY <1>d, <2>5, <3>1 DEF MigWrite
    <3>2. CASE mig.next \notin {"success", "failed", "dropped"}
      <4> DEFINE c == IF mig.next = "flip_backend" THEN "work" ELSE IF mig.next \in Stages THEN "poll" ELSE "revert"
      <4>0. mig' = [mig EXCEPT !.doc = NoJob, !.pc = c] /\ mig.pc = "write"
        BY <2>5, <3>2 DEF MigWrite
      <4> HIDE DEF c
      <4>1. mig'.next = mig.next /\ mig'.target = mig.target /\ mig.pc = "write"
        BY <1>0, <4>0
      <4> QED
        BY <4>1 DEF WriteInv, CopyHolds
    <3> QED
      BY <3>1, <3>2
  <2>6. CASE BackupCancelled \/ MigDropped \/ StageReports
    <3>1. Update("cancelled") \/ Update("dropped") \/ Update("failed") \/ Update("unsaved")
      BY <2>6 DEF MigPoll, BackupCancelled, MigDropped, StageReports
    <3> QED
      BY <1>b, <3>1
  <2>8. CASE MigPoll
    <3>1. CASE mig.job \in sentinel
      BY <1>b, <2>8, <3>1 DEF MigPoll
    <3>2. CASE mig.job \notin sentinel
      <4>1. mig'.next = mig.next /\ mig'.target = mig.target /\ mig.pc = "poll"
        BY <1>0, <2>8, <3>2 DEF MigPoll
      <4> QED
        BY <1>0, <4>1 DEF WriteInv, CopyHolds
    <3> QED
      BY <3>1, <3>2
  <2>7. CASE Prepare \/ Copy
    <3>1. Update("data_copy") \/ Update("verify")
      BY <2>7 DEF Prepare, Copy, After
    <3> QED
      BY <1>b, <3>1
  <2> QED
    BY <2>1, <2>2, <2>3, <2>4, <2>5, <2>6, <2>7, <2>8 DEF MigNext
\* A job that becomes a success was verified.
<1>4. job'[apl.job].status = "success" => store[apl.target] = written
  <2>1. CASE MigWrite
    <3> DEFINE d == IF mig.next \in Stages THEN [mig.doc EXCEPT !.step = mig.next]
                    ELSE [mig.doc EXCEPT !.status = StatusOf(mig.next)]
    <3>1. job' = [job EXCEPT ![mig.job] = d] /\ mig.pc = "write" /\ mig.next \in Nexts
          /\ mig.doc \in Docs /\ mig.doc.status # "success"
      BY <2>1 DEF MigWrite, DbType, MigType, Named, CancelInv
    <3>2. d.status = "success" => mig.next = "success"
      BY <3>1 DEF Docs, Nexts, StatusOf
    <3> HIDE DEF d
    <3>3. job'[apl.job] = d
      BY <1>0, <1>t, <3>1
    <3> QED
      BY <1>t, <3>1, <3>2, <3>3 DEF WriteInv, CopyHolds
  <2>2. CASE MigStart
    <3> DEFINE d == [status |-> "running", step |-> "validate", source |-> mig.source,
                     target |-> mig.target, surl |-> None]
    <3>1. job' = [job EXCEPT ![mig.job] = d]
      BY <1>t, <2>2 DEF MigStart
    <3>2. d.status = "running"
      OBVIOUS
    <3> HIDE DEF d
    <3>3. job'[apl.job] = d
      BY <1>0, <1>t, <3>1
    <3> QED
      BY <3>2, <3>3
  <2>3. CASE ~ MigWrite /\ ~ MigStart
    <3>1. job' = job
      BY <2>3 DEF MigNext, MigRead, MigPoll, BackupCancelled, MigDropped, Prepare, Copy, Verify,
         StageReports, StageRaises, Flip, MigRevert
    <3> QED
      BY <1>t, <3>1 DEF WriteInv, TickHolds
  <2> QED
    BY <2>1, <2>2, <2>3
\* The overlay goes to the target of a verified copy, or back to the source.
<1>5. store[Home(yaml')] = written
  <2>1. CASE yaml' = [backend |-> mig.target, url |-> mig.target] /\ Flip
    <3>1. Home(yaml') = mig.target
      BY <1>0, <2>1 DEF Home
    <3> QED
      BY <2>1, <3>1 DEF Flip, WriteInv, CopyHolds
  <2>2. CASE MigRevert
    <3>1. yaml'.url = UrlOf(mig.source)
      BY <1>t, <2>2 DEF MigRevert
    <3>2. Home(yaml') = HomeOf(mig.source)
      BY <1>t, <3>1 DEF Home, HomeOf, UrlOf
    <3> QED
      BY <1>t, <3>2 DEF WriteInv, TickHolds
  <2>3. CASE yaml' = yaml
    BY <2>3 DEF WriteInv, HomeHolds
  <2> QED
    BY <2>1, <2>2, <2>3 DEF MigNext, MigStart, MigRead, MigWrite, MigPoll, BackupCancelled, MigDropped, Prepare,
       Copy, Verify, StageReports, StageRaises, Flip
<1>6. HomeHolds'
  <2>1. Home(yaml') \in Stable
    <3>1. CASE yaml' = yaml
      BY <3>1, Homes DEF DbType, YamlType
    <3>2. CASE yaml' # yaml
      <4>1. yaml' = [backend |-> mig.target, url |-> mig.target] \/ yaml' = [backend |-> mig.source, url |-> mig.surl]
        BY <3>2 DEF MigNext, MigStart, MigRead, MigWrite, MigPoll, BackupCancelled, MigDropped, Prepare,
           Copy, Verify, StageReports, StageRaises, Flip, MigRevert
      <4> QED
        BY <1>0, <4>1 DEF Home, Urls
    <3> QED
      BY <3>1, <3>2
  <2> QED
    BY <1>1, <1>2, <1>5, <2>1 DEF HomeHolds
<1>7. TickHolds'
  <2>1. HomeOf(apl.source) \in Stable /\ apl.target \in Stable /\ store[HomeOf(apl.source)] = written
    BY <1>0, <1>t, Homes DEF WriteInv, TickHolds
  <2> QED
    BY <1>1, <1>2, <1>4, <2>1 DEF TickHolds
<1>8. CopyHolds'
  BY <1>0, <1>1, <1>2, <1>3 DEF CopyHolds
<1>9. SeenHolds'
  <2>1. app.seen # Unread => Home(app.seen) \in Stable
    BY Homes DEF DbType, AppType
  <2>2. UnderWay'
    BY <1>1, <1>t DEF UnderWay
  <2> QED
    BY <1>1, <1>2, <1>t, <2>1, <2>2 DEF WriteInv, SeenHolds
<1> QED
  BY <1>6, <1>7, <1>8, <1>9 DEF WriteInv

\* The applier's steps and the faults.
LEMMA WriteApl ==
    ASSUME DbType, CancelInv, RouteInv, PlainInv, UrlInv, WriteInv, AplNext \/ FaultNext, gap' = None
    PROVE  WriteInv'
<1> USE UrlNames, Names, DocTypes
<1>0. /\ job \in [Jobs -> Docs] /\ yaml \in [backend: Backs, url: Urls]
      /\ app = [up |-> app.up, seen |-> app.seen, env |-> app.env]
      /\ apl \in [pc: {"idle", "recover", "picked", "waiting", "restart"}, job: Jobs \cup {None}, flag: Urls,
                  source: Backs \cup {None}, target: Pg \cup {None}, surl: Urls]
      /\ (mig.pc # "off" => apl.pc = "waiting")
  BY DEF DbType, YamlType, JobType, AplType, AppType, UrlInv, TickUrl
<1>1. UNCHANGED <<store, written>>
  BY DEF AplNext, Tick, Recover, Lifecycle, Launch, Settle, Restart, FaultNext, MigDies, Expire, RecoverRefused,
     NotReady, SettleRefused, Abort, Reboot
<1>a. ASSUME mig'.pc = "off", apl'.pc # "waiting", app'.seen = Unread, store[Home(yaml')] = written PROVE WriteInv'
  BY <1>1, <1>a DEF WriteInv, HomeHolds, TickHolds, CopyHolds, SeenHolds
<1>h. store[Home(yaml)] = written
  BY DEF WriteInv, HomeHolds
<1>2. CASE Tick \/ Lifecycle \/ NotReady
  <2>1. UNCHANGED <<yaml, app, mig>> /\ apl.pc \in {"idle", "recover"}
    BY <1>2 DEF Tick, Lifecycle, NotReady
  <2>2. apl'.pc # "waiting"
    <3>1. CASE Tick
      <4>1. apl'.pc = "recover"
        BY <1>0, <3>1, ZenonT(40) DEF Tick
      <4> QED
        BY <4>1
    <3>2. CASE Lifecycle
      <4>1. apl'.pc = "picked" \/ apl' = NoTick
        BY <1>0, <3>2 DEF Lifecycle
      <4> QED
        BY <4>1
    <3>3. CASE NotReady
      BY <3>3 DEF NotReady
    <3> QED
      BY <1>2, <3>1, <3>2, <3>3
  <2>3. ~ UnderWay
    BY <1>0, <2>1 DEF UnderWay
  <2> QED
    BY <1>0, <1>1, <2>1, <2>2, <2>3 DEF WriteInv, HomeHolds, TickHolds, CopyHolds, SeenHolds
<1>3. CASE Restart
  <2>1. app'.seen = Unread /\ apl'.pc = "idle" /\ mig' = mig /\ mig.pc = "off" /\ yaml' = yaml
    BY <1>0, <1>3 DEF Restart, Started
  <2> QED
    BY <1>a, <1>h, <2>1
<1>4. CASE Reboot
  <2>1. app'.seen = Unread /\ apl'.pc = "idle" /\ mig'.pc = "off" /\ yaml' = yaml
    BY <1>4 DEF Reboot, Started
  <2> QED
    BY <1>a, <1>h, <2>1
<1>5. ASSUME NEW j \in Jobs, Recover(j) PROVE WriteInv'
  <2>1. /\ apl.pc = "recover" /\ job[j].status = "running" /\ mig.pc = "off"
        /\ yaml' = [backend |-> job[j].source, url |-> job[j].surl] /\ UNCHANGED <<mig, apl>>
        /\ app'.seen = Unread
    BY <1>0, <1>5 DEF Recover, Started
  <2>2. job[j].source \notin Pg
    BY <1>5, GapFirst DEF Recover, Gaps
  <2>3. ~ (yaml.backend = job[j].target /\ store[job[j].target] # store[job[j].source])
    BY <1>5, <2>2, GapFirst DEF Recover, Gaps
  <2>4. Active(j)
    BY <2>1 DEF Active
  <2>5. job[j].source = "duckdb" /\ job[j].surl = None /\ job[j].target \in Pg
    BY <2>1, <2>2, <2>4 DEF UrlInv, JobUrl, PlainInv, Plain, DbType, JobType, Named
  <2>6. yaml.url = None \/ yaml = [backend |-> job[j].target, url |-> job[j].target]
    BY <2>4, <2>5 DEF UrlInv, JobUrl
  <2>7. store["duckdb"] = written
    <3>1. CASE yaml.url = None
      BY <1>h, <3>1 DEF Home
    <3>2. CASE yaml = [backend |-> job[j].target, url |-> job[j].target]
      <4>1. Home(yaml) = job[j].target /\ yaml.backend = job[j].target
        BY <2>5, <3>2 DEF Home
      <4> QED
        BY <1>h, <2>3, <2>5, <4>1
    <3> QED
      BY <2>6, <3>1, <3>2
  <2>8. Home(yaml') = "duckdb"
    BY <2>1, <2>5 DEF Home
  <2> QED
    BY <1>a, <2>1, <2>7, <2>8
<1>6. CASE Launch
  <2> DEFINE k == apl.job
  <2>1. apl.pc = "picked" /\ k \in Jobs /\ mig.pc = "off" /\ UNCHANGED <<yaml, job>>
    BY <1>0, <1>6 DEF Launch, DbType, AplType
  <2>2. job[k].status = "pending"
    BY <2>1 DEF CancelInv
  <2>3. apl'.pc = "waiting" /\ apl'.job = k /\ apl'.source = job[k].source
    BY <1>0, <1>6 DEF Launch
  <2>4. mig'.pc = "start" /\ app'.seen = app.seen
    BY <1>0, <1>6 DEF Launch, NoMigrator
  <2>5. job[k].source \in Stable /\ yaml.url = UrlOf(job[k].source)
    BY <2>1, <2>2 DEF Active, UrlInv, JobUrl
  <2>6. Home(yaml) = HomeOf(job[k].source)
    BY <1>0, <2>5, Homes
  <2>7. ~ UnderWay /\ UnderWay'
    BY <2>1, <2>3 DEF UnderWay
  <2> HIDE DEF k
  <2> QED
    BY <1>1, <2>1, <2>2, <2>3, <2>4, <2>6, <2>7 DEF WriteInv, HomeHolds, TickHolds, CopyHolds, SeenHolds
<1>7. CASE Settle \/ Abort
  <2>1. Returned /\ apl.pc = "waiting" /\ mig.pc = "off" /\ UNCHANGED <<app, mig>>
    BY <1>7 DEF Settle, Abort, Returned, UrlInv, TickUrl
  <2>2. apl.source \in Stable /\ apl.surl = UrlOf(apl.source) /\ apl.target \in Pg
    BY <2>1 DEF UrlInv, TickUrl, DbType, AplType
  <2>3. ASSUME yaml' = [backend |-> apl.source, url |-> apl.surl]
        PROVE  Home(yaml') = HomeOf(apl.source) /\ store[Home(yaml')] = written
    <3>1. Home(yaml') = HomeOf(apl.source)
      BY <2>2, <2>3 DEF Home, HomeOf, UrlOf
    <3> QED
      BY <2>1, <3>1 DEF WriteInv, TickHolds
  <2>4. CASE Abort
    <3>1. apl'.pc = "idle" /\ yaml' = [backend |-> apl.source, url |-> apl.surl]
      BY <2>4 DEF Abort, NoTick
    <3> QED
      BY <1>1, <2>1, <2>3, <3>1 DEF WriteInv, HomeHolds, TickHolds, CopyHolds, SeenHolds
  <2>5. CASE Settle
    <3>1. apl'.pc = "restart"
      BY <2>5 DEF Settle, NoTick
    <3>2. store[Home(yaml')] = written
      <4>1. CASE FinalStatus = "success"
        <5>1. job[apl.job].status = "success"
          BY <4>1 DEF FinalStatus
        <5>2. yaml' = [backend |-> apl.target, url |-> apl.target]
          BY <2>5, <4>1 DEF Settle
        <5>3. Home(yaml') = apl.target
          BY <2>2, <5>2 DEF Home
        <5> QED
          BY <2>1, <5>1, <5>3 DEF WriteInv, TickHolds
      <4>2. CASE FinalStatus # "success"
        BY <2>3, <2>5, <4>2 DEF Settle
      <4> QED
        BY <4>1, <4>2
    <3>3. UnderWay'
      BY <3>1 DEF UnderWay
    <3> QED
      BY <1>1, <2>1, <3>1, <3>2, <3>3 DEF WriteInv, HomeHolds, TickHolds, CopyHolds, SeenHolds
  <2> QED
    BY <1>7, <2>4, <2>5
<1>8. CASE MigDies
  <2>1. ~ Gap("orphan")
    BY GapFirst DEF Gaps
  <2>2. Exit("137") \/ Exit("exit")
    BY <1>8, <2>1 DEF MigDies
  <2>3. mig'.pc = "off"
    BY <2>2 DEF Exit
  <2>4. UNCHANGED <<yaml, job, app, apl>> /\ apl.pc = "waiting"
    BY <1>0, <1>8 DEF MigDies
  <2>5. UnderWay'
    BY <2>4 DEF UnderWay
  <2> QED
    BY <1>1, <2>3, <2>4, <2>5 DEF WriteInv, HomeHolds, TickHolds, CopyHolds, SeenHolds
<1>9. ~ SettleRefused /\ \A j \in Jobs : ~ Expire(j) /\ ~ RecoverRefused(j)
  BY GapFirst DEF SettleRefused, Expire, RecoverRefused, Gaps
<1> QED
  BY <1>2, <1>3, <1>4, <1>5, <1>6, <1>7, <1>8, <1>9 DEF AplNext, FaultNext

\* At the start.
LEMMA InitWrite == Init => WriteInv
<1> SUFFICES ASSUME Init PROVE WriteInv
  OBVIOUS
<1> USE UrlNames, Names, DocTypes
<1>1. PICK b \in Stable : /\ yaml = [backend |-> b, url |-> IF b = "duckdb" THEN None ELSE b]
                          /\ store = [s \in Stable |-> IF s = b THEN 1 ELSE 0]
                          /\ app = [up |-> TRUE, seen |-> Unread, env |-> IF b = "side_car" THEN b ELSE None]
  BY DEF Init
<1>2. mig.pc = "off" /\ apl.pc = "idle" /\ written = 1
  BY DEF Init
<1>3. Home(yaml) = b
  BY <1>1 DEF Home
<1> QED
  BY <1>1, <1>2, <1>3 DEF WriteInv, HomeHolds, TickHolds, CopyHolds, SeenHolds

\* No write is lost while the known gaps are kept out: whatever fails, is
\* cancelled, killed or repeated, the store the overlay stands for has the last
\* write, and so have the source to which a tick may roll back and, once the
\* copy is verified, the target to which it may settle.
THEOREM WritesKept == Spec /\ []Protected => []NoLostWrite
<1>1. Init => WriteInv
  BY InitWrite
<1>2. ASSUME DbType, CancelInv, RouteInv, PlainInv, UrlInv, UrlInv', Protected, Protected', WriteInv, [Next]_vars
      PROVE  WriteInv'
  <2>1. gap' = None
    BY <1>2 DEF Protected
  <2> QED
    BY <1>2, <2>1, WriteApp, WriteApi, WriteMig, WriteApl DEF Next
<1>3. Protected => gap = None
  BY DEF Protected
<1>4. ASSUME DbType /\ CancelInv, RouteInv, PlainInv, gap = None => UrlInv, (gap = None => UrlInv)',
             Protected, Protected', WriteInv, [Next]_vars
      PROVE  WriteInv'
  BY <1>2, <1>4 DEF Protected
<1>5. DbType /\ (gap = None => UrlInv) /\ Protected /\ WriteInv => NoLostWrite
  BY StoreSeen DEF NoLostWrite, LastWriteSeen, Protected
<1> QED
  BY MigrationInv, RoutesAgree, PlainKept, UrlsAgree, <1>1, <1>4, <1>5, PTL DEF Spec
=============================================================================
