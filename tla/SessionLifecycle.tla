-------------------------- MODULE SessionLifecycle --------------------------
(***************************************************************************)
(* One chat session in one gateway process: ChatManager's attach, spawn,   *)
(* pause, resume, crash respawn, kill and reaper (app/chat/manager.py) over *)
(* the sandbox columns of the session's row (app/chat/persistence.py) and  *)
(* the sandboxes of the provider.  SessionRouting has several gateways.    *)
(*                                                                         *)
(* The process runs on one event loop: a step is what happens between two  *)
(* awaits, and the steps of its coroutines interleave.  op is the coroutine *)
(* that holds the session lock (attach, send_user_message, kill); obj[o] is *)
(* a LiveSession with the coroutines that run beside that lock:            *)
(*   wait   _wait_for_exit_and_respawn                                     *)
(*   res    _resume_live, under the object's _resume_lock                  *)
(*   pau    _pause_live, from the linger task or the idle reaper           *)
(* and sweep is the reaper's sweep of sandboxes paused for too long.       *)
(*                                                                         *)
(* The provider is one that cannot list its sandboxes, as E2B's: with one   *)
(* that can (docker), reap_orphan_sandboxes destroys what the gaps below    *)
(* leave behind.  Every runner speaks the current protocol.                *)
(***************************************************************************)
EXTENDS Naturals

CONSTANTS
    MaxObjects,     \* bound on LiveSession objects
    MaxSpawns,      \* bound on sandboxes
    RespawnLimit,   \* crashes after which a session is DEAD (3)
    Faults          \* the kinds of faults that may happen

FaultKinds == {"crash", "restart", "failed"}

ASSUME LifecycleAssumption ==
    /\ MaxObjects \in Nat /\ MaxSpawns \in Nat
    /\ RespawnLimit \in Nat \ {0}
    /\ Faults \subseteq FaultKinds

VARIABLES
    held,           \* the routing lease is this process's
    row,            \* sandbox_id and sandbox_paused_at of the session's row
    box,            \* sandbox -> its state at the provider
    reg,            \* the object in _live
    obj,            \* LiveSession objects
    op,             \* the coroutine that holds the session lock
    sweep,          \* the sandbox the paused sweep is destroying
    gap             \* the first unprotected step taken (not kept by the code)

vars == <<held, row, box, reg, obj, op, sweep, gap>>

Null == 0
Objects == 1..MaxObjects
Boxes == 1..MaxSpawns

States == {"NEW", "ACTIVE", "PAUSED", "DEAD"}
BoxStates == {"unused", "running", "paused", "gone"}
Ops == {"idle", "resuming", "row", "spawn", "claim", "claim_row", "kill", "killed"}

\* Steps after which the code may lose sight of a sandbox:
\*   overlap   _pause_live and _resume_live run at the same time
\*   cut       a spawn is cut off by a cancelled task or a restart, or raises
\*             after its sandbox was created
\*   left      a crash respawn replaces a sandbox that outlived its runner
\*   crossed   a crash respawn landed while kill() was killing the old handle
\*   undestroyed  the provider could not destroy a sandbox; nobody is told
\*   unpaused  kill() finds a PAUSED session, which has no handle
\*   resuming  kill() finds a resume in flight
\*   refused   provider.resume raised although the sandbox is there
\*   returned  the session was used again while the sweep destroyed its sandbox
Gaps == {"overlap", "cut", "left", "crossed", "undestroyed", "unpaused", "resuming",
         "refused", "returned"}
Reached(kind) == IF gap = "none" THEN kind ELSE gap

NoRow == [sandbox |-> Null, paused |-> FALSE]
Idle == [pc |-> "idle", obj |-> Null, box |-> Null]
Unused == [made |-> FALSE, state |-> "DEAD", handle |-> Null, crashes |-> 0,
           wait |-> "off", res |-> "off", rbox |-> Null, pau |-> "off", pbox |-> Null]

\* A LiveSession as _spawn_live and _resume_from_row make it.
LiveSession(b) == [Unused EXCEPT !.made = TRUE, !.state = "ACTIVE", !.handle = b]

Init ==
    /\ held = FALSE
    /\ row = NoRow
    /\ box = [b \in Boxes |-> "unused"]
    /\ reg = Null
    /\ obj = [o \in Objects |-> Unused]
    /\ op = Idle
    /\ sweep = Null
    /\ gap = "none"

-----------------------------------------------------------------------------
(* The provider and the registry *)

Fresh(b) == box[b] = "unused" /\ \A c \in Boxes : c < b => box[c] # "unused"
FreeObject(o) == ~ obj[o].made /\ \A p \in Objects : p < o => obj[p].made

Exists(b) == box[b] \in {"running", "paused"}
Boxed(b, s) == IF b = Null THEN box ELSE [box EXCEPT ![b] = s]

\* set_sandbox_ref
Refer(b) == row' = [sandbox |-> b, paused |-> FALSE]

\* Destroying b, best effort: an error is logged and swallowed.
Destroy(b, gp) ==
    \/ box' = Boxed(b, "gone") /\ gap' = gp
    \/ /\ "failed" \in Faults
       /\ b # Null /\ Exists(b)
       /\ UNCHANGED box /\ gap' = Reached("undestroyed")

\* A spawn that ends without a handle may have created its sandbox already.
Stranded(bx) ==
    \E b \in Boxes : Fresh(b) /\ box' = [bx EXCEPT ![b] = "running"] /\ gap' = Reached("cut")

\* _spawn_runner raised.
SpawnRaised ==
    \/ UNCHANGED <<box, gap>>
    \/ "failed" \in Faults /\ Stranded(box)

\* The tasks of o are cancelled, a spawn among them perhaps; bx and gp are
\* the sandboxes and the gap otherwise.
CancelTasks(o, bx, gp) ==
    \/ box' = bx /\ gap' = gp
    \/ obj[o].wait = "spawning" /\ Stranded(bx)

-----------------------------------------------------------------------------
(* attach and send_user_message *)

\* Nothing to resume, or a stub that an earlier failure left behind, which is
\* dropped.  With a sandbox in the row resume it, otherwise attach spawns.
Enter ==
    /\ op = Idle
    /\ reg # Null => obj[reg].state \in {"NEW", "DEAD"}
    /\ reg' = Null
    /\ op' = IF row.sandbox # Null THEN [Idle EXCEPT !.pc = "row", !.box = row.sandbox]
                                   ELSE [Idle EXCEPT !.pc = "spawn"]
    /\ UNCHANGED <<held, row, box, obj, sweep, gap>>

\* attach on a PAUSED session waits for _resume_live with the lock held.
EnterPaused ==
    /\ op = Idle
    /\ reg # Null /\ obj[reg].state = "PAUSED"
    /\ op' = [Idle EXCEPT !.pc = "resuming", !.obj = reg]
    /\ UNCHANGED <<held, row, box, reg, obj, sweep, gap>>

AttachResumed ==
    /\ op.pc = "resuming"
    /\ obj[op.obj].res = "off" /\ obj[op.obj].state # "PAUSED"
    /\ op' = Idle
    /\ UNCHANGED <<held, row, box, reg, obj, sweep, gap>>

-----------------------------------------------------------------------------
(* _spawn_live and _resume_from_row *)

\* _spawn_runner returned: register, then claim the lease.
Spawned ==
    /\ op.pc = "spawn"
    /\ \E b \in Boxes, o \in Objects :
         /\ Fresh(b) /\ FreeObject(o)
         /\ box' = [box EXCEPT ![b] = "running"]
         /\ obj' = [obj EXCEPT ![o] = LiveSession(b)]
         /\ reg' = o
         /\ op' = [Idle EXCEPT !.pc = "claim", !.obj = o]
    /\ UNCHANGED <<held, row, sweep, gap>>

\* _spawn_runner raised; the caller gets the error.
SpawnFails ==
    /\ op.pc = "spawn"
    /\ SpawnRaised
    /\ op' = Idle
    /\ UNCHANGED <<held, row, reg, obj, sweep>>

\* Claimed: write the row, push the tickets, start the tasks.
SpawnDone ==
    /\ op.pc = "claim"
    /\ held' = TRUE
    /\ Refer(obj[op.obj].handle)
    /\ obj' = [obj EXCEPT ![op.obj].wait = "on"]
    /\ op' = Idle
    /\ UNCHANGED <<box, reg, sweep, gap>>

\* The setup raised after the spawn: deregister, kill the sandbox, clear the
\* row, release the lease.
SpawnUndone ==
    /\ op.pc = "claim"
    /\ "failed" \in Faults
    /\ Destroy(obj[op.obj].handle, gap)
    /\ reg' = Null
    /\ row' = NoRow
    /\ held' = FALSE
    /\ op' = Idle
    /\ UNCHANGED <<obj, sweep>>

\* provider.resume succeeds on a sandbox that still exists.
RowResumed ==
    /\ op.pc = "row"
    /\ box[op.box] # "gone"
    /\ \E o \in Objects :
         /\ FreeObject(o)
         /\ box' = [box EXCEPT ![op.box] = "running"]
         /\ obj' = [obj EXCEPT ![o] = LiveSession(op.box)]
         /\ reg' = o
         /\ op' = [Idle EXCEPT !.pc = "claim_row", !.obj = o]
    /\ UNCHANGED <<held, row, sweep, gap>>

\* Bug: the old sandbox is not destroyed before the row forgets it.
RowResumeForgets ==
    /\ op.pc = "row"
    /\ box[op.box] = "gone" \/ "failed" \in Faults
    /\ row' = NoRow
    /\ op' = [Idle EXCEPT !.pc = "spawn"]
    /\ UNCHANGED <<held, box, reg, obj, sweep, gap>>

\* provider.resume raised: destroy the sandbox, clear the row, spawn.
RowResumeFails ==
    /\ op.pc = "row"
    /\ box[op.box] = "gone" \/ "failed" \in Faults
    /\ Destroy(op.box, gap)
    /\ row' = NoRow
    /\ op' = [Idle EXCEPT !.pc = "spawn"]
    /\ UNCHANGED <<held, reg, obj, sweep>>

RowDone ==
    /\ op.pc = "claim_row"
    /\ held' = TRUE
    /\ row' = [row EXCEPT !.paused = FALSE]
    /\ obj' = [obj EXCEPT ![op.obj].wait = "on"]
    /\ op' = Idle
    /\ UNCHANGED <<box, reg, sweep, gap>>

-----------------------------------------------------------------------------
(* kill *)

\* _kill_locked: out of the registry, whatever its state.
KillBegin ==
    /\ op = Idle
    /\ reg # Null
    /\ reg' = Null
    /\ op' = [Idle EXCEPT !.pc = "kill", !.obj = reg]
    /\ UNCHANGED <<held, row, box, obj, sweep, gap>>

\* The lease is released, the session DEAD; the handle it has now is being
\* killed.
KillReleased ==
    /\ op.pc = "kill"
    /\ held' = FALSE
    /\ obj' = [obj EXCEPT ![op.obj] = [@ EXCEPT !.state = "DEAD",
                                         !.pau = IF obj[op.obj].pau = "tokill" THEN "off"
                                                 ELSE obj[op.obj].pau]]
    /\ op' = [op EXCEPT !.pc = "killed", !.box = obj[op.obj].handle]
    /\ UNCHANGED <<row, box, reg, sweep, gap>>

GapAtKill(live) ==
    IF live.res \in {"resume", "ticket"} THEN Reached("resuming")
    ELSE IF op.box = Null /\ row.sandbox # Null THEN Reached("unpaused")
    ELSE IF ~ ({live.handle, row.sandbox} \subseteq {Null, op.box}) THEN Reached("crossed")
    ELSE gap

\* handle.kill returned, if there was a handle: the tasks are cancelled, the
\* row cleared, whatever the session's handle is by now.
KillDone ==
    /\ op.pc = "killed"
    /\ \/ CancelTasks(op.obj, Boxed(op.box, "gone"), GapAtKill(obj[op.obj]))
       \/ /\ "failed" \in Faults
          /\ op.box # Null /\ Exists(op.box)
          /\ CancelTasks(op.obj, box, Reached("undestroyed"))
    /\ obj' = [obj EXCEPT ![op.obj].wait = "off"]
    /\ row' = NoRow
    /\ op' = Idle
    /\ UNCHANGED <<held, reg, sweep>>

-----------------------------------------------------------------------------
(* _pause_live *)

\* Bug: the handle is dropped before the provider has paused the sandbox.
PauseBeginDrops(o) ==
    /\ obj[o].state = "ACTIVE" /\ obj[o].pau = "off"
    /\ op.obj = o => op.pc \notin {"claim", "claim_row"}
    /\ CancelTasks(o, box, IF obj[o].res = "off" THEN gap ELSE Reached("overlap"))
    /\ obj' = [obj EXCEPT ![o] = [@ EXCEPT !.wait = "off", !.state = "PAUSED", !.handle = Null,
                                           !.pau = "pausing", !.pbox = obj[o].handle]]
    /\ UNCHANGED <<held, row, reg, op, sweep>>

\* A session that is being set up has neither lost its sinks nor idled.
\* state = PAUSED first, then the tasks are cancelled, then provider.pause.
PauseBegin(o) ==
    /\ obj[o].state = "ACTIVE" /\ obj[o].pau = "off"
    /\ op.obj = o => op.pc \notin {"claim", "claim_row"}
    /\ CancelTasks(o, box, IF obj[o].res = "off" THEN gap ELSE Reached("overlap"))
    /\ obj' = [obj EXCEPT ![o] = [@ EXCEPT !.wait = "off", !.state = "PAUSED",
                                           !.pau = "pausing", !.pbox = obj[o].handle]]
    /\ UNCHANGED <<held, row, reg, op, sweep>>

\* provider.pause returned: no handle, and the row says since when.
PauseDone(o) ==
    /\ obj[o].pau = "pausing"
    /\ obj[o].pbox # Null => box[obj[o].pbox] # "gone"
    /\ box' = Boxed(obj[o].pbox, "paused")
    /\ obj' = [obj EXCEPT ![o] = [@ EXCEPT !.handle = Null, !.pau = "off", !.pbox = Null]]
    /\ row' = [row EXCEPT !.paused = TRUE]
    /\ UNCHANGED <<held, reg, op, sweep, gap>>

\* provider.pause raised: ACTIVE again, and kill is called.
PauseFails(o) ==
    /\ obj[o].pau = "pausing" /\ obj[o].pbox # Null
    /\ box[obj[o].pbox] = "gone" \/ "failed" \in Faults
    /\ obj' = [obj EXCEPT ![o] = [@ EXCEPT !.state = "ACTIVE", !.pbox = Null,
                                    !.pau = IF reg = o THEN "tokill" ELSE "off"]]
    /\ UNCHANGED <<held, row, box, reg, op, sweep, gap>>

-----------------------------------------------------------------------------
(* _resume_live, called by attach, send_user_message and the consumer *)

ResumeBegin(o) ==
    /\ obj[o].state = "PAUSED" /\ obj[o].res = "off"
    /\ reg = o \/ op.obj = o
    /\ obj' = [obj EXCEPT ![o] = [@ EXCEPT !.res = IF row.sandbox = Null THEN "spawn" ELSE "resume",
                                           !.rbox = row.sandbox]]
    /\ gap' = IF obj[o].pau = "off" THEN gap ELSE Reached("overlap")
    /\ UNCHANGED <<held, row, box, reg, op, sweep>>

\* provider.resume returned; the ticket frame is being pushed.
Resumed(o) ==
    /\ obj[o].res = "resume" /\ box[obj[o].rbox] # "gone"
    /\ box' = [box EXCEPT ![obj[o].rbox] = "running"]
    /\ obj' = [obj EXCEPT ![o] = [@ EXCEPT !.handle = obj[o].rbox, !.state = "ACTIVE",
                                           !.res = "ticket", !.rbox = Null]]
    /\ UNCHANGED <<held, row, reg, op, sweep, gap>>

\* The tasks start.  The wait task asserts that there is a handle.
ResumeDone(o) ==
    /\ obj[o].res = "ticket"
    /\ obj' = [obj EXCEPT ![o] = [@ EXCEPT !.res = "off",
                                    !.wait = IF obj[o].handle = Null THEN "broken" ELSE "on"]]
    /\ row' = [row EXCEPT !.paused = FALSE]
    /\ UNCHANGED <<held, box, reg, op, sweep, gap>>

\* provider.resume raised: clear the row and spawn.
ResumeFails(o) ==
    /\ obj[o].res = "resume"
    /\ \/ box[obj[o].rbox] = "gone" /\ UNCHANGED gap
       \/ box[obj[o].rbox] # "gone" /\ "failed" \in Faults /\ gap' = Reached("refused")
    /\ obj' = [obj EXCEPT ![o] = [@ EXCEPT !.res = "spawn", !.rbox = Null]]
    /\ row' = NoRow
    /\ UNCHANGED <<held, box, reg, op, sweep>>

\* Bug: the sandbox is registered whatever happened during its spawn.
ResumeSpawnedUnchecked(o) ==
    /\ obj[o].res = "spawn"
    /\ \E b \in Boxes :
         /\ Fresh(b)
         /\ box' = [box EXCEPT ![b] = "running"]
         /\ obj' = [obj EXCEPT ![o] = [@ EXCEPT !.state = "ACTIVE", !.handle = b,
                                                !.wait = "on", !.res = "off"]]
         /\ Refer(b)
    /\ UNCHANGED <<held, reg, op, sweep, gap>>

\* _respawn_fresh after its spawn: if the session was torn down meanwhile the
\* sandbox is destroyed at once, otherwise it is the session's.
ResumeSpawned(o) ==
    /\ obj[o].res = "spawn"
    /\ \E b \in Boxes :
         /\ Fresh(b)
         /\ IF obj[o].state = "DEAD" \/ reg # o
            THEN /\ \/ box' = [box EXCEPT ![b] = "gone"] /\ UNCHANGED gap
                    \/ /\ "failed" \in Faults
                       /\ box' = [box EXCEPT ![b] = "running"] /\ gap' = Reached("undestroyed")
                 /\ obj' = [obj EXCEPT ![o].res = "off"]
                 /\ UNCHANGED row
            ELSE /\ box' = [box EXCEPT ![b] = "running"]
                 /\ obj' = [obj EXCEPT ![o] = [@ EXCEPT !.state = "ACTIVE", !.handle = b,
                                                        !.wait = "on", !.res = "off"]]
                 /\ Refer(b)
                 /\ UNCHANGED gap
    /\ UNCHANGED <<held, reg, op, sweep>>

\* The spawn raised, and so does the caller, an attach perhaps.
ResumeSpawnFails(o) ==
    /\ obj[o].res = "spawn"
    /\ SpawnRaised
    /\ obj' = [obj EXCEPT ![o].res = "off"]
    /\ op' = IF op.obj = o /\ op.pc = "resuming" THEN Idle ELSE op
    /\ UNCHANGED <<held, row, reg, sweep>>

-----------------------------------------------------------------------------
(* _wait_for_exit_and_respawn *)

\* handle.wait() returned: the sandbox is gone, or only its runner, or the
\* provider lost the connection.  Nothing to do for a DEAD or PAUSED session
\* or a runner that ended with 0.
Exited(o) ==
    /\ obj[o].wait = "on"
    /\ obj[o].handle # Null
    /\ box[obj[o].handle] = "gone" \/ "crash" \in Faults
    /\ \E w \in IF obj[o].state \in {"DEAD", "PAUSED"} THEN {"off"} ELSE {"off", "exited"} :
         obj' = [obj EXCEPT ![o].wait = w]
    /\ UNCHANGED <<held, row, box, reg, op, sweep, gap>>

\* The lease is not this process's any more: _teardown_lost_ownership.
NotOwner(o) ==
    /\ obj[o].wait = "exited"
    /\ ~ held
    /\ reg' = Null
    /\ obj' = [obj EXCEPT ![o] = [@ EXCEPT !.wait = "off", !.state = "DEAD",
                                           !.pau = "off", !.pbox = Null]]
    /\ UNCHANGED <<held, row, box, op, sweep, gap>>

\* Bug: one respawn too many.
CrashedPastLimit(o) ==
    /\ obj[o].wait = "exited"
    /\ held
    /\ LET last == obj[o].crashes + 1 > RespawnLimit IN
         obj' = [obj EXCEPT ![o] = [@ EXCEPT !.crashes = obj[o].crashes + 1,
                                     !.wait = IF last THEN "off" ELSE "spawning",
                                     !.state = IF last THEN "DEAD" ELSE obj[o].state]]
    /\ UNCHANGED <<held, row, box, reg, op, sweep, gap>>

\* A crash: DEAD at the limit, otherwise a new runner is being spawned.
Crashed(o) ==
    /\ obj[o].wait = "exited"
    /\ held
    /\ LET last == obj[o].crashes + 1 >= RespawnLimit IN
         obj' = [obj EXCEPT ![o] = [@ EXCEPT !.crashes = obj[o].crashes + 1,
                                     !.wait = IF last THEN "off" ELSE "spawning",
                                     !.state = IF last THEN "DEAD" ELSE obj[o].state]]
    /\ UNCHANGED <<held, row, box, reg, op, sweep, gap>>

\* The new sandbox replaces the old one, which nobody destroys.
CrashSpawned(o) ==
    /\ obj[o].wait = "spawning"
    /\ \E b \in Boxes :
         /\ Fresh(b)
         /\ box' = [box EXCEPT ![b] = "running"]
         /\ obj' = [obj EXCEPT ![o] = [@ EXCEPT !.handle = b, !.state = "ACTIVE", !.wait = "on"]]
         /\ Refer(b)
    /\ gap' = IF obj[o].handle # Null /\ Exists(obj[o].handle) THEN Reached("left") ELSE gap
    /\ UNCHANGED <<held, reg, op, sweep>>

\* The spawn raised: the task ends.
CrashSpawnFails(o) ==
    /\ obj[o].wait = "spawning"
    /\ SpawnRaised
    /\ obj' = [obj EXCEPT ![o].wait = "off"]
    /\ UNCHANGED <<held, row, reg, op, sweep>>

-----------------------------------------------------------------------------
(* The paused sweep of _reap_once, and faults *)

\* The row has been paused for longer than paused_ttl_seconds.
SweepBegin ==
    /\ sweep = Null
    /\ row.paused /\ row.sandbox # Null
    /\ sweep' = row.sandbox
    /\ UNCHANGED <<held, row, box, reg, obj, op, gap>>

\* The session is in use again, or about to be.
Returned ==
    \/ row # [sandbox |-> sweep, paused |-> TRUE]
    \/ op # Idle
    \/ reg # Null /\ obj[reg].res # "off"

\* provider.destroy, clear_sandbox_ref, out of _live, release the lease.
SweepDone ==
    /\ sweep # Null
    /\ Destroy(sweep, IF Returned THEN Reached("returned") ELSE gap)
    /\ row' = NoRow
    /\ reg' = Null
    /\ held' = FALSE
    /\ sweep' = Null
    /\ UNCHANGED <<obj, op>>

\* A sandbox ends with its runner, or a paused one expires.
RunnerCrash(b) ==
    /\ Exists(b)
    /\ "crash" \in Faults
    /\ box' = [box EXCEPT ![b] = "gone"]
    /\ UNCHANGED <<held, row, reg, obj, op, sweep, gap>>

\* A sandbox is being created for the session.
Spawning ==
    \/ op.pc \in {"spawn", "claim"}
    \/ \E o \in Objects : obj[o].wait = "spawning" \/ obj[o].res = "spawn"

\* The process restarts; what it hosted is in the row only, and a sandbox it
\* was creating is perhaps nowhere.
Restart ==
    /\ "restart" \in Faults
    /\ gap' = IF Spawning THEN Reached("cut") ELSE gap
    /\ reg # Null \/ op # Idle
    /\ reg' = Null
    /\ held' = FALSE
    /\ obj' = [o \in Objects |-> [Unused EXCEPT !.made = obj[o].made]]
    /\ op' = Idle
    /\ sweep' = Null
    /\ UNCHANGED <<row, box>>

-----------------------------------------------------------------------------

LockedNext ==
    \/ Enter \/ EnterPaused \/ AttachResumed
    \/ Spawned \/ SpawnFails \/ SpawnDone \/ SpawnUndone
    \/ RowResumed \/ RowResumeFails \/ RowDone
    \/ KillBegin \/ KillReleased \/ KillDone

ObjectNext(o) ==
    \/ PauseBegin(o) \/ PauseDone(o) \/ PauseFails(o)
    \/ ResumeBegin(o) \/ Resumed(o) \/ ResumeDone(o) \/ ResumeFails(o)
    \/ ResumeSpawned(o) \/ ResumeSpawnFails(o)
    \/ Exited(o) \/ NotOwner(o) \/ Crashed(o) \/ CrashSpawned(o) \/ CrashSpawnFails(o)

Next ==
    \/ LockedNext
    \/ \E o \in Objects : ObjectNext(o)
    \/ SweepBegin \/ SweepDone
    \/ \E b \in Boxes : RunnerCrash(b)
    \/ Restart

Spec == Init /\ [][Next]_vars

-----------------------------------------------------------------------------
(* Properties *)

\* The variables keep their types; a session crashes at most RespawnLimit times.
TypeOK ==
    /\ held \in BOOLEAN
    /\ row \in [sandbox: Boxes \cup {Null}, paused: BOOLEAN]
    /\ box \in [Boxes -> BoxStates]
    /\ reg \in Objects \cup {Null}
    /\ obj \in [Objects -> [made: BOOLEAN, state: States, handle: Boxes \cup {Null},
                            crashes: 0..RespawnLimit,
                            wait: {"off", "on", "exited", "spawning", "broken"},
                            res: {"off", "resume", "ticket", "spawn"}, rbox: Boxes \cup {Null},
                            pau: {"off", "pausing", "tokill"}, pbox: Boxes \cup {Null}]]
    /\ op \in [pc: Ops, obj: Objects \cup {Null}, box: Boxes \cup {Null}]
    /\ sweep \in Boxes \cup {Null}
    /\ gap \in Gaps \cup {"none"}

\* Somebody can still find the sandbox: the row, the registered session, or a
\* coroutine that works on it.
Tracked(b) ==
    \/ row.sandbox = b
    \/ reg # Null /\ obj[reg].handle = b
    \/ op.box = b \/ sweep = b
    \/ op.obj # Null /\ obj[op.obj].handle = b

Orphaned == {b \in Boxes : Exists(b) /\ ~ Tracked(b)}

\* Unless one of the unprotected steps (Gaps) was taken, no sandbox that runs or
\* is paused is out of sight: spawn, setup failure, resume, fallback to a fresh
\* spawn, crash respawn, pause, kill, sweep and a restart of the gateway, in
\* whatever other order they interleave, leave each existing sandbox in the row,
\* in _live or in the hands of a coroutine that will register or destroy it.
NoOrphan == gap = "none" => Orphaned = {}

\* Unless one of the unprotected steps (Gaps) was taken, at most one runner works
\* for the session: every path that spawns another one has seen the old one gone
\* or has had it destroyed.
OneRunner ==
    gap = "none" => \A b, c \in Boxes : box[b] = "running" /\ box[c] = "running" => b = c

\* Unless one of the unprotected steps was taken, a registered ACTIVE session
\* has the handle that send_user_message and the tasks write to.
ActiveHasHandle ==
    gap = "none" /\ reg # Null /\ obj[reg].state = "ACTIVE" => obj[reg].handle # Null

\* What the comment of _resume_from_row asks for, of kill() on a PAUSED
\* session: the sandbox is destroyed before the row forgets it.
KillDestroysPaused == gap = "unpaused" => Orphaned = {}

=============================================================================
