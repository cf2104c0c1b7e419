----------------------- MODULE SessionLifecycleProofs -----------------------
(***************************************************************************)
(* Proofs about SessionLifecycle: unless one of the unprotected steps was  *)
(* taken, at most one sandbox of the session exists, its row or the         *)
(* coroutine that is about to write the row names it, and a registered      *)
(* ACTIVE session has its handle.                                          *)
(***************************************************************************)
EXTENDS SessionLifecycle, TLAPS

LiveSessions ==
    [made: BOOLEAN, state: States, handle: Boxes \cup {Null}, crashes: 0..RespawnLimit,
     wait: {"off", "on", "exited", "spawning", "broken"},
     res: {"off", "resume", "ticket", "spawn"}, rbox: Boxes \cup {Null},
     pau: {"off", "pausing", "tokill"}, pbox: Boxes \cup {Null}]

Rows == [sandbox: Boxes \cup {Null}, paused: BOOLEAN]
Lockers == [pc: Ops, obj: Objects \cup {Null}, box: Boxes \cup {Null}]

\* The LiveSession that is the session's: the registered one, or the one that
\* kill() has taken out of the registry and not yet destroyed.
Cur == IF reg # Null THEN reg ELSE IF op.pc \in {"kill", "killed"} THEN op.obj ELSE Null

\* What holds of every LiveSession x.
Good(x) ==
    /\ x.state # "NEW"
    /\ x.state = "ACTIVE" => x.handle # Null
    /\ x.state = "PAUSED" => x.pau = "pausing" \/ x.handle = Null
    /\ x.res # "off" => x.pau # "pausing"
    /\ x.res \in {"resume", "spawn"} => x.handle = Null
    /\ x.pau = "pausing" => x.pbox = x.handle /\ x.handle # Null /\ x.state # "ACTIVE"
    /\ x.crashes = RespawnLimit => x.state = "DEAD" /\ x.wait = "off" /\ x.res = "off" /\ x.pau # "pausing"

\* One that is not the session's any more has no task that could touch the
\* session's sandbox: a resume spawns at most, and the sandbox it had is gone.
Stale(x, bx) ==
    /\ x.wait = "off" /\ x.res \in {"off", "spawn"}
    /\ x.state = "ACTIVE" \/ x.pau = "pausing" => bx[x.handle] = "gone"

\* The session's own: the wait task never runs beside a resume, a pause or a
\* paused row, and the row names the sandbox of the handle, or nothing when a
\* new one is being spawned.  rw is the row, pc where the lock's holder is, rg
\* what is registered.
Current(x, bx, rw, pc, rg) ==
    /\ x.wait # "off" => /\ x.res = "off" /\ x.pau # "pausing" /\ x.handle # Null
                         /\ x.state # "PAUSED" /\ ~ rw.paused
    /\ x.res = "ticket" => x.handle # Null
    /\ x.res = "resume" => x.rbox = rw.sandbox /\ rw.sandbox # Null
    /\ pc # "claim" /\ x.handle # Null => rw.sandbox = x.handle
    /\ rg # Null => /\ x.res = "spawn" => rw.sandbox = Null
                    /\ x.state = "DEAD" => x.wait = "off" /\ x.res = "off"
                    /\ x.pau = "pausing" => x.state = "PAUSED"

ObjectInv ==
    /\ \A o \in Objects : Good(obj[o]) /\ (o # Cur => Stale(obj[o], box))
    /\ Cur # Null => Current(obj[Cur], box, row, op.pc, reg)

\* What the coroutine that holds the session lock may rely on.
OpInv ==
    /\ op.pc = "idle" => op = Idle
    /\ op.pc \in {"row", "spawn"} => reg = Null /\ op.obj = Null
    /\ op.pc = "row" => op.box = row.sandbox /\ row.sandbox # Null
    /\ op.pc \in {"spawn", "claim"} => row.sandbox = Null
    /\ op.pc \in {"claim", "claim_row"} =>
         /\ op.obj = reg /\ reg # Null
         /\ obj[reg].state = "ACTIVE" /\ obj[reg].wait = "off" /\ obj[reg].res = "off" /\ obj[reg].pau = "off"
    /\ op.pc \in {"kill", "killed"} => reg = Null /\ op.obj # Null
    /\ op.pc = "resuming" => /\ op.obj # Null
                             /\ \/ reg = op.obj
                                \/ reg = Null /\ obj[op.obj].state = "DEAD" /\ obj[op.obj].pau # "pausing"

\* The one sandbox that may exist is the row's, or that of a new session which
\* is about to write the row.
HomeInv ==
    \A b \in Boxes : Exists(b) => b = IF op.pc = "claim" THEN obj[op.obj].handle ELSE row.sandbox

LifeInv == TypeOK /\ ObjectInv /\ OpInv /\ HomeInv

\* None of it is promised after an unprotected step.
LifecycleInv == gap = "none" => LifeInv

-----------------------------------------------------------------------------
(* Frames *)

LEMMA Blank ==
    /\ Null \notin Objects /\ Null \notin Boxes
    /\ NoRow \in Rows /\ NoRow.sandbox = Null /\ NoRow.paused = FALSE
    /\ Idle \in Lockers /\ Idle.pc = "idle" /\ Idle.obj = Null
    /\ RespawnLimit \in Nat /\ RespawnLimit # 0
BY LifecycleAssumption DEF Null, Objects, Boxes, NoRow, Rows, Idle, Lockers, Ops

LEMMA Types ==
    TypeOK <=> /\ held \in BOOLEAN /\ row \in Rows /\ box \in [Boxes -> BoxStates]
               /\ reg \in Objects \cup {Null} /\ obj \in [Objects -> LiveSessions]
               /\ op \in Lockers /\ sweep \in Boxes \cup {Null} /\ gap \in Gaps \cup {"none"}
BY DEF TypeOK, Rows, LiveSessions, Lockers

\* A step after which nothing is unprotected destroyed what it meant to destroy,
\* cut off no spawn and left nothing behind.
LEMMA NoGap == ASSUME NEW kind \in Gaps, Reached(kind) = "none" PROVE FALSE
BY DEF Reached, Gaps

LEMMA Destroyed ==
    ASSUME gap' = "none", NEW b, NEW gp, Destroy(b, gp)
    PROVE  box' = Boxed(b, "gone") /\ gp = "none"
BY NoGap DEF Destroy, Gaps

LEMMA NotStranded == ASSUME gap' = "none", NEW bx, Stranded(bx) PROVE FALSE
BY NoGap DEF Stranded, Gaps

LEMMA RaisedEarly == ASSUME gap' = "none", SpawnRaised PROVE box' = box /\ gap' = gap
BY NotStranded DEF SpawnRaised

LEMMA Cancelled ==
    ASSUME gap' = "none", NEW o, NEW bx, NEW gp, CancelTasks(o, bx, gp)
    PROVE  box' = bx /\ gp = "none"
BY NotStranded DEF CancelTasks

LEMMA StaleStays ==
    ASSUME NEW x \in LiveSessions, NEW bx, NEW by, Good(x), Stale(x, bx),
           \A b \in Boxes : bx[b] = "gone" => by[b] = "gone"
    PROVE  Stale(x, by)
BY Blank DEF Stale, Good, LiveSessions

LEMMA CurrentStays ==
    ASSUME NEW x \in LiveSessions, NEW bx, NEW by, NEW rw, NEW pc, NEW rg, Current(x, bx, rw, pc, rg),
           \A b \in Boxes : bx[b] = "gone" => by[b] = "gone"
    PROVE  Current(x, by, rw, pc, rg)
BY Blank DEF Current, LiveSessions

\* The steps of a LiveSession's own coroutines: the lock's holder and the
\* registry stay, one object changes.  Only the session's object may change the
\* row or make a sandbox, and the row names it.
LEMMA ObjectStep ==
    ASSUME LifeInv, gap' = "none", gap = "none", held' = held, reg' = reg, op' = op, sweep' = sweep,
           NEW o \in Objects, NEW r \in LiveSessions, obj' = [obj EXCEPT ![o] = r], Good(r),
           row' \in Rows, box' \in [Boxes -> BoxStates],
           \A b \in Boxes : box[b] = "gone" => box'[b] = "gone",
           o = Cur => Current(r, box', row', op.pc, reg) /\ \A b \in Boxes : Exists(b)' => b = row'.sandbox,
           o # Cur => Stale(r, box') /\ row' = row /\ \A b \in Boxes : Exists(b)' => Exists(b),
           op.pc \in {"claim", "claim_row"} => o # reg,
           op.pc = "resuming" /\ op.obj = o /\ reg # o => r.state = "DEAD" /\ r.pau # "pausing"
    PROVE  LifeInv'
<1> USE Blank
<1>0. /\ held \in BOOLEAN /\ reg \in Objects \cup {Null} /\ obj \in [Objects -> LiveSessions]
      /\ op \in Lockers /\ sweep \in Boxes \cup {Null}
  BY Types DEF LifeInv
<1>1. obj' \in [Objects -> LiveSessions] /\ obj'[o] = r /\ \A p \in Objects : p # o => obj'[p] = obj[p]
  BY <1>0
<1>2. TypeOK'
  BY <1>0, <1>1 DEF TypeOK, Rows, LiveSessions, Lockers
<1>3. Cur' = Cur
  BY DEF Cur
<1>4. \A p \in Objects : Good(obj'[p]) /\ (p # Cur' => Stale(obj'[p], box'))
  <2> TAKE p \in Objects
  <2>1. CASE p = o
    BY <1>1, <1>3, <2>1
  <2>2. CASE p # o
    <3>1. obj'[p] = obj[p] /\ obj[p] \in LiveSessions /\ Good(obj[p]) /\ (p # Cur => Stale(obj[p], box))
      BY <1>0, <1>1, <2>2 DEF LifeInv, ObjectInv
    <3> QED
      BY <1>3, <3>1, StaleStays
  <2> QED
    BY <2>1, <2>2
<1>5. Cur' # Null => Current(obj'[Cur'], box', row', op'.pc, reg')
  <2> SUFFICES ASSUME Cur # Null PROVE Current(obj'[Cur], box', row', op.pc, reg)
    BY <1>3
  <2>1. CASE Cur = o
    BY <1>1, <2>1
  <2>2. CASE Cur # o
    <3>1. Cur \in Objects
      BY <1>0 DEF Cur, Lockers
    <3>2. obj'[Cur] = obj[Cur] /\ obj[Cur] \in LiveSessions /\ Current(obj[Cur], box, row, op.pc, reg) /\ row' = row
      BY <1>0, <1>1, <2>2, <3>1 DEF LifeInv, ObjectInv
    <3> QED
      BY <3>2, CurrentStays
  <2> QED
    BY <2>1, <2>2
<1>6. op.pc \in {"row", "spawn", "claim"} => row' = row /\ o # Cur
  BY DEF LifeInv, OpInv, Cur
<1>7. OpInv'
  <2>1. OpInv
    BY DEF LifeInv
  <2>2. op.pc \in {"claim", "claim_row"} => reg \in Objects /\ obj'[reg] = obj[reg]
    BY <1>0, <1>1, <2>1 DEF OpInv
  <2>3. op.pc = "resuming" => reg = op.obj \/ (reg = Null /\ obj'[op.obj].state = "DEAD" /\ obj'[op.obj].pau # "pausing")
    <3>1. CASE op.obj = o
      BY <1>1, <2>1, <3>1 DEF OpInv
    <3>2. CASE op.obj # o
      BY <1>0, <1>1, <2>1, <3>2 DEF OpInv, Lockers
    <3> QED
      BY <3>1, <3>2
  <2> QED
    BY <1>6, <2>1, <2>2, <2>3 DEF OpInv
<1>8. HomeInv'
  <2> SUFFICES ASSUME NEW b \in Boxes, Exists(b)'
               PROVE  b = IF op.pc = "claim" THEN obj'[op.obj].handle ELSE row'.sandbox
    BY DEF HomeInv
  <2>1. CASE o = Cur
    BY <1>6, <2>1
  <2>2. CASE o # Cur
    <3>1. Exists(b) /\ row' = row
      BY <2>2
    <3>2. b = IF op.pc = "claim" THEN obj[op.obj].handle ELSE row.sandbox
      BY <3>1 DEF LifeInv, HomeInv
    <3>3. op.pc = "claim" => obj'[op.obj] = obj[op.obj]
      BY <1>0, <1>1 DEF LifeInv, OpInv
    <3> QED
      BY <3>1, <3>2, <3>3
  <2> QED
    BY <2>1, <2>2
<1> QED
  BY <1>2, <1>4, <1>5, <1>7, <1>8 DEF LifeInv, ObjectInv

-----------------------------------------------------------------------------
(* The steps of a LiveSession's coroutines *)

\* What the invariant says of one object, x.
Known(o, x) ==
    /\ x \in LiveSessions /\ obj \in [Objects -> LiveSessions] /\ Good(x)
    /\ row \in Rows /\ box \in [Boxes -> BoxStates] /\ op \in Lockers /\ reg \in Objects \cup {Null} /\ o # Null
    /\ o # Cur => Stale(x, box)
    /\ o = Cur => Current(x, box, row, op.pc, reg)
    /\ reg = o => Cur = o
    /\ Cur = o /\ reg # o => reg = Null /\ op.obj = o /\ op.pc \in {"kill", "killed"}
    /\ op.pc \in {"claim", "claim_row"} =>
         op.obj = reg /\ (o = reg => x.state = "ACTIVE" /\ x.wait = "off" /\ x.res = "off" /\ x.pau = "off")
    /\ op.pc = "resuming" /\ op.obj = o /\ reg # o => x.state = "DEAD" /\ x.pau # "pausing"
    /\ op.pc # "claim" => \A b \in Boxes : Exists(b) => b = row.sandbox

LEMMA Facts == ASSUME LifeInv, NEW o \in Objects PROVE Known(o, obj[o])
<1>1. TypeOK /\ ObjectInv /\ OpInv /\ HomeInv
  BY DEF LifeInv
<1>2. /\ obj[o] \in LiveSessions /\ obj \in [Objects -> LiveSessions] /\ row \in Rows /\ box \in [Boxes -> BoxStates]
      /\ op \in Lockers /\ reg \in Objects \cup {Null} /\ o # Null
  BY <1>1, Types, Blank
<1>3. Good(obj[o]) /\ (o # Cur => Stale(obj[o], box)) /\ (o = Cur => Current(obj[o], box, row, op.pc, reg))
  BY <1>1, <1>2 DEF ObjectInv
<1>4. (reg = o => Cur = o) /\ (Cur = o /\ reg # o => reg = Null /\ op.obj = o /\ op.pc \in {"kill", "killed"})
  BY <1>2 DEF Cur
<1>5. /\ op.pc \in {"claim", "claim_row"} =>
           /\ op.obj = reg
           /\ o = reg => /\ obj[o].state = "ACTIVE" /\ obj[o].wait = "off"
                         /\ obj[o].res = "off" /\ obj[o].pau = "off"
      /\ op.pc = "resuming" /\ op.obj = o /\ reg # o => obj[o].state = "DEAD" /\ obj[o].pau # "pausing"
  BY <1>1 DEF OpInv
<1>6. op.pc # "claim" => \A b \in Boxes : Exists(b) => b = row.sandbox
  BY <1>1 DEF HomeInv
<1> QED
  BY <1>2, <1>3, <1>4, <1>5, <1>6 DEF Known

LEMMA PauseSteps ==
    ASSUME LifeInv, gap = "none", gap' = "none", NEW o \in Objects, PauseBegin(o) \/ PauseDone(o) \/ PauseFails(o)
    PROVE  LifeInv'
<1> USE Blank
<1> DEFINE x == obj[o]
<1>0. Known(o, x)
  BY Facts
<1> USE DEF Known
<1>1. CASE PauseBegin(o)
  <2> DEFINE r == [obj[o] EXCEPT !.wait = "off", !.state = "PAUSED", !.pau = "pausing", !.pbox = obj[o].handle]
  <2>1. /\ x.state = "ACTIVE" /\ x.pau = "off" /\ (op.obj = o => op.pc \notin {"claim", "claim_row"})
        /\ obj' = [obj EXCEPT ![o] = r] /\ held' = held /\ row' = row /\ reg' = reg /\ op' = op /\ sweep' = sweep
    BY <1>1 DEF PauseBegin
  <2>2. box' = box /\ x.res = "off"
    <3>1. CancelTasks(o, box, IF x.res = "off" THEN gap ELSE Reached("overlap"))
      BY <1>1 DEF PauseBegin
    <3>2. box' = box /\ (x.res = "off" \/ Reached("overlap") = "none")
      BY <3>1, Cancelled
    <3> QED
      BY <3>2, NoGap DEF Gaps
  <2>3. /\ r \in LiveSessions /\ r.wait = "off" /\ r.state = "PAUSED" /\ r.pau = "pausing" /\ r.pbox = x.handle
        /\ r.handle = x.handle /\ r.res = x.res /\ r.crashes = x.crashes
    BY <1>0 DEF LiveSessions, States
  <2> HIDE DEF r, x
  <2>4. Good(r)
    BY <1>0, <2>1, <2>2, <2>3 DEF Good
  <2>5. o # Cur => Stale(r, box')
    BY <1>0, <2>1, <2>2, <2>3 DEF Stale
  <2>6. o = Cur => op.pc # "claim"
    BY <1>0, <2>1
  <2>7. o = Cur => Current(r, box', row', op.pc, reg)
    BY <1>0, <2>1, <2>2, <2>3 DEF Current
  <2>8. \A b \in Boxes : Exists(b)' => Exists(b)
    BY <2>2 DEF Exists
  <2>9. op.pc \in {"claim", "claim_row"} => o # reg
    BY <1>0, <2>1
  <2> QED
    BY <1>0, <2>1, <2>2, <2>3, <2>4, <2>5, <2>6, <2>7, <2>8, <2>9, ObjectStep
<1>2. CASE PauseDone(o)
  <2> DEFINE r == [obj[o] EXCEPT !.handle = Null, !.pau = "off", !.pbox = Null]
  <2>1. /\ x.pau = "pausing" /\ (x.pbox # Null => box[x.pbox] # "gone") /\ box' = Boxed(x.pbox, "paused")
        /\ obj' = [obj EXCEPT ![o] = r] /\ row' = [row EXCEPT !.paused = TRUE]
        /\ held' = held /\ reg' = reg /\ op' = op /\ sweep' = sweep
    BY <1>2 DEF PauseDone
  <2>2. x.pbox = x.handle /\ x.handle # Null /\ x.handle \in Boxes /\ box[x.handle] # "gone" /\ x.state # "ACTIVE" /\ x.res = "off"
    BY <1>0, <2>1 DEF Good, LiveSessions
  <2>3. o = Cur /\ row.sandbox = x.handle /\ x.wait = "off" /\ op.pc # "claim"
    BY <1>0, <2>1, <2>2 DEF Stale, Current
  <2>4. /\ r \in LiveSessions /\ r.wait = x.wait /\ r.state = x.state /\ r.pau = "off" /\ r.handle = Null
        /\ r.res = x.res /\ r.crashes = x.crashes
    BY <1>0 DEF LiveSessions, States
  <2>5. row' \in Rows /\ row'.sandbox = row.sandbox
    BY <1>0, <2>1 DEF Rows
  <2>6. box' = [box EXCEPT ![x.handle] = "paused"] /\ box' \in [Boxes -> BoxStates]
    BY <1>0, <2>1, <2>2 DEF Boxed, BoxStates
  <2> HIDE DEF r, x
  <2>7. Good(r)
    BY <1>0, <2>2, <2>3, <2>4 DEF Good
  <2>8. Current(r, box', row', op.pc, reg)
    BY <1>0, <2>2, <2>3, <2>4, <2>5 DEF Current
  <2>9. \A b \in Boxes : box[b] = "gone" => box'[b] = "gone"
    BY <1>0, <2>2, <2>6
  <2>10. \A b \in Boxes : Exists(b)' => b = row'.sandbox
    BY <1>0, <2>2, <2>3, <2>5, <2>6 DEF Exists
  <2>11. op.pc \in {"claim", "claim_row"} => o # reg
    BY <1>0, <2>1
  <2>12. ~ (op.pc = "resuming" /\ op.obj = o /\ reg # o)
    BY <1>0, <2>1
  <2> QED
    BY <1>0, <2>1, <2>3, <2>4, <2>5, <2>6, <2>7, <2>8, <2>9, <2>10, <2>11, <2>12, ObjectStep
<1>3. CASE PauseFails(o)
  <2>1. PICK t \in {"tokill", "off"} :
          obj' = [obj EXCEPT ![o] = [obj[o] EXCEPT !.state = "ACTIVE", !.pbox = Null, !.pau = t]]
    BY <1>3 DEF PauseFails
  <2> DEFINE r == [obj[o] EXCEPT !.state = "ACTIVE", !.pbox = Null, !.pau = t]
  <2>2. /\ x.pau = "pausing" /\ obj' = [obj EXCEPT ![o] = r] /\ row' = row /\ box' = box
        /\ held' = held /\ reg' = reg /\ op' = op /\ sweep' = sweep
    BY <1>3, <2>1 DEF PauseFails
  <2>3. x.handle # Null /\ x.res = "off" /\ x.crashes # RespawnLimit
    BY <1>0, <2>2 DEF Good
  <2>4. /\ r \in LiveSessions /\ r.wait = x.wait /\ r.state = "ACTIVE" /\ r.pau = t /\ r.handle = x.handle
        /\ r.res = x.res /\ r.crashes = x.crashes
    BY <1>0 DEF LiveSessions, States
  <2> HIDE DEF r, x
  <2>5. Good(r)
    BY <1>0, <2>3, <2>4 DEF Good
  <2>6. o # Cur => Stale(r, box')
    BY <1>0, <2>2, <2>3, <2>4 DEF Stale
  <2>7. o = Cur => Current(r, box', row', op.pc, reg) /\ op.pc # "claim"
    BY <1>0, <2>2, <2>3, <2>4 DEF Current
  <2>8. \A b \in Boxes : Exists(b)' => Exists(b)
    BY <2>2 DEF Exists
  <2>9. op.pc \in {"claim", "claim_row"} => o # reg
    BY <1>0, <2>2
  <2>10. ~ (op.pc = "resuming" /\ op.obj = o /\ reg # o)
    BY <1>0, <2>2
  <2> QED
    BY <1>0, <2>2, <2>4, <2>5, <2>6, <2>7, <2>8, <2>9, <2>10, ObjectStep
<1> QED
  BY <1>1, <1>2, <1>3

LEMMA ResumeSteps ==
    ASSUME LifeInv, gap = "none", gap' = "none", NEW o \in Objects,
           ResumeBegin(o) \/ Resumed(o) \/ ResumeDone(o) \/ ResumeFails(o) \/ ResumeSpawned(o)
    PROVE  LifeInv'
<1> USE Blank
<1> DEFINE x == obj[o]
<1>0. Known(o, x)
  BY Facts
<1> USE DEF Known
<1>1. CASE ResumeBegin(o)
  <2>1. PICK t \in {"spawn", "resume"} :
          /\ obj' = [obj EXCEPT ![o] = [obj[o] EXCEPT !.res = t, !.rbox = row.sandbox]]
          /\ t = "spawn" <=> row.sandbox = Null
    BY <1>1 DEF ResumeBegin
  <2> DEFINE r == [obj[o] EXCEPT !.res = t, !.rbox = row.sandbox]
  <2>2. /\ x.state = "PAUSED" /\ x.res = "off" /\ (reg = o \/ op.obj = o)
        /\ obj' = [obj EXCEPT ![o] = r] /\ row' = row /\ box' = box
        /\ held' = held /\ reg' = reg /\ op' = op /\ sweep' = sweep
    BY <1>1, <2>1 DEF ResumeBegin
  <2>3. x.pau = "off"
    <3>1. Reached("overlap") # "none"
      BY DEF Reached
    <3> QED
      BY <1>1, <3>1 DEF ResumeBegin
  <2>4. /\ r \in LiveSessions /\ r.wait = x.wait /\ r.state = x.state /\ r.pau = x.pau /\ r.handle = x.handle
        /\ r.res = t /\ r.rbox = row.sandbox /\ r.crashes = x.crashes
    BY <1>0 DEF LiveSessions, Rows
  <2>5. op.pc \notin {"claim", "claim_row"} \/ o # reg
    BY <1>0, <2>2
  <2>6. Cur = o
    <3>1. OpInv
      BY DEF LifeInv
    <3> QED
      BY <1>0, <2>2, <2>5, <3>1 DEF OpInv, Cur, Lockers, Ops
  <2> HIDE DEF r, x
  <2>7. x.handle = Null /\ x.crashes # RespawnLimit /\ x.wait = "off"
    BY <1>0, <2>2, <2>3, <2>6 DEF Good, Current
  <2>8. Good(r)
    BY <1>0, <2>2, <2>3, <2>4, <2>7 DEF Good
  <2>9. Current(r, box', row', op.pc, reg)
    BY <1>0, <2>1, <2>2, <2>3, <2>4, <2>6, <2>7 DEF Current
  <2>10. op.pc # "claim" /\ \A b \in Boxes : Exists(b)' => b = row'.sandbox
    BY <1>0, <2>2, <2>5, <2>6 DEF Exists
  <2>11. op.pc \in {"claim", "claim_row"} => o # reg
    BY <2>5
  <2>12. ~ (op.pc = "resuming" /\ op.obj = o /\ reg # o)
    BY <1>0, <2>2
  <2> QED
    BY <1>0, <2>2, <2>4, <2>6, <2>8, <2>9, <2>10, <2>11, <2>12, ObjectStep
<1>2. CASE Resumed(o)
  <2> DEFINE r == [obj[o] EXCEPT !.handle = obj[o].rbox, !.state = "ACTIVE", !.res = "ticket", !.rbox = Null]
  <2>1. /\ x.res = "resume" /\ box[x.rbox] # "gone" /\ box' = [box EXCEPT ![x.rbox] = "running"]
        /\ obj' = [obj EXCEPT ![o] = r] /\ row' = row
        /\ held' = held /\ reg' = reg /\ op' = op /\ sweep' = sweep
    BY <1>2 DEF Resumed
  <2>2. Cur = o /\ x.rbox = row.sandbox /\ row.sandbox # Null /\ x.pau # "pausing" /\ x.crashes # RespawnLimit
        /\ x.wait = "off" /\ (reg = o => x.state # "DEAD")
    BY <1>0, <2>1 DEF Good, Stale, Current
  <2>3. /\ r \in LiveSessions /\ r.wait = x.wait /\ r.state = "ACTIVE" /\ r.pau = x.pau /\ r.handle = x.rbox
        /\ r.res = "ticket" /\ r.crashes = x.crashes
    BY <1>0 DEF LiveSessions, States
  <2>4. x.rbox \in Boxes /\ box' \in [Boxes -> BoxStates]
    BY <1>0, <2>1, <2>2 DEF LiveSessions, BoxStates
  <2> HIDE DEF r, x
  <2>5. Good(r)
    BY <2>2, <2>3 DEF Good
  <2>6. Current(r, box', row', op.pc, reg)
    BY <2>1, <2>2, <2>3 DEF Current
  <2>7. op.pc # "claim" /\ \A b \in Boxes : (Exists(b)' => b = row'.sandbox) /\ (box[b] = "gone" => box'[b] = "gone")
    BY <1>0, <2>1, <2>2, <2>4 DEF Exists
  <2>8. op.pc \in {"claim", "claim_row"} => o # reg
    BY <1>0, <2>1
  <2>9. ~ (op.pc = "resuming" /\ op.obj = o /\ reg # o)
    BY <1>0, <2>2
  <2> QED
    BY <1>0, <2>1, <2>2, <2>3, <2>4, <2>5, <2>6, <2>7, <2>8, <2>9, ObjectStep
<1>3. CASE ResumeDone(o)
  <2>1. x.res = "ticket"
    BY <1>3 DEF ResumeDone
  <2>2. Cur = o /\ x.handle # Null /\ x.pau # "pausing" /\ x.crashes # RespawnLimit
        /\ x.wait = "off" /\ (reg = o => x.state # "DEAD") /\ x.state # "PAUSED"
    BY <1>0, <2>1 DEF Good, Stale, Current
  <2> DEFINE r == [obj[o] EXCEPT !.res = "off", !.wait = "on"]
  <2>3. /\ obj' = [obj EXCEPT ![o] = r] /\ row' = [row EXCEPT !.paused = FALSE] /\ box' = box
        /\ held' = held /\ reg' = reg /\ op' = op /\ sweep' = sweep
    BY <1>3, <2>2 DEF ResumeDone
  <2>4. /\ r \in LiveSessions /\ r.wait = "on" /\ r.state = x.state /\ r.pau = x.pau /\ r.handle = x.handle
        /\ r.res = "off" /\ r.crashes = x.crashes
    BY <1>0 DEF LiveSessions
  <2>5. row' \in Rows /\ row'.sandbox = row.sandbox /\ row'.paused = FALSE
    BY <1>0, <2>3 DEF Rows
  <2>6. op.pc # "claim" /\ row.sandbox = x.handle
    BY <1>0, <2>1, <2>2 DEF Current
  <2> HIDE DEF r, x
  <2>7. Good(r)
    BY <1>0, <2>2, <2>4 DEF Good
  <2>8. Current(r, box', row', op.pc, reg)
    BY <1>0, <2>2, <2>4, <2>5, <2>6 DEF Current
  <2>9. \A b \in Boxes : (Exists(b)' => b = row'.sandbox) /\ (box[b] = "gone" => box'[b] = "gone")
    BY <1>0, <2>3, <2>5, <2>6 DEF Exists
  <2>10. op.pc \in {"claim", "claim_row"} => o # reg
    BY <1>0, <2>1
  <2>11. ~ (op.pc = "resuming" /\ op.obj = o /\ reg # o)
    BY <1>0, <2>2
  <2> QED
    BY <1>0, <2>2, <2>3, <2>4, <2>5, <2>7, <2>8, <2>9, <2>10, <2>11, ObjectStep
<1>4. CASE ResumeFails(o)
  <2> DEFINE r == [obj[o] EXCEPT !.res = "spawn", !.rbox = Null]
  <2>1. /\ x.res = "resume" /\ obj' = [obj EXCEPT ![o] = r] /\ row' = NoRow /\ box' = box
        /\ held' = held /\ reg' = reg /\ op' = op /\ sweep' = sweep
    BY <1>4 DEF ResumeFails
  <2>2. box[x.rbox] = "gone"
    <3>1. Reached("refused") # "none"
      BY DEF Reached
    <3> QED
      BY <1>4, <3>1 DEF ResumeFails
  <2>3. Cur = o /\ x.rbox = row.sandbox /\ x.handle = Null /\ x.wait = "off" /\ (reg = o => x.state # "DEAD")
    BY <1>0, <2>1 DEF Good, Stale, Current
  <2>4. /\ r \in LiveSessions /\ r.wait = x.wait /\ r.state = x.state /\ r.pau = x.pau /\ r.handle = x.handle
        /\ r.res = "spawn" /\ r.crashes = x.crashes
    BY <1>0 DEF LiveSessions
  <2> HIDE DEF r, x
  <2>5. Good(r) /\ r.pau # "pausing"
    BY <1>0, <2>1, <2>3, <2>4 DEF Good
  <2>6. Current(r, box', row', op.pc, reg)
    BY <1>0, <2>1, <2>3, <2>4, <2>5 DEF Current
  <2>7. op.pc # "claim" /\ \A b \in Boxes : ~ Exists(b)'
    BY <1>0, <2>1, <2>2, <2>3 DEF Exists
  <2>8. op.pc \in {"claim", "claim_row"} => o # reg
    BY <1>0, <2>1
  <2>9. ~ (op.pc = "resuming" /\ op.obj = o /\ reg # o)
    BY <1>0, <2>3
  <2> QED
    BY <1>0, <2>1, <2>3, <2>4, <2>5, <2>6, <2>7, <2>8, <2>9, ObjectStep
<1>5. CASE ResumeSpawned(o)
  <2>1. x.res = "spawn" /\ held' = held /\ reg' = reg /\ op' = op /\ sweep' = sweep
    BY <1>5 DEF ResumeSpawned
  <2>2. PICK b \in Boxes :
          /\ Fresh(b)
          /\ IF x.state = "DEAD" \/ reg # o
             THEN box' = [box EXCEPT ![b] = "gone"] /\ obj' = [obj EXCEPT ![o].res = "off"] /\ row' = row
             ELSE /\ box' = [box EXCEPT ![b] = "running"]
                  /\ obj' = [obj EXCEPT ![o] = [@ EXCEPT !.state = "ACTIVE", !.handle = b, !.wait = "on", !.res = "off"]]
                  /\ row' = [sandbox |-> b, paused |-> FALSE]
    <3>1. PICK b \in Boxes :
            /\ Fresh(b)
            /\ IF x.state = "DEAD" \/ reg # o
               THEN /\ \/ box' = [box EXCEPT ![b] = "gone"] /\ UNCHANGED gap
                       \/ gap' = Reached("undestroyed")
                    /\ obj' = [obj EXCEPT ![o].res = "off"] /\ row' = row
               ELSE /\ box' = [box EXCEPT ![b] = "running"]
                    /\ obj' = [obj EXCEPT ![o] = [@ EXCEPT !.state = "ACTIVE", !.handle = b, !.wait = "on", !.res = "off"]]
                    /\ row' = [sandbox |-> b, paused |-> FALSE]
      BY <1>5 DEF ResumeSpawned, Refer
    <3>2. gap' # Reached("undestroyed")
      BY NoGap DEF Gaps
    <3> QED
      BY <3>1, <3>2
  <2>3. box[b] = "unused" /\ b # Null
    BY <2>2 DEF Fresh
  <2>4. op.pc \in {"claim", "claim_row"} => o # reg
    BY <1>0, <2>1
  <2>5. CASE x.state = "DEAD" \/ reg # o
    <3> DEFINE r == [obj[o] EXCEPT !.res = "off"]
    <3>1. box' = [box EXCEPT ![b] = "gone"] /\ obj' = [obj EXCEPT ![o] = r] /\ row' = row
      BY <1>0, <2>2, <2>5
    <3>2. /\ r \in LiveSessions /\ r.wait = x.wait /\ r.state = x.state /\ r.pau = x.pau /\ r.handle = x.handle
          /\ r.res = "off" /\ r.crashes = x.crashes
      BY <1>0 DEF LiveSessions
    <3>3. /\ box' \in [Boxes -> BoxStates]
          /\ \A c \in Boxes : (Exists(c)' => Exists(c)) /\ (box[c] = "gone" => box'[c] = "gone")
      BY <1>0, <3>1 DEF BoxStates, Exists
    <3> HIDE DEF r, x
    <3>4. Good(r)
      BY <1>0, <2>1, <3>2 DEF Good
    <3>5. o # Cur => Stale(r, box')
      <4>1. o # Cur => Stale(r, box)
        BY <1>0, <2>1, <3>2 DEF Stale
      <4> QED
        BY <3>2, <3>3, <3>4, <4>1, StaleStays
    <3>6. o = Cur => Current(r, box', row', op.pc, reg)
      <4>1. o = Cur => Current(r, box, row, op.pc, reg)
        BY <1>0, <2>1, <3>2 DEF Current
      <4> QED
        BY <3>1, <3>2, <3>3, <4>1, CurrentStays
    <3>7. o = Cur => op.pc # "claim"
      BY <1>0, <2>1
    <3>8. op.pc = "resuming" /\ op.obj = o /\ reg # o => r.state = "DEAD" /\ r.pau # "pausing"
      BY <1>0, <3>2
    <3> QED
      BY <1>0, <2>1, <2>4, <3>1, <3>2, <3>3, <3>4, <3>5, <3>6, <3>7, <3>8, ObjectStep
  <2>6. CASE ~ (x.state = "DEAD" \/ reg # o)
    <3> DEFINE r == [obj[o] EXCEPT !.state = "ACTIVE", !.handle = b, !.wait = "on", !.res = "off"]
    <3>1. box' = [box EXCEPT ![b] = "running"] /\ obj' = [obj EXCEPT ![o] = r] /\ row' = [sandbox |-> b, paused |-> FALSE]
      BY <1>0, <2>2, <2>6
    <3>2. /\ r \in LiveSessions /\ r.wait = "on" /\ r.state = "ACTIVE" /\ r.pau = x.pau /\ r.handle = b
          /\ r.res = "off" /\ r.crashes = x.crashes
      BY <1>0 DEF LiveSessions, States
    <3>3. Cur = o /\ x.pau # "pausing" /\ x.crashes # RespawnLimit /\ row.sandbox = Null /\ op.pc # "claim"
      BY <1>0, <2>1, <2>6 DEF Good, Current
    <3>4. row' \in Rows /\ row'.sandbox = b /\ row'.paused = FALSE
      BY <3>1 DEF Rows
    <3>5. box' \in [Boxes -> BoxStates] /\ \A c \in Boxes : (Exists(c)' => c = b) /\ (box[c] = "gone" => box'[c] = "gone")
      BY <1>0, <2>3, <3>1, <3>3 DEF BoxStates, Exists
    <3> HIDE DEF r, x
    <3>6. Good(r)
      BY <2>3, <3>2, <3>3 DEF Good
    <3>7. Current(r, box', row', op.pc, reg)
      BY <2>3, <3>2, <3>3, <3>4 DEF Current
    <3> QED
      BY <2>1, <2>4, <2>6, <3>1, <3>2, <3>3, <3>4, <3>5, <3>6, <3>7, ObjectStep
  <2> QED
    BY <2>5, <2>6
<1> QED
  BY <1>1, <1>2, <1>3, <1>4, <1>5

LEMMA WaitSteps ==
    ASSUME LifeInv, gap = "none", gap' = "none", NEW o \in Objects,
           Exited(o) \/ Crashed(o) \/ CrashSpawned(o) \/ CrashSpawnFails(o)
    PROVE  LifeInv'
<1> USE Blank
<1> DEFINE x == obj[o]
<1>0. Known(o, x)
  BY Facts
<1> USE DEF Known
<1>1. x.wait # "off" /\ held' = held /\ reg' = reg /\ op' = op /\ sweep' = sweep
  BY DEF Exited, Crashed, CrashSpawned, CrashSpawnFails
<1>2. /\ Cur = o /\ x.res = "off" /\ x.pau # "pausing" /\ x.handle # Null /\ x.state # "PAUSED" /\ ~ row.paused
      /\ x.crashes # RespawnLimit /\ op.pc # "claim" /\ row.sandbox = x.handle /\ (reg = o => x.state # "DEAD")
  BY <1>0, <1>1 DEF Good, Stale, Current
<1>3. (op.pc \in {"claim", "claim_row"} => o # reg) /\ ~ (op.pc = "resuming" /\ op.obj = o /\ reg # o)
  BY <1>0, <1>1, <1>2
\* The sandboxes and the row stay, and the object keeps its handle.
<1>4. ASSUME NEW r \in LiveSessions, obj' = [obj EXCEPT ![o] = r], row' = row, box' = box,
             r.res = "off", r.pau = x.pau, r.handle = x.handle, Good(r), r.state # "PAUSED",
             reg = o /\ r.state = "DEAD" => r.wait = "off"
      PROVE  LifeInv'
  <2>1. Current(r, box', row', op.pc, reg)
    BY <1>0, <1>2, <1>4 DEF Current
  <2>2. \A b \in Boxes : Exists(b)' => b = row'.sandbox
    BY <1>0, <1>2, <1>4 DEF Exists
  <2> QED
    BY <1>0, <1>1, <1>2, <1>3, <1>4, <2>1, <2>2, ObjectStep
<1>5. CASE Exited(o) \/ CrashSpawnFails(o)
  <2>1. PICK w \in {"off", "exited"} : /\ obj' = [obj EXCEPT ![o].wait = w] /\ row' = row /\ box' = box
                                       /\ w = "exited" => x.state # "DEAD"
    <3>1. CASE Exited(o)
      BY <3>1 DEF Exited
    <3>2. CASE CrashSpawnFails(o)
      BY <3>2, RaisedEarly DEF CrashSpawnFails
    <3> QED
      BY <1>5, <3>1, <3>2
  <2> DEFINE r == [obj[o] EXCEPT !.wait = w]
  <2>2. obj' = [obj EXCEPT ![o] = r]
    BY <1>0, <2>1
  <2>3. /\ r \in LiveSessions /\ r.wait = w /\ r.state = x.state /\ r.pau = x.pau /\ r.handle = x.handle
        /\ r.res = x.res /\ r.crashes = x.crashes
    BY <1>0 DEF LiveSessions
  <2> HIDE DEF r, x
  <2>4. Good(r)
    BY <1>0, <1>2, <2>3 DEF Good
  <2> QED
    BY <1>2, <1>4, <2>1, <2>2, <2>3, <2>4
<1>6. CASE Crashed(o)
  <2>1. PICK w \in {"off", "spawning"}, s \in {"DEAD", x.state} :
          /\ obj' = [obj EXCEPT ![o] = [obj[o] EXCEPT !.crashes = obj[o].crashes + 1, !.wait = w, !.state = s]]
          /\ w = "off" => s = "DEAD"
          /\ w = "spawning" => s = x.state /\ x.crashes + 1 < RespawnLimit
    <3>1. x.crashes \in Nat
      BY <1>0 DEF LiveSessions
    <3>2. CASE x.crashes + 1 >= RespawnLimit
      <4>1. obj' = [obj EXCEPT ![o] = [obj[o] EXCEPT !.crashes = obj[o].crashes + 1, !.wait = "off", !.state = "DEAD"]]
        BY <1>6, <3>2 DEF Crashed
      <4> QED
        BY <4>1
    <3>3. CASE ~ (x.crashes + 1 >= RespawnLimit)
      <4>1. obj' = [obj EXCEPT ![o] = [obj[o] EXCEPT !.crashes = obj[o].crashes + 1, !.wait = "spawning",
                                                     !.state = obj[o].state]]
        BY <1>6, <3>3 DEF Crashed
      <4> QED
        BY <3>1, <3>3, <4>1
    <3> QED
      BY <3>2, <3>3
  <2>2. row' = row /\ box' = box /\ x.wait = "exited"
    BY <1>6 DEF Crashed
  <2> DEFINE r == [obj[o] EXCEPT !.crashes = obj[o].crashes + 1, !.wait = w, !.state = s]
  <2>3. x.crashes + 1 \in 0..RespawnLimit
    BY <1>0, <1>2 DEF LiveSessions
  <2>4. /\ r \in LiveSessions /\ r.wait = w /\ r.state = s /\ r.pau = x.pau /\ r.handle = x.handle
        /\ r.res = x.res /\ r.crashes = x.crashes + 1
    <3>1. s \in States /\ x \in LiveSessions
      BY <1>0 DEF LiveSessions, States
    <3> QED
      BY <2>3, <3>1 DEF LiveSessions
  <2>5. obj' = [obj EXCEPT ![o] = r]
    BY <2>1
  <2> HIDE DEF r, x
  <2>7. x.crashes + 1 < RespawnLimit => x.crashes + 1 # RespawnLimit
    BY <1>0, <2>3
  <2>8. Good(r)
    BY <1>0, <1>2, <2>1, <2>4, <2>7 DEF Good
  <2> QED
    BY <1>2, <1>4, <2>1, <2>2, <2>4, <2>5, <2>8
<1>7. CASE CrashSpawned(o)
  <2>1. PICK b \in Boxes :
          /\ Fresh(b) /\ box' = [box EXCEPT ![b] = "running"] /\ row' = [sandbox |-> b, paused |-> FALSE]
          /\ obj' = [obj EXCEPT ![o] = [@ EXCEPT !.handle = b, !.state = "ACTIVE", !.wait = "on"]]
    BY <1>7 DEF CrashSpawned, Refer
  <2> DEFINE r == [obj[o] EXCEPT !.handle = b, !.state = "ACTIVE", !.wait = "on"]
  <2>2. obj' = [obj EXCEPT ![o] = r]
    BY <2>1
  <2>3. /\ r \in LiveSessions /\ r.wait = "on" /\ r.state = "ACTIVE" /\ r.pau = x.pau /\ r.handle = b
        /\ r.res = x.res /\ r.crashes = x.crashes
    BY <1>0 DEF LiveSessions, States
  <2>4. box[b] = "unused" /\ b # Null /\ box[x.handle] \in {"gone", "unused"}
    <3>1. ~ Exists(x.handle)
      BY <1>2, <1>7, NoGap DEF CrashSpawned, Gaps
    <3>2. box[b] = "unused" /\ b # Null /\ x.handle \in Boxes /\ box[x.handle] \in BoxStates
      BY <1>0, <1>2, <2>1 DEF Fresh, LiveSessions
    <3>3. x.handle = b \/ box[x.handle] \in {"gone", "unused"}
      BY <3>1, <3>2 DEF Exists, BoxStates
    <3> QED
      BY <3>2, <3>3
  <2>5. row' \in Rows /\ row'.sandbox = b /\ row'.paused = FALSE
    BY <2>1 DEF Rows
  <2>6. box' \in [Boxes -> BoxStates] /\ \A c \in Boxes : (Exists(c)' => c = b) /\ (box[c] = "gone" => box'[c] = "gone")
    BY <1>0, <1>2, <2>1, <2>4 DEF BoxStates, Exists
  <2> HIDE DEF r, x
  <2>7. Good(r)
    BY <1>2, <2>3, <2>4 DEF Good
  <2>8. Current(r, box', row', op.pc, reg)
    BY <1>2, <2>3, <2>5 DEF Current
  <2> QED
    BY <1>1, <1>2, <1>3, <2>2, <2>3, <2>5, <2>6, <2>7, <2>8, ObjectStep
<1> QED
  BY <1>5, <1>6, <1>7

-----------------------------------------------------------------------------
(* The steps under the session lock *)

\* What such a step must do to the objects.
LEMMA LockStep ==
    ASSUME LifeInv, TypeOK', OpInv', HomeInv',
           \A b \in Boxes : box[b] = "gone" => box'[b] = "gone",
           \A p \in Objects : obj'[p] = obj[p] \/ (Good(obj'[p]) /\ (p # Cur' => Stale(obj'[p], box'))),
           \A p \in Objects : p = Cur /\ p # Cur' => Stale(obj'[p], box'),
           Cur' # Null => Current(obj'[Cur'], box', row', op'.pc, reg')
    PROVE  LifeInv'
<1>1. ASSUME NEW p \in Objects PROVE Good(obj'[p]) /\ (p # Cur' => Stale(obj'[p], box'))
  <2>1. obj[p] \in LiveSessions /\ Good(obj[p]) /\ (p # Cur => Stale(obj[p], box))
    BY Facts DEF Known
  <2>2. CASE obj'[p] = obj[p] /\ p # Cur
    BY <2>1, <2>2, StaleStays
  <2> QED
    BY <2>1, <2>2
<1> QED
  BY <1>1 DEF LifeInv, ObjectInv

LEMMA AttachSteps ==
    ASSUME LifeInv, gap = "none", gap' = "none", Enter \/ EnterPaused \/ AttachResumed \/ SpawnFails \/ KillBegin
    PROVE  LifeInv'
<1> USE Blank
<1>0. /\ TypeOK /\ OpInv /\ HomeInv /\ row \in Rows /\ op \in Lockers /\ reg \in Objects \cup {Null}
      /\ obj \in [Objects -> LiveSessions]
  BY Types DEF LifeInv
<1>1. row' = row /\ box' = box /\ obj' = obj /\ held' = held /\ sweep' = sweep /\ gap' = gap
  BY RaisedEarly DEF Enter, EnterPaused, AttachResumed, SpawnFails, KillBegin
<1>2. ASSUME op' \in Lockers, reg' \in Objects \cup {Null}, OpInv', op.pc # "claim", op'.pc # "claim",
             \A p \in Objects : p = Cur /\ p # Cur' => Stale(obj[p], box),
             Cur' # Null => Current(obj[Cur'], box, row, op'.pc, reg')
      PROVE  LifeInv'
  <2>1. TypeOK'
    BY <1>0, <1>1, <1>2 DEF TypeOK, Lockers
  <2>2. HomeInv'
    BY <1>0, <1>1, <1>2 DEF HomeInv, Exists
  <2> QED
    BY <1>1, <1>2, <2>1, <2>2, LockStep
<1>3. CASE Enter
  <2>1. op = Idle /\ reg' = Null /\ (reg # Null => obj[reg].state \in {"NEW", "DEAD"})
    BY <1>3 DEF Enter
  <2>2. /\ op' \in Lockers /\ op'.obj = Null /\ op'.pc \in {"row", "spawn"}
        /\ op'.pc = "row" => op'.box = row.sandbox /\ row.sandbox # Null
        /\ op'.pc = "spawn" => row.sandbox = Null
    <3>1. CASE row.sandbox # Null
      BY <1>0, <1>3, <3>1 DEF Enter, Idle, Lockers, Ops, Rows
    <3>2. CASE row.sandbox = Null
      BY <1>0, <1>3, <3>2 DEF Enter, Idle, Lockers, Ops, Rows
    <3> QED
      BY <3>1, <3>2
  <2>3. Cur' = Null
    BY <2>1, <2>2 DEF Cur
  <2>4. OpInv'
    BY <1>1, <2>1, <2>2 DEF OpInv
  <2>5. ASSUME NEW p \in Objects, p = Cur PROVE Stale(obj[p], box)
    <3>1. reg = p /\ Current(obj[p], box, row, op.pc, reg) /\ Good(obj[p])
      BY <2>1, <2>5, Facts DEF Known
    <3>2. obj[p].state = "DEAD"
      BY <1>0, <2>1, <3>1 DEF Good
    <3> QED
      BY <1>0, <3>1, <3>2 DEF Current, Stale
  <2> QED
    BY <1>2, <2>1, <2>2, <2>3, <2>4, <2>5
<1>4. CASE EnterPaused
  <2>1. op = Idle /\ reg' = reg /\ reg # Null /\ op' = [Idle EXCEPT !.pc = "resuming", !.obj = reg]
    BY <1>4 DEF EnterPaused
  <2>2. op' \in Lockers /\ op'.pc = "resuming" /\ op'.obj = reg
    BY <1>0, <2>1 DEF Idle, Lockers, Ops
  <2>3. Cur' = Cur /\ Cur = reg
    BY <2>1 DEF Cur
  <2>4. OpInv'
    BY <1>1, <2>1, <2>2 DEF OpInv
  <2>5. Current(obj[reg], box, row, "resuming", reg)
    BY <1>0, <2>1, <2>3, Facts DEF Known, Current
  <2> QED
    BY <1>0, <1>2, <2>1, <2>2, <2>3, <2>4, <2>5
<1>5. CASE AttachResumed \/ SpawnFails
  <2>1. op.pc \in {"resuming", "spawn"} /\ reg' = reg /\ op' = Idle
    BY <1>5 DEF AttachResumed, SpawnFails
  <2>2. Cur' = Cur /\ Cur = reg
    BY <2>1 DEF Cur
  <2>3. OpInv'
    BY <2>1 DEF OpInv
  <2>4. reg # Null => Current(obj[reg], box, row, "idle", reg)
    BY <1>0, <2>1, <2>2, Facts DEF Known, Current
  <2> QED
    BY <1>0, <1>2, <2>1, <2>2, <2>3, <2>4
<1>6. CASE KillBegin
  <2>1. op = Idle /\ reg' = Null /\ reg # Null /\ op' = [Idle EXCEPT !.pc = "kill", !.obj = reg]
    BY <1>6 DEF KillBegin
  <2>2. op' \in Lockers /\ op'.pc = "kill" /\ op'.obj = reg
    BY <1>0, <2>1 DEF Idle, Lockers, Ops
  <2>3. Cur' = reg /\ Cur = reg
    BY <2>1, <2>2 DEF Cur
  <2>4. OpInv'
    BY <1>1, <2>1, <2>2 DEF OpInv
  <2>5. Current(obj[reg], box, row, "kill", Null)
    BY <1>0, <2>1, <2>3, Facts DEF Known, Current
  <2> QED
    BY <1>0, <1>2, <2>1, <2>2, <2>3, <2>4, <2>5
<1> QED
  BY <1>3, <1>4, <1>5, <1>6

\* A new LiveSession, with the sandbox b.
LEMMA NewSession ==
    ASSUME NEW b \in Boxes
    PROVE  /\ LiveSession(b) \in LiveSessions /\ Good(LiveSession(b))
           /\ LiveSession(b).state = "ACTIVE" /\ LiveSession(b).handle = b /\ LiveSession(b).wait = "off"
           /\ LiveSession(b).res = "off" /\ LiveSession(b).pau = "off"
<1> DEFINE x == LiveSession(b)
<1>1. /\ x.state = "ACTIVE" /\ x.handle = b /\ x.wait = "off" /\ x.res = "off" /\ x.pau = "off" /\ x.crashes = 0
      /\ x \in LiveSessions
  <2> DEFINE u == Unused
  <2>1. 0 \in 0..RespawnLimit
    BY Blank
  <2>2. u \in LiveSessions /\ u.wait = "off" /\ u.res = "off" /\ u.pau = "off" /\ u.crashes = 0
    BY <2>1 DEF Unused, LiveSessions, States
  <2>3. x = [u EXCEPT !.made = TRUE, !.state = "ACTIVE", !.handle = b]
    BY DEF LiveSession
  <2> HIDE DEF u, x
  <2> QED
    BY <2>2, <2>3 DEF LiveSessions, States
<1> HIDE DEF x
<1>2. Good(x)
  BY <1>1, Blank DEF Good
<1> QED
  BY <1>1, <1>2 DEF x

LEMMA SetupSteps ==
    ASSUME LifeInv, gap = "none", gap' = "none", Spawned \/ RowResumed
    PROVE  LifeInv'
<1> USE Blank
<1>0. /\ TypeOK /\ OpInv /\ HomeInv /\ row \in Rows /\ op \in Lockers /\ reg \in Objects \cup {Null}
      /\ obj \in [Objects -> LiveSessions] /\ box \in [Boxes -> BoxStates]
  BY Types DEF LifeInv
<1>1. row' = row /\ held' = held /\ sweep' = sweep /\ gap' = gap /\ op.pc \in {"spawn", "row"}
  BY DEF Spawned, RowResumed
<1>2. Cur = Null
  BY <1>0, <1>1 DEF OpInv, Cur
\* b is the only sandbox that exists afterwards, and box' never revives one.
<1>3. ASSUME NEW b \in Boxes, NEW o \in Objects, NEW pc \in {"claim", "claim_row"},
             box[b] # "gone", box' = [box EXCEPT ![b] = "running"], obj' = [obj EXCEPT ![o] = LiveSession(b)],
             reg' = o, op' = [Idle EXCEPT !.pc = pc, !.obj = o],
             pc = "claim" => row.sandbox = Null,
             pc = "claim_row" => row.sandbox = b
      PROVE  LifeInv'
  <2> DEFINE x == LiveSession(b)
  <2>1. /\ x \in LiveSessions /\ Good(x) /\ x.state = "ACTIVE" /\ x.handle = b /\ x.wait = "off"
        /\ x.res = "off" /\ x.pau = "off" /\ obj' = [obj EXCEPT ![o] = x]
    BY <1>3, NewSession
  <2> HIDE DEF x
  <2>2. op' \in Lockers /\ op'.pc = pc /\ op'.obj = o
    BY <1>3 DEF Idle, Lockers, Ops
  <2>3. obj' \in [Objects -> LiveSessions] /\ obj'[o] = x /\ \A p \in Objects : p # o => obj'[p] = obj[p]
    BY <1>0, <2>1
  <2>4. box' \in [Boxes -> BoxStates] /\ \A c \in Boxes : box[c] = "gone" => box'[c] = "gone"
    BY <1>0, <1>3 DEF BoxStates
  <2>5. TypeOK'
    BY <1>0, <1>1, <1>3, <2>2, <2>3, <2>4 DEF TypeOK, Lockers, LiveSessions
  <2>6. Cur' = o
    BY <1>3 DEF Cur
  <2>7. OpInv'
    BY <1>1, <1>3, <2>1, <2>2, <2>3 DEF OpInv
  <2>8. HomeInv'
    BY <1>0, <1>1, <1>3, <2>1, <2>2, <2>3 DEF HomeInv, Exists
  <2>9. Current(x, box', row', op'.pc, reg')
    BY <1>1, <1>3, <2>1, <2>2 DEF Current
  <2>10. \A p \in Objects : obj'[p] = obj[p] \/ (Good(obj'[p]) /\ p = Cur')
    BY <2>1, <2>3, <2>6
  <2> QED
    BY <1>2, <2>3, <2>4, <2>5, <2>6, <2>7, <2>8, <2>9, <2>10, LockStep
<1>4. CASE Spawned
  <2>1. PICK b \in Boxes, o \in Objects :
          /\ Fresh(b) /\ box' = [box EXCEPT ![b] = "running"] /\ obj' = [obj EXCEPT ![o] = LiveSession(b)]
          /\ reg' = o /\ op' = [Idle EXCEPT !.pc = "claim", !.obj = o]
    BY <1>4 DEF Spawned
  <2>2. box[b] # "gone" /\ row.sandbox = Null
    BY <1>0, <1>4, <2>1 DEF Fresh, OpInv, Spawned
  <2> QED
    BY <1>3, <2>1, <2>2
<1>5. CASE RowResumed
  <2>1. PICK o \in Objects :
          /\ box' = [box EXCEPT ![op.box] = "running"] /\ obj' = [obj EXCEPT ![o] = LiveSession(op.box)]
          /\ reg' = o /\ op' = [Idle EXCEPT !.pc = "claim_row", !.obj = o]
    BY <1>5 DEF RowResumed
  <2>2. box[op.box] # "gone" /\ row.sandbox = op.box /\ op.box \in Boxes
    BY <1>0, <1>5 DEF OpInv, RowResumed, Lockers
  <2> QED
    BY <1>3, <2>1, <2>2
<1> QED
  BY <1>4, <1>5

LEMMA ClaimSteps ==
    ASSUME LifeInv, gap = "none", gap' = "none", SpawnDone \/ RowDone \/ SpawnUndone
    PROVE  LifeInv'
<1> USE Blank
<1>0. /\ TypeOK /\ OpInv /\ HomeInv /\ row \in Rows /\ op \in Lockers /\ reg \in Objects
      /\ obj \in [Objects -> LiveSessions] /\ box \in [Boxes -> BoxStates] /\ op.obj = reg /\ reg # Null /\ Cur = reg
  BY Types DEF LifeInv, OpInv, SpawnDone, RowDone, SpawnUndone, Cur
<1>1. /\ Known(reg, obj[reg]) /\ op.pc \in {"claim", "claim_row"} /\ op' = Idle /\ sweep' = sweep /\ gap' = gap
      /\ obj[reg].state = "ACTIVE" /\ obj[reg].wait = "off" /\ obj[reg].res = "off" /\ obj[reg].pau = "off"
  BY <1>0, Facts DEF OpInv, SpawnDone, RowDone, SpawnUndone
<1> DEFINE h == obj[reg].handle
<1>2. h \in Boxes /\ h # Null
  BY <1>0, <1>1 DEF Known, Good, LiveSessions
<1>3. OpInv'
  BY <1>1 DEF OpInv
<1>4. CASE SpawnDone \/ RowDone
  <2> DEFINE x == [obj[reg] EXCEPT !.wait = "on"]
  <2>1. held' = TRUE /\ box' = box /\ reg' = reg /\ obj' = [obj EXCEPT ![reg] = x]
    BY <1>0, <1>4 DEF SpawnDone, RowDone
  <2>2. row' \in Rows /\ row'.sandbox = h /\ row'.paused = FALSE
    <3>1. CASE SpawnDone
      BY <1>0, <1>2, <3>1 DEF SpawnDone, Refer, Rows
    <3>2. CASE RowDone
      <4>1. row' = [row EXCEPT !.paused = FALSE] /\ op.pc # "claim"
        BY <3>2 DEF RowDone
      <4>2. row.sandbox = h
        BY <1>0, <1>1, <1>2, <4>1 DEF Known, Current
      <4> QED
        BY <1>0, <4>1, <4>2 DEF Rows
    <3> QED
      BY <1>4, <3>1, <3>2
  <2>3. /\ x \in LiveSessions /\ x.wait = "on" /\ x.state = "ACTIVE" /\ x.res = "off" /\ x.pau = "off"
        /\ x.handle = h /\ x.crashes = obj[reg].crashes
    BY <1>0, <1>1 DEF LiveSessions
  <2>4. obj[reg].crashes # RespawnLimit
    BY <1>1 DEF Known, Good
  <2> HIDE DEF x, h
  <2>5. obj' \in [Objects -> LiveSessions] /\ obj'[reg] = x /\ \A p \in Objects : p # reg => obj'[p] = obj[p]
    BY <1>0, <2>1, <2>3
  <2>6. TypeOK'
    BY <1>0, <1>1, <2>1, <2>2, <2>5 DEF TypeOK, Rows, LiveSessions, Lockers
  <2>7. Cur' = reg
    BY <1>0, <2>1 DEF Cur
  <2>8. Good(x) /\ Current(x, box', row', op'.pc, reg')
    BY <1>1, <1>2, <2>2, <2>3, <2>4 DEF Good, Current
  <2>9. \A b \in Boxes : Exists(b) => b = h
    <3>1. CASE op.pc = "claim"
      BY <1>0, <3>1 DEF HomeInv, h
    <3>2. CASE op.pc = "claim_row"
      <4>1. row.sandbox = h
        BY <1>0, <1>1, <1>2, <3>2 DEF Known, Current, h
      <4> QED
        BY <1>0, <3>2, <4>1 DEF HomeInv
    <3> QED
      BY <1>1, <3>1, <3>2
  <2>10. HomeInv'
    BY <1>1, <2>1, <2>2, <2>9 DEF HomeInv, Exists
  <2> QED
    BY <1>0, <1>3, <2>1, <2>5, <2>6, <2>7, <2>8, <2>10, LockStep
<1>5. CASE SpawnUndone
  <2>1. op.pc = "claim" /\ reg' = Null /\ box' = Boxed(h, "gone") /\ row' = NoRow /\ held' = FALSE /\ obj' = obj
    <3>1. op.pc = "claim" /\ op.obj = reg /\ Destroy(obj[op.obj].handle, gap)
      BY <1>0, <1>5 DEF SpawnUndone, OpInv
    <3>2. box' = Boxed(h, "gone")
      BY <3>1, Destroyed DEF h
    <3> QED
      BY <1>5, <3>1, <3>2 DEF SpawnUndone
  <2>2. box' = [box EXCEPT ![h] = "gone"]
    BY <1>2, <2>1 DEF Boxed
  <2>3. box' \in [Boxes -> BoxStates] /\ \A c \in Boxes : box[c] = "gone" => box'[c] = "gone"
    BY <1>0, <2>2 DEF BoxStates
  <2>4. TypeOK'
    BY <1>0, <1>1, <2>1, <2>3 DEF TypeOK, Rows, Lockers
  <2>5. Cur' = Null
    BY <1>1, <2>1 DEF Cur
  <2>6. HomeInv'
    BY <1>0, <1>1, <1>2, <2>1, <2>2 DEF HomeInv, Exists
  <2>7. Stale(obj[reg], box')
    BY <1>0, <1>1, <1>2, <2>2 DEF Stale
  <2> QED
    BY <1>0, <1>3, <2>1, <2>3, <2>4, <2>5, <2>6, <2>7, LockStep
<1> QED
  BY <1>4, <1>5

LEMMA RowFailsStep == ASSUME LifeInv, gap = "none", gap' = "none", RowResumeFails PROVE LifeInv'
<1> USE Blank
<1>0. /\ TypeOK /\ OpInv /\ HomeInv /\ row \in Rows /\ op \in Lockers /\ reg \in Objects \cup {Null}
      /\ obj \in [Objects -> LiveSessions] /\ box \in [Boxes -> BoxStates]
  BY Types DEF LifeInv
<1>1. /\ reg = Null /\ op.box = row.sandbox /\ row' = NoRow /\ op' = [Idle EXCEPT !.pc = "spawn"]
      /\ box' = [box EXCEPT ![op.box] = "gone"] /\ obj' = obj /\ reg' = reg /\ held' = held /\ sweep' = sweep /\ op.pc = "row"
  <2>1. op.pc = "row" /\ Destroy(op.box, gap) /\ op.box = row.sandbox /\ row.sandbox # Null /\ reg = Null
    BY <1>0 DEF RowResumeFails, OpInv
  <2>2. box' = [box EXCEPT ![op.box] = "gone"]
    BY <2>1, Destroyed DEF Boxed
  <2> QED
    BY <2>1, <2>2 DEF RowResumeFails
<1>2. op' \in Lockers /\ op'.pc = "spawn" /\ op'.obj = Null
  BY <1>1 DEF Idle, Lockers, Ops
<1>3. box' \in [Boxes -> BoxStates] /\ \A b \in Boxes : box[b] = "gone" => box'[b] = "gone"
  BY <1>0, <1>1 DEF BoxStates
<1>4. TypeOK'
  BY <1>0, <1>1, <1>2, <1>3 DEF TypeOK, Rows, Lockers
<1>5. OpInv'
  BY <1>1, <1>2 DEF OpInv
<1>6. HomeInv'
  BY <1>0, <1>1, <1>2 DEF HomeInv, Exists
<1>7. Cur = Null /\ Cur' = Null
  BY <1>1, <1>2 DEF Cur
<1> QED
  BY <1>1, <1>3, <1>4, <1>5, <1>6, <1>7, LockStep

LEMMA KillSteps ==
    ASSUME LifeInv, gap = "none", gap' = "none", KillReleased \/ KillDone
    PROVE  LifeInv'
<1> USE Blank
<1> DEFINE o == op.obj
           x == obj[o]
<1>0. /\ TypeOK /\ OpInv /\ HomeInv /\ row \in Rows /\ op \in Lockers /\ reg = Null /\ o \in Objects
      /\ obj \in [Objects -> LiveSessions] /\ box \in [Boxes -> BoxStates] /\ op.pc \in {"kill", "killed"} /\ Cur = o
  BY Types DEF LifeInv, OpInv, KillReleased, KillDone, Cur, Lockers
<1>1. Known(o, x)
  BY <1>0, Facts
<1> USE DEF Known
<1>2. CASE KillReleased
  <2>1. PICK t \in {"off", "pausing"} :
          /\ obj' = [obj EXCEPT ![o] = [obj[o] EXCEPT !.state = "DEAD", !.pau = t]]
          /\ t = "pausing" => x.pau = "pausing"
    <3>1. CASE x.pau = "tokill"
      <4>1. obj' = [obj EXCEPT ![o] = [obj[o] EXCEPT !.state = "DEAD", !.pau = "off"]]
        BY <1>2, <3>1 DEF KillReleased
      <4> QED
        BY <4>1
    <3>2. CASE x.pau # "tokill"
      <4>1. obj' = [obj EXCEPT ![o] = [obj[o] EXCEPT !.state = "DEAD", !.pau = x.pau]]
        BY <1>2, <3>2 DEF KillReleased
      <4>2. x.pau \in {"off", "pausing"}
        BY <1>1, <3>2 DEF LiveSessions
      <4> QED
        BY <4>1, <4>2
    <3> QED
      BY <3>1, <3>2
  <2> DEFINE r == [obj[o] EXCEPT !.state = "DEAD", !.pau = t]
  <2>2. /\ obj' = [obj EXCEPT ![o] = r] /\ op' = [op EXCEPT !.pc = "killed", !.box = x.handle] /\ held' = FALSE /\ row' = row
        /\ box' = box /\ reg' = reg /\ sweep' = sweep /\ gap' = gap
    BY <1>2, <2>1 DEF KillReleased
  <2>3. /\ r \in LiveSessions /\ r.wait = x.wait /\ r.state = "DEAD" /\ r.pau = t /\ r.handle = x.handle
        /\ r.res = x.res /\ r.crashes = x.crashes /\ r.rbox = x.rbox /\ r.pbox = x.pbox
    BY <1>1 DEF LiveSessions, States
  <2>4. op' \in Lockers /\ op'.pc = "killed" /\ op'.obj = o
    BY <1>0, <1>1, <2>2 DEF Lockers, Ops, LiveSessions
  <2>5. obj' \in [Objects -> LiveSessions] /\ obj'[o] = r /\ \A p \in Objects : p # o => obj'[p] = obj[p]
    BY <1>0, <2>2, <2>3
  <2> HIDE DEF r, x, o
  <2>6. TypeOK'
    BY <1>0, <2>2, <2>4, <2>5 DEF TypeOK, Lockers, LiveSessions
  <2>7. Cur' = o
    BY <1>0, <2>2, <2>4 DEF Cur
  <2>8. Good(r)
    BY <1>1, <2>1, <2>3 DEF Good
  <2>9. Current(r, box', row', op'.pc, reg')
    BY <1>0, <1>1, <2>1, <2>2, <2>3, <2>4 DEF Current
  <2>10. OpInv'
    BY <1>0, <2>2, <2>4 DEF OpInv
  <2>11. HomeInv'
    BY <1>0, <2>2, <2>4 DEF HomeInv, Exists
  <2>12. \A b \in Boxes : box[b] = "gone" => box'[b] = "gone"
    BY <2>2
  <2>13. \A p \in Objects : obj'[p] = obj[p] \/ (Good(obj'[p]) /\ p = Cur')
    BY <2>5, <2>7, <2>8
  <2> QED
    BY <1>0, <2>5, <2>6, <2>7, <2>9, <2>10, <2>11, <2>12, <2>13, LockStep
<1>3. CASE KillDone
  <2> DEFINE r == [obj[o] EXCEPT !.wait = "off"]
  <2>1. obj' = [obj EXCEPT ![o] = r] /\ row' = NoRow /\ op' = Idle /\ held' = held /\ reg' = reg /\ sweep' = sweep
    BY <1>0, <1>3 DEF KillDone
  <2>2. /\ box' = Boxed(op.box, "gone") /\ x.res \notin {"resume", "ticket"} /\ (op.box # Null \/ row.sandbox = Null)
        /\ {x.handle, row.sandbox} \subseteq {Null, op.box}
    <3>1. CancelTasks(o, Boxed(op.box, "gone"), GapAtKill(x)) \/ CancelTasks(o, box, Reached("undestroyed"))
      BY <1>3 DEF KillDone
    <3>2. box' = Boxed(op.box, "gone") /\ GapAtKill(x) = "none"
      BY <3>1, Cancelled, NoGap DEF Gaps
    <3> QED
      BY <3>2, NoGap DEF GapAtKill, Gaps
  <2>3. /\ r \in LiveSessions /\ r.wait = "off" /\ r.state = x.state /\ r.pau = x.pau /\ r.handle = x.handle
        /\ r.res = x.res /\ r.crashes = x.crashes /\ r.rbox = x.rbox /\ r.pbox = x.pbox
    BY <1>1 DEF LiveSessions
  <2>4. obj' \in [Objects -> LiveSessions] /\ obj'[o] = r /\ \A p \in Objects : p # o => obj'[p] = obj[p]
    BY <1>0, <2>1, <2>3
  <2>5. op.box \in Boxes \cup {Null} /\ x.res \in {"off", "spawn"}
    BY <1>0, <1>1, <2>2 DEF LiveSessions, Lockers
  <2> HIDE DEF r, x, o
  <2>6. /\ box' \in [Boxes -> BoxStates] /\ \A c \in Boxes : box[c] = "gone" => box'[c] = "gone"
        /\ op.box # Null => box'[op.box] = "gone"
        /\ \A c \in Boxes : c # op.box => box'[c] = box[c]
    BY <1>0, <2>2, <2>5 DEF Boxed, BoxStates
  <2>7. TypeOK'
    BY <1>0, <2>1, <2>4, <2>6 DEF TypeOK, Lockers, LiveSessions, Rows
  <2>8. Cur' = Null
    BY <1>0, <2>1 DEF Cur
  <2>9. Good(r)
    BY <1>1, <2>3 DEF Good
  <2>10. Stale(r, box')
    BY <1>1, <2>2, <2>3, <2>5, <2>6 DEF Stale, Good
  <2>11. OpInv'
    BY <1>0, <2>1 DEF OpInv
  <2>12. HomeInv'
    <3>1. \A b \in Boxes : Exists(b) => b = row.sandbox
      BY <1>0 DEF HomeInv
    <3>2. \A b \in Boxes : ~ Exists(b)'
      BY <2>2, <2>5, <2>6, <3>1 DEF Exists
    <3> QED
      BY <3>2 DEF HomeInv
  <2>13. \A p \in Objects : obj'[p] = obj[p] \/ (Good(obj'[p]) /\ Stale(obj'[p], box'))
    BY <2>4, <2>9, <2>10
  <2> QED
    BY <1>0, <2>4, <2>6, <2>7, <2>8, <2>10, <2>11, <2>12, <2>13, LockStep
<1> QED
  BY <1>2, <1>3

-----------------------------------------------------------------------------
(* Lost ownership, the sweep and the faults *)

LEMMA ResumeSpawnFailsStep ==
    ASSUME LifeInv, gap = "none", gap' = "none", NEW o \in Objects, ResumeSpawnFails(o)
    PROVE  LifeInv'
<1> USE Blank
<1> DEFINE x == obj[o]
           r == [obj[o] EXCEPT !.res = "off"]
<1>0. Known(o, x) /\ TypeOK /\ OpInv /\ HomeInv
  BY Facts DEF LifeInv
<1> USE DEF Known
<1>1. /\ x.res = "spawn" /\ obj' = [obj EXCEPT ![o] = r] /\ row' = row /\ box' = box /\ held' = held /\ reg' = reg
      /\ sweep' = sweep /\ op' = IF op.obj = o /\ op.pc = "resuming" THEN Idle ELSE op
  BY <1>0, RaisedEarly DEF ResumeSpawnFails
<1>2. /\ r \in LiveSessions /\ r.wait = x.wait /\ r.state = x.state /\ r.pau = x.pau /\ r.handle = x.handle
      /\ r.res = "off" /\ r.crashes = x.crashes /\ r.rbox = x.rbox /\ r.pbox = x.pbox
  BY <1>0 DEF LiveSessions
<1>3. obj' \in [Objects -> LiveSessions] /\ obj'[o] = r /\ \A p \in Objects : p # o => obj'[p] = obj[p]
  BY <1>0, <1>1, <1>2
<1>4. op' \in Lockers /\ (op' = op \/ (op' = Idle /\ op.pc = "resuming"))
  BY <1>0, <1>1
<1> HIDE DEF r, x
<1>5. Good(r) /\ (o # Cur => Stale(r, box'))
  BY <1>0, <1>1, <1>2 DEF Good, Stale
<1>6. Cur' = Cur
  BY <1>1, <1>4 DEF Cur
<1>7. Cur # Null => Current(obj'[Cur], box', row', op'.pc, reg')
  <2>1. CASE Cur = o
    BY <1>0, <1>1, <1>2, <1>3, <1>4, <2>1 DEF Current
  <2>2. CASE Cur # o /\ Cur # Null
    <3>1. Cur \in Objects
      BY <1>0, <2>2 DEF Cur, Lockers
    <3>2. Current(obj[Cur], box, row, op.pc, reg) /\ obj'[Cur] = obj[Cur]
      BY <1>3, <2>2, <3>1 DEF LifeInv, ObjectInv
    <3> QED
      BY <1>1, <1>4, <3>2 DEF Current
  <2> QED
    BY <2>1, <2>2
<1>8. TypeOK'
  BY <1>0, <1>1, <1>3, <1>4 DEF TypeOK, Lockers, LiveSessions
<1>9. OpInv'
  <2>1. CASE op' = Idle
    BY <2>1 DEF OpInv
  <2>2. CASE op' = op
    <3>1. op.pc \in {"claim", "claim_row"} => reg # o /\ obj'[reg] = obj[reg]
      BY <1>0, <1>1, <1>3 DEF OpInv
    <3>2. op.pc = "resuming" => obj'[op.obj].state = obj[op.obj].state /\ obj'[op.obj].pau = obj[op.obj].pau
      BY <1>0, <1>2, <1>3 DEF OpInv, Lockers, x
    <3> QED
      BY <1>0, <1>1, <2>2, <3>1, <3>2 DEF OpInv
  <2> QED
    BY <1>4, <2>1, <2>2
<1>10. HomeInv'
  <2>1. op.pc = "claim" => op' = op /\ obj'[op.obj] = obj[op.obj]
    BY <1>0, <1>1, <1>3, <1>4 DEF OpInv
  <2>2. op'.pc = "claim" <=> op.pc = "claim"
    BY <1>4
  <2> QED
    BY <1>0, <1>1, <2>1, <2>2 DEF HomeInv, Exists
<1>11. \A p \in Objects : obj'[p] = obj[p] \/ (Good(obj'[p]) /\ (p # Cur' => Stale(obj'[p], box')))
  BY <1>3, <1>5, <1>6
<1>12. \A b \in Boxes : box[b] = "gone" => box'[b] = "gone"
  BY <1>1
<1> QED
  BY <1>6, <1>7, <1>8, <1>9, <1>10, <1>11, <1>12, LockStep

LEMMA NotOwnerStep ==
    ASSUME LifeInv, gap = "none", gap' = "none", NEW o \in Objects, NotOwner(o)
    PROVE  LifeInv'
<1> USE Blank
<1> DEFINE x == obj[o]
           r == [obj[o] EXCEPT !.wait = "off", !.state = "DEAD", !.pau = "off", !.pbox = Null]
<1>0. Known(o, x) /\ TypeOK /\ OpInv /\ HomeInv
  BY Facts DEF LifeInv
<1> USE DEF Known
<1>1. /\ x.wait = "exited" /\ obj' = [obj EXCEPT ![o] = r] /\ row' = row /\ box' = box /\ held' = held /\ reg' = Null
      /\ sweep' = sweep /\ op' = op
  BY <1>0 DEF NotOwner
<1>2. /\ r \in LiveSessions /\ r.wait = "off" /\ r.state = "DEAD" /\ r.pau = "off" /\ r.handle = x.handle
      /\ r.res = x.res /\ r.crashes = x.crashes
  BY <1>0 DEF LiveSessions, States
<1>3. obj' \in [Objects -> LiveSessions] /\ obj'[o] = r /\ \A p \in Objects : p # o => obj'[p] = obj[p]
  BY <1>0, <1>1, <1>2
<1> HIDE DEF r, x
<1>4. Cur = o /\ x.res = "off" /\ x.handle # Null
  BY <1>0, <1>1 DEF Stale, Current
<1>5. Good(r) /\ Stale(r, box')
  BY <1>2, <1>4 DEF Good, Stale
<1>6. op.pc \notin {"claim", "claim_row"}
  BY <1>0, <1>1, <1>4
<1>7. Cur' = Null \/ (Cur' = o /\ reg = Null)
  BY <1>0, <1>1, <1>4 DEF Cur, OpInv
<1>8. Cur' # Null => Current(obj'[Cur'], box', row', op'.pc, reg')
  BY <1>0, <1>1, <1>2, <1>3, <1>4, <1>5, <1>7 DEF Current
<1>9. TypeOK'
  BY <1>0, <1>1, <1>3 DEF TypeOK, Lockers, LiveSessions
<1>10. OpInv'
  <2>1. op.pc = "resuming" => op.obj # Null /\ obj'[op.obj].state = "DEAD" /\ obj'[op.obj].pau # "pausing"
    <3>1. CASE op.obj = o
      BY <1>2, <1>3, <3>1
    <3>2. CASE op.obj # o /\ op.pc = "resuming"
      <4>1. op.obj # Null /\ op.obj \in Objects /\ reg = Null
        BY <1>0, <1>4, <3>2 DEF OpInv, Lockers, Cur
      <4> QED
        BY <1>0, <1>4, <3>2, <4>1
    <3> QED
      BY <1>0, <3>1, <3>2
  <2> QED
    BY <1>0, <1>1, <1>6, <2>1 DEF OpInv
<1>11. HomeInv'
  BY <1>0, <1>1, <1>6 DEF HomeInv, Exists
<1>12. \A p \in Objects : obj'[p] = obj[p] \/ (Good(obj'[p]) /\ Stale(obj'[p], box'))
  BY <1>3, <1>5
<1>13. \A p \in Objects : p = Cur /\ p # Cur' => Stale(obj'[p], box')
  BY <1>3, <1>4, <1>5
<1>14. \A b \in Boxes : box[b] = "gone" => box'[b] = "gone"
  BY <1>1
<1> QED
  BY <1>8, <1>9, <1>10, <1>11, <1>12, <1>13, <1>14, LockStep

LEMMA SweepSteps ==
    ASSUME LifeInv, gap = "none", gap' = "none", SweepBegin \/ SweepDone
    PROVE  LifeInv'
<1> USE Blank
<1>0. /\ TypeOK /\ OpInv /\ HomeInv /\ row \in Rows /\ op \in Lockers /\ reg \in Objects \cup {Null}
      /\ obj \in [Objects -> LiveSessions] /\ box \in [Boxes -> BoxStates] /\ sweep \in Boxes \cup {Null}
  BY Types DEF LifeInv
<1>1. CASE SweepBegin
  <2>1. /\ sweep' = row.sandbox /\ held' = held /\ row' = row /\ box' = box /\ reg' = reg /\ obj' = obj
        /\ op' = op /\ gap' = gap
    BY <1>1 DEF SweepBegin
  <2>2. TypeOK'
    BY <1>0, <2>1 DEF TypeOK, Rows
  <2> QED
    BY <2>1, <2>2 DEF LifeInv, ObjectInv, OpInv, HomeInv, Cur, Exists
<1>2. CASE SweepDone
  <2>0. Destroy(sweep, IF Returned THEN Reached("returned") ELSE gap)
    BY <1>2 DEF SweepDone
  <2>1. /\ sweep # Null /\ box' = [box EXCEPT ![sweep] = "gone"] /\ row' = NoRow /\ reg' = Null /\ held' = FALSE
        /\ sweep' = Null /\ obj' = obj /\ op' = op
    BY <1>2, <2>0, Destroyed DEF SweepDone, Boxed
  <2>2. ~ Returned
    <3>1. (IF Returned THEN Reached("returned") ELSE gap) = "none"
      BY <2>0, Destroyed
    <3> QED
      BY <3>1, NoGap DEF Gaps
  <2>3. row.sandbox = sweep /\ row.paused /\ op = Idle /\ (reg # Null => obj[reg].res = "off")
    BY <2>2 DEF Returned
  <2>4. sweep \in Boxes /\ box' \in [Boxes -> BoxStates] /\ \A b \in Boxes : box[b] = "gone" => box'[b] = "gone"
    BY <1>0, <2>1 DEF BoxStates
  <2>5. Cur = reg /\ Cur' = Null
    BY <2>1, <2>3 DEF Cur
  <2>6. ASSUME NEW p \in Objects, p = Cur PROVE Stale(obj[p], box')
    <3>1. Good(obj[p]) /\ Current(obj[p], box, row, "idle", reg) /\ obj[p].res = "off"
      BY <2>3, <2>5, <2>6, Facts DEF Known
    <3>2. obj[p].wait = "off" /\ (obj[p].handle # Null => obj[p].handle = sweep)
      BY <2>3, <3>1 DEF Current
    <3>3. box'[sweep] = "gone"
      BY <1>0, <2>1, <2>4
    <3> QED
      BY <3>1, <3>2, <3>3 DEF Good, Stale
  <2>7. TypeOK'
    BY <1>0, <2>1, <2>3, <2>4 DEF TypeOK, Rows, Lockers
  <2>8. OpInv'
    BY <2>1, <2>3 DEF OpInv
  <2>9. HomeInv'
    BY <1>0, <2>1, <2>3, <2>4 DEF HomeInv, Exists
  <2> QED
    BY <2>1, <2>4, <2>5, <2>6, <2>7, <2>8, <2>9, LockStep
<1> QED
  BY <1>1, <1>2

LEMMA FaultSteps ==
    ASSUME LifeInv, gap = "none", gap' = "none", (\E b \in Boxes : RunnerCrash(b)) \/ Restart
    PROVE  LifeInv'
<1> USE Blank
<1>0. /\ TypeOK /\ OpInv /\ HomeInv /\ row \in Rows /\ op \in Lockers /\ reg \in Objects \cup {Null}
      /\ obj \in [Objects -> LiveSessions] /\ box \in [Boxes -> BoxStates] /\ sweep \in Boxes \cup {Null}
  BY Types DEF LifeInv
<1>1. CASE \E b \in Boxes : RunnerCrash(b)
  <2>1. PICK b \in Boxes : RunnerCrash(b)
    BY <1>1
  <2>2. /\ box' = [box EXCEPT ![b] = "gone"] /\ held' = held /\ row' = row /\ reg' = reg /\ obj' = obj
        /\ op' = op /\ sweep' = sweep
    BY <2>1 DEF RunnerCrash
  <2>3. box' \in [Boxes -> BoxStates] /\ \A c \in Boxes : (box[c] = "gone" => box'[c] = "gone") /\ (Exists(c)' => Exists(c))
    BY <1>0, <2>2 DEF BoxStates, Exists
  <2>4. TypeOK'
    BY <1>0, <2>2, <2>3 DEF TypeOK
  <2>5. Cur' = Cur
    BY <2>2 DEF Cur
  <2>6. OpInv'
    BY <1>0, <2>2 DEF OpInv
  <2>7. HomeInv'
    BY <1>0, <2>2, <2>3 DEF HomeInv
  <2>8. Cur # Null => Current(obj[Cur], box', row, op.pc, reg)
    <3> SUFFICES ASSUME Cur # Null PROVE Current(obj[Cur], box', row, op.pc, reg)
      OBVIOUS
    <3>1. Cur \in Objects
      BY <1>0 DEF Cur, Lockers
    <3>2. obj[Cur] \in LiveSessions /\ Current(obj[Cur], box, row, op.pc, reg)
      BY <1>0, <3>1 DEF LifeInv, ObjectInv
    <3> QED
      BY <2>3, <3>2, CurrentStays
  <2> QED
    BY <2>2, <2>3, <2>4, <2>5, <2>6, <2>7, <2>8, LockStep
<1>2. CASE Restart
  <2>1. /\ reg' = Null /\ held' = FALSE /\ op' = Idle /\ sweep' = Null /\ row' = row /\ box' = box
        /\ obj' = [o \in Objects |-> [Unused EXCEPT !.made = obj[o].made]]
    BY <1>2 DEF Restart
  <2>2. op.pc # "claim"
    <3>1. Reached("cut") # "none"
      BY DEF Reached
    <3> QED
      BY <1>2, <3>1 DEF Restart, Spawning
  <2>3. ASSUME NEW o \in Objects PROVE obj'[o] \in LiveSessions /\ Good(obj'[o]) /\ Stale(obj'[o], box')
    <3> DEFINE u == [Unused EXCEPT !.made = obj[o].made]
    <3>1. obj'[o] = u /\ obj[o].made \in BOOLEAN /\ 0 \in 0..RespawnLimit
      BY <1>0, <2>1 DEF LiveSessions
    <3>2. u \in LiveSessions /\ u.state = "DEAD" /\ u.wait = "off" /\ u.res = "off" /\ u.pau = "off" /\ u.crashes = 0
      BY <3>1 DEF Unused, LiveSessions, States
    <3> HIDE DEF u
    <3> QED
      BY <3>1, <3>2 DEF Good, Stale
  <2>4. obj' \in [Objects -> LiveSessions]
    BY <2>1, <2>3
  <2>5. TypeOK'
    BY <1>0, <2>1, <2>4 DEF TypeOK, Lockers, LiveSessions
  <2>6. Cur' = Null
    BY <2>1 DEF Cur
  <2>7. OpInv'
    BY <2>1 DEF OpInv
  <2>8. HomeInv'
    BY <1>0, <2>1, <2>2 DEF HomeInv, Exists
  <2> QED
    BY <2>3, <2>5, <2>6, <2>7, <2>8 DEF LifeInv, ObjectInv
<1> QED
  BY <1>1, <1>2

-----------------------------------------------------------------------------
(* The theorems *)

\* An unprotected step is never forgotten.
LEMMA GapStays == ASSUME [Next]_vars, gap' = "none" PROVE gap = "none"
<1>1. \A kind \in Gaps : Reached(kind) = "none" => gap = "none"
  BY DEF Reached, Gaps
<1>2. ASSUME UNCHANGED vars \/ gap' = gap \/ \E kind \in Gaps : gap' = Reached(kind) PROVE gap = "none"
  BY <1>1, <1>2 DEF vars
<1>3. ASSUME NEW gp, gp = gap \/ \E kind \in Gaps : gp = Reached(kind)
      PROVE  /\ \A b : Destroy(b, gp) => gap' = gap \/ \E kind \in Gaps : gap' = Reached(kind)
             /\ \A o, bx : CancelTasks(o, bx, gp) => gap' = gap \/ \E kind \in Gaps : gap' = Reached(kind)
  BY <1>3 DEF Destroy, CancelTasks, Stranded, Gaps
<1>4. SpawnRaised => gap' = gap \/ \E kind \in Gaps : gap' = Reached(kind)
  BY DEF SpawnRaised, Stranded, Gaps
<1>5. LockedNext => gap' = gap \/ \E kind \in Gaps : gap' = Reached(kind)
  <2>1. CASE KillDone
    <3>1. /\ GapAtKill(obj[op.obj]) = gap \/ \E kind \in Gaps : GapAtKill(obj[op.obj]) = Reached(kind)
          /\ \E kind \in Gaps : Reached("undestroyed") = Reached(kind)
      BY DEF GapAtKill, Gaps
    <3>2. \/ CancelTasks(op.obj, Boxed(op.box, "gone"), GapAtKill(obj[op.obj]))
          \/ CancelTasks(op.obj, box, Reached("undestroyed"))
      BY <2>1 DEF KillDone
    <3> QED
      BY <1>3, <3>1, <3>2
  <2>2. CASE SpawnFails \/ SpawnUndone \/ RowResumeFails
    BY <1>3, <1>4, <2>2 DEF SpawnFails, SpawnUndone, RowResumeFails
  <2>3. CASE ~ (KillDone \/ SpawnFails \/ SpawnUndone \/ RowResumeFails) /\ LockedNext
    BY <2>3 DEF LockedNext, Enter, EnterPaused, AttachResumed, Spawned, SpawnDone, RowResumed, RowDone, KillBegin,
                KillReleased
  <2> QED
    BY <2>1, <2>2, <2>3
<1>6. ASSUME NEW o \in Objects, ObjectNext(o) PROVE gap' = gap \/ \E kind \in Gaps : gap' = Reached(kind)
  <2>1. CASE PauseBegin(o)
    <3>1. CancelTasks(o, box, IF obj[o].res = "off" THEN gap ELSE Reached("overlap"))
      BY <2>1 DEF PauseBegin
    <3>2. "overlap" \in Gaps
      BY DEF Gaps
    <3> QED
      BY <1>3, <3>1, <3>2
  <2>2. CASE ResumeSpawnFails(o) \/ CrashSpawnFails(o)
    BY <1>4, <2>2 DEF ResumeSpawnFails, CrashSpawnFails
  <2>3. CASE PauseDone(o) \/ PauseFails(o) \/ ResumeBegin(o) \/ Resumed(o) \/ ResumeDone(o) \/ ResumeFails(o)
    BY <2>3 DEF PauseDone, PauseFails, ResumeBegin, Resumed, ResumeDone, ResumeFails, Gaps
  <2>4. CASE ResumeSpawned(o) \/ Exited(o) \/ NotOwner(o) \/ Crashed(o) \/ CrashSpawned(o)
    BY <2>4 DEF ResumeSpawned, Exited, NotOwner, Crashed, CrashSpawned, Gaps
  <2> QED
    BY <1>6, <2>1, <2>2, <2>3, <2>4 DEF ObjectNext
<1>7. SweepDone => gap' = gap \/ \E kind \in Gaps : gap' = Reached(kind)
  <2>1. SweepDone => Destroy(sweep, IF Returned THEN Reached("returned") ELSE gap)
    BY DEF SweepDone
  <2>2. "returned" \in Gaps
    BY DEF Gaps
  <2> QED
    BY <1>3, <2>1, <2>2
<1>8. SweepBegin \/ (\E b \in Boxes : RunnerCrash(b)) \/ Restart
        => gap' = gap \/ \E kind \in Gaps : gap' = Reached(kind)
  BY DEF SweepBegin, RunnerCrash, Restart, Gaps
<1> QED
  BY <1>2, <1>5, <1>6, <1>7, <1>8 DEF Next

LEMMA LifecycleStep == LifecycleInv /\ [Next]_vars => LifecycleInv'
<1> SUFFICES ASSUME LifecycleInv, [Next]_vars, gap' = "none" PROVE LifeInv'
  BY DEF LifecycleInv
<1>1. gap = "none" /\ LifeInv
  BY GapStays DEF LifecycleInv
<1>2. CASE LockedNext
  BY <1>1, <1>2, AttachSteps, SetupSteps, ClaimSteps, RowFailsStep, KillSteps DEF LockedNext
<1>3. ASSUME NEW o \in Objects, ObjectNext(o) PROVE LifeInv'
  BY <1>1, <1>3, PauseSteps, ResumeSteps, WaitSteps, ResumeSpawnFailsStep, NotOwnerStep DEF ObjectNext
<1>4. CASE SweepBegin \/ SweepDone
  BY <1>1, <1>4, SweepSteps
<1>5. CASE (\E b \in Boxes : RunnerCrash(b)) \/ Restart
  BY <1>1, <1>5, FaultSteps
<1>6. CASE UNCHANGED vars
  BY <1>1, <1>6 DEF vars, LifeInv, TypeOK, ObjectInv, OpInv, HomeInv, Cur, Exists
<1> QED
  BY <1>2, <1>3, <1>4, <1>5, <1>6 DEF Next

LEMMA LifecycleInit == Init => LifecycleInv
<1> SUFFICES ASSUME Init PROVE LifeInv
  BY DEF LifecycleInv
<1> USE Blank
<1> DEFINE u == Unused
<1>1. 0 \in 0..RespawnLimit
  OBVIOUS
<1>2. u \in LiveSessions /\ u.state = "DEAD" /\ u.wait = "off" /\ u.res = "off" /\ u.pau = "off" /\ u.crashes = 0
  BY <1>1 DEF Unused, LiveSessions, States
<1>3. obj = [o \in Objects |-> u]
  BY DEF Init
<1> HIDE DEF u
<1>4. TypeOK
  <2>1. obj \in [Objects -> LiveSessions]
    BY <1>2, <1>3
  <2>2. box \in [Boxes -> BoxStates]
    BY DEF Init, BoxStates
  <2> QED
    BY <2>1, <2>2, Types DEF Init
<1>5. Good(u) /\ Stale(u, box)
  BY <1>2 DEF Good, Stale
<1>6. Cur = Null
  BY DEF Init, Cur
<1>7. ObjectInv
  BY <1>3, <1>5, <1>6 DEF ObjectInv
<1>8. OpInv /\ HomeInv
  BY DEF Init, OpInv, HomeInv, Exists
<1> QED
  BY <1>4, <1>7, <1>8 DEF LifeInv

\* LifecycleInv holds in every behaviour.
THEOREM LifecycleInvariant == Spec => []LifecycleInv
BY LifecycleInit, LifecycleStep, PTL DEF Spec

\* As long as no unprotected step was taken the variables keep their types; in
\* particular a session crashes at most RespawnLimit times, whatever pauses,
\* resumes and restarts come in between.
THEOREM LifecycleTyped == Spec => [](gap = "none" => TypeOK)
<1>1. LifecycleInv => (gap = "none" => TypeOK)
  BY DEF LifecycleInv, LifeInv
<1> QED
  BY <1>1, LifecycleInvariant, PTL

\* Unless an unprotected step was taken, every sandbox that exists is named by
\* the row or is in the hands of the coroutine that is about to write the row.
THEOREM NothingOrphaned == Spec => []NoOrphan
<1>1. LifecycleInv => NoOrphan
  <2> SUFFICES ASSUME LifeInv, NEW b \in Boxes, Exists(b) PROVE Tracked(b)
    BY DEF LifecycleInv, NoOrphan, Orphaned
  <2>1. b = IF op.pc = "claim" THEN obj[op.obj].handle ELSE row.sandbox
    BY DEF LifeInv, HomeInv
  <2>2. op.pc = "claim" => op.obj # Null
    BY DEF LifeInv, OpInv
  <2> QED
    BY <2>1, <2>2 DEF Tracked
<1> QED
  BY <1>1, LifecycleInvariant, PTL

\* Unless an unprotected step was taken, no two runners work for the session.
THEOREM RunnersAlone == Spec => []OneRunner
<1>1. LifecycleInv => OneRunner
  <2> SUFFICES ASSUME LifeInv, NEW b \in Boxes, NEW c \in Boxes, box[b] = "running", box[c] = "running" PROVE b = c
    BY DEF LifecycleInv, OneRunner
  <2>1. Exists(b) /\ Exists(c)
    BY DEF Exists
  <2> QED
    BY <2>1 DEF LifeInv, HomeInv
<1> QED
  BY <1>1, LifecycleInvariant, PTL

\* Unless an unprotected step was taken, a registered ACTIVE session has its
\* handle.
THEOREM ActiveServed == Spec => []ActiveHasHandle
<1>1. LifecycleInv => ActiveHasHandle
  <2> SUFFICES ASSUME LifeInv, reg # Null, obj[reg].state = "ACTIVE" PROVE obj[reg].handle # Null
    BY DEF LifecycleInv, ActiveHasHandle
  <2>1. reg \in Objects
    BY Types DEF LifeInv
  <2> QED
    BY <2>1, Facts DEF Known, Good
<1> QED
  BY <1>1, LifecycleInvariant, PTL
=============================================================================
