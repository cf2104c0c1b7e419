-------------------------- MODULE AgentSweepProofs ---------------------------
(***************************************************************************)
(* Proofs about AgentSweep: a cron schedule is due exactly when it missed an *)
(* occurrence; no occurrence is claimed twice; sweeps do not overlap while   *)
(* each is waited for; the sidecar keeps the cadence across restarts.       *)
(***************************************************************************)
EXTENDS AgentSweep, TLAPS, FiniteSetTheorems, WellFoundedInduction

-----------------------------------------------------------------------------
(* Integers: largest elements, quotients and remainders *)

Below == {ss \in Nat \X Nat : ss[1] < ss[2]}

\* The order of the naturals, as a relation, is well founded.
LEMMA BelowWF == IsWellFoundedOn(Below, Nat)
<1>1. Below = OpToRel(<, Nat)
  BY DEF Below, OpToRel
<1> QED
  BY <1>1, NatLessThanWellFounded

\* A set of integers with an upper bound has a largest element.
LEMMA LargestElement ==
    ASSUME NEW S, S \subseteq Int, S # {}, NEW b \in Int, \A x \in S : x <= b
    PROVE  \E x \in S : \A y \in S : x >= y
<1> DEFINE T == {b - x : x \in S}
<1>0. \A x \in S : b - x \in Nat
  OBVIOUS
<1>1. T \subseteq Nat /\ T # {}
  BY <1>0
<1>2. PICK m \in T : \A y \in T : ~ (<<y, m>> \in Below)
  BY <1>1, BelowWF, WFMin
<1>3. ASSUME NEW y \in T PROVE m <= y
  <2>1. m \in Nat /\ y \in Nat /\ <<y, m>> \notin Below
    BY <1>1, <1>2
  <2>2. ~ (y < m)
    BY <2>1 DEF Below
  <2> QED
    BY <2>1, <2>2
<1>4. PICK x \in S : m = b - x
  OBVIOUS
<1>5. ASSUME NEW y \in S PROVE x >= y
  <2>1. m <= b - y
    BY <1>3
  <2> QED
    BY <1>4, <2>1
<1> QED
  BY <1>5

\* Max, of FiniteSetsExt, is that element.
LEMMA MaxIs ==
    ASSUME NEW S, S \subseteq Int, S # {}, NEW b \in Int, \A x \in S : x <= b
    PROVE  Max(S) \in S /\ \A y \in S : Max(S) >= y
BY LargestElement DEF Max

\* Products grow with a factor.
LEMMA TimesMono ==
    ASSUME NEW a \in Int, NEW b \in Int, NEW m \in Nat, a <= b
    PROVE  m * a <= m * b
OBVIOUS

\* Quotient and remainder.
LEMMA DivMod ==
    ASSUME NEW o \in Int, NEW d \in Nat \ {0}
    PROVE  /\ o \div d \in Int /\ o % d \in 0 .. d - 1
           /\ o = d * (o \div d) + (o % d)
OBVIOUS

\* ... order the numbers, the quotient first.
LEMMA DivOrder ==
    ASSUME NEW d \in Nat \ {0}, NEW q \in Int, NEW t \in 0 .. d - 1,
           NEW r \in Int, NEW u \in 0 .. d - 1, q < r
    PROVE  d * q + t < d * r + u
<1>1. d * (q + 1) <= d * r
  BY TimesMono
<1>2. d * (q + 1) = d * q + d
  OBVIOUS
<1> QED
  BY <1>1, <1>2

\* ... and are determined by the number.
LEMMA DivUnique ==
    ASSUME NEW d \in Nat \ {0}, NEW q \in Int, NEW t \in 0 .. d - 1
    PROVE  (d * q + t) \div d = q /\ (d * q + t) % d = t
<1> DEFINE o == d * q + t
           r == o \div d
           u == o % d
<1>1. o \in Int
  OBVIOUS
<1>2. r \in Int /\ u \in 0 .. d - 1 /\ o = d * r + u
  BY <1>1, DivMod
<1>3. ~ (q < r) /\ ~ (r < q)
  <2> HIDE DEF r, u
  <2>1. CASE q < r
    BY <2>1, <1>2, DivOrder
  <2>2. CASE r < q
    BY <2>2, <1>2, DivOrder
  <2> QED
    BY <2>1, <2>2
<1> QED
  <2>1. q = r
    BY <1>2, <1>3
  <2>2. t = u
    <3> HIDE DEF r, u
    <3> QED BY <1>2, <2>1
  <2> QED
    BY <2>1, <2>2

\* The quotient is monotonic.
LEMMA DivMono ==
    ASSUME NEW d \in Nat \ {0}, NEW a \in Int, NEW b \in Int, a <= b
    PROVE  a \div d <= b \div d
<1> DEFINE q == a \div d
           t == a % d
           r == b \div d
           u == b % d
<1>1. q \in Int /\ t \in 0 .. d - 1 /\ a = d * q + t
  BY DivMod
<1>2. r \in Int /\ u \in 0 .. d - 1 /\ b = d * r + u
  BY DivMod
<1> HIDE DEF q, t, r, u
<1>3. ~ (r < q)
  BY <1>1, <1>2, DivOrder
<1>4. q <= r
  BY <1>1, <1>2, <1>3
<1> QED
  BY <1>4 DEF q, r

-----------------------------------------------------------------------------
(* Cron schedules *)

\* A time of day is on a whole minute, on every day.
LEMMA OnMinute ==
    ASSUME NEW d \in Int, NEW t \in TimesOfDay
    PROVE  (Day * d + t) \in Int /\ (Day * d + t) % Minute = 0
<1> USE ScheduleAssumption
<1> DEFINE k == Day \div Minute
           j == t \div Minute
<1>1. k \in Int /\ Day = Minute * k
  BY DivMod
<1>2. t \in Int /\ j \in Int /\ t = Minute * j
  BY DivMod DEF TimesOfDay
<1> HIDE DEF k, j
<1>3. Day * d + t = Minute * (k * d + j)
  <2>1. Day * d = Minute * (k * d)
    BY <1>1
  <2>2. k * d \in Int
    BY <1>1
  <2>3. ASSUME NEW a \in Int PROVE Minute * a + Minute * j = Minute * (a + j)
    BY <1>2
  <2> QED
    BY <2>1, <2>2, <2>3, <1>2
<1>4. k * d + j \in Int
  BY <1>1, <1>2
<1>5. ASSUME NEW a \in Int PROVE (Minute * a) % Minute = 0
  <2>1. Minute * a + 0 = Minute * a /\ 0 \in 0 .. Minute - 1
    OBVIOUS
  <2> QED
    BY <2>1, DivUnique
<1>6. Day * d + t \in Int
  BY <1>2
<1> QED
  BY <1>3, <1>4, <1>5, <1>6

\* A whole minute up to now is one up to the current minute.
LEMMA MinuteFloor ==
    ASSUME NEW o \in Int, o % Minute = 0, NEW now \in Int, o <= now
    PROVE  o <= WholeMinute(now)
<1> USE ScheduleAssumption
<1> DEFINE a == o \div Minute
           b == now \div Minute
           r == now % Minute
<1>1. a \in Int /\ o = Minute * a
  BY DivMod
<1>2. b \in Int /\ r \in 0 .. Minute - 1 /\ now = Minute * b + r
  BY DivMod
<1>3. a <= b
  BY DivMono
<1>4. WholeMinute(now) = Minute * b
  <2>1. WholeMinute(now) = now - r
    BY DEF WholeMinute
  <2> HIDE DEF b, r
  <2> QED
    BY <1>2, <2>1
<1> HIDE DEF a, b, r
<1> QED
  BY <1>1, <1>2, <1>3, <1>4, TimesMono

\* The current minute has begun.
LEMMA MinuteBegun ==
    ASSUME NEW now \in Int
    PROVE  WholeMinute(now) \in Int /\ WholeMinute(now) <= now
<1>1. now % Minute \in 0 .. Minute - 1
  BY DivMod, ScheduleAssumption
<1>2. Minute \in Int
  BY ScheduleAssumption
<1> QED
  BY <1>1, <1>2 DEF WholeMinute

\* What FiresOn holds: the occurrences of the day up to now.
LEMMA FiresAre ==
    ASSUME NEW s, s.times \subseteq TimesOfDay, NEW d \in Int, NEW now \in Int
    PROVE  /\ FiresOn(s, d, now) \subseteq Int
           /\ \A o \in FiresOn(s, d, now) : o <= now /\ DayOf(o) = d /\ o % Day \in s.times
<1> SUFFICES ASSUME NEW o \in FiresOn(s, d, now)
             PROVE  o \in Int /\ o <= now /\ DayOf(o) = d /\ o % Day \in s.times
  OBVIOUS
<1>1. PICK t \in s.times : o = d * Day + t /\ o <= WholeMinute(now)
  BY DEF FiresOn
<1>2. t \in 0 .. Day - 1 /\ Day \in Nat \ {0}
  BY ScheduleAssumption DEF TimesOfDay
<1>3. o = Day * d + t /\ o \in Int
  BY <1>1, <1>2
<1>4. o \div Day = d /\ o % Day = t
  BY <1>2, <1>3, DivUnique
<1>5. o <= now
  BY <1>1, <1>3, MinuteBegun
<1> QED
  BY <1>1, <1>3, <1>4, <1>5 DEF DayOf

\* ... all of them.
LEMMA FiresAll ==
    ASSUME NEW s, s.times \subseteq TimesOfDay, NEW o \in Int, NEW now \in Int,
           o % Day \in s.times, o <= now
    PROVE  DayOf(o) \in Int /\ o \in FiresOn(s, DayOf(o), now)
<1> DEFINE d == o \div Day
           t == o % Day
<1>1. d \in Int /\ t \in TimesOfDay /\ o = Day * d + t
  BY DivMod, ScheduleAssumption
<1>2. o <= WholeMinute(now)
  <2>1. o % Minute = 0
    <3> HIDE DEF d, t
    <3> QED BY <1>1, OnMinute
  <2> QED
    BY <2>1, MinuteFloor
<1>3. o = d * Day + t
  <2> HIDE DEF d, t
  <2>1. Day \in Int
    BY ScheduleAssumption
  <2> QED
    BY <1>1, <2>1
<1> QED
  BY <1>1, <1>2, <1>3 DEF FiresOn, DayOf

\* A cron schedule that is due missed an occurrence.
LEMMA DueMissed ==
    ASSUME NEW s, s.kind = "cron", s.dates \subseteq Int, s.times \subseteq TimesOfDay,
           NEW last \in Int, NEW now \in Int, CronDue(s, last, now)
    PROVE  Missed(s, last, now)
<1> DEFINE days == {d \in DayOf(last) .. DayOf(now) : Matches(s, d, now)}
           D == Max(days)
           x == Max(FiresOn(s, D, now))
<1>0. DayOf(last) \in Int /\ DayOf(now) \in Int
  BY DivMod, ScheduleAssumption DEF DayOf
<1>1. days # {} /\ x > last
  BY DEF CronDue
<1>2. D \in days
  <2>1. days \subseteq Int /\ \A d \in days : d <= DayOf(now)
    BY <1>0
  <2> HIDE DEF days
  <2> QED
    BY <1>0, <1>1, <2>1, MaxIs
<1>3. D \in Int /\ D \in s.dates /\ FiresOn(s, D, now) # {}
  BY <1>0, <1>2 DEF Matches
<1> HIDE DEF D
<1>4. x \in FiresOn(s, D, now)
  BY <1>3, FiresAre, MaxIs
<1>5. x \in Int /\ x <= now /\ DayOf(x) \in s.dates /\ x % Day \in s.times
  BY <1>3, <1>4, FiresAre
<1> HIDE DEF x
<1>6. x \in (last + 1) .. now
  BY <1>1, <1>5
<1> QED
  BY <1>5, <1>6 DEF Missed, Occurs

\* One that missed an occurrence is due: the days after that of the occurrence
\* only hold later ones, and the walk reaches back to it.
LEMMA MissedDue ==
    ASSUME NEW s, s.kind = "cron", s.dates \subseteq Int, s.times \subseteq TimesOfDay,
           NEW last \in Int, NEW now \in Int, DayOf(now) - DayOf(last) < Walk,
           Missed(s, last, now)
    PROVE  CronDue(s, last, now)
<1> DEFINE days == {d \in DayOf(last) .. DayOf(now) : Matches(s, d, now)}
           D == Max(days)
           x == Max(FiresOn(s, D, now))
<1>0. DayOf(last) \in Int /\ DayOf(now) \in Int /\ Walk \in Int
  BY DivMod, ScheduleAssumption DEF DayOf
<1>1. PICK o \in Int : last < o /\ o <= now /\ DayOf(o) \in s.dates /\ o % Day \in s.times
  BY DEF Missed, Occurs
<1>2. DayOf(o) \in Int /\ o \in FiresOn(s, DayOf(o), now)
  BY <1>1, FiresAll
<1>3. DayOf(last) <= DayOf(o) /\ DayOf(o) <= DayOf(now)
  BY <1>1, DivMono, ScheduleAssumption DEF DayOf
<1>4. DayOf(o) \in days
  BY <1>0, <1>1, <1>2, <1>3 DEF Matches
<1>5. D \in days /\ DayOf(o) <= D
  <2>1. days \subseteq Int /\ (\A d \in days : d <= DayOf(now)) /\ days # {}
    BY <1>0, <1>4
  <2> HIDE DEF days
  <2>2. D \in days /\ \A d \in days : D >= d
    BY <1>0, <2>1, MaxIs
  <2> QED
    BY <1>2, <1>4, <2>1, <2>2
<1>6. D \in Int /\ FiresOn(s, D, now) # {}
  BY <1>0, <1>5 DEF Matches
<1>7. x > last
  <2> HIDE DEF D
  <2>1. x \in FiresOn(s, D, now) /\ \A y \in FiresOn(s, D, now) : x >= y
    BY <1>6, FiresAre, MaxIs
  <2>2. x \in Int /\ DayOf(x) = D
    BY <1>6, <2>1, FiresAre
  <2> HIDE DEF x
  <2>3. CASE DayOf(o) = D
    <3>1. x >= o
      BY <1>2, <2>1, <2>3
    <3> QED
      BY <1>1, <2>2, <3>1
  <2>4. CASE DayOf(o) < D
    <3>1. ~ (x <= o)
      <4>1. SUFFICES ASSUME x <= o PROVE FALSE
        OBVIOUS
      <4>2. DayOf(x) <= DayOf(o)
        BY <1>1, <2>2, <4>1, DivMono, ScheduleAssumption DEF DayOf
      <4> QED
        BY <1>2, <1>6, <2>2, <2>4, <4>2
    <3> QED
      BY <1>1, <2>2, <3>1
  <2> QED
    BY <1>2, <1>5, <1>6, <2>3, <2>4
<1>8. now > last
  BY <1>1
<1> QED
  BY <1>4, <1>7, <1>8 DEF CronDue

-----------------------------------------------------------------------------
(* Types: a sweep holds the listed rows it still has to look at *)

SidecarType ==
    /\ clock \in Instants
    /\ loop \in [pc: {"down", "sleep", "due", "stopping"}, now: Instants, seen: Times]
    /\ thread \in [pc: {"none", "call", "wait", "stamp", "persist", "release"}, stamp: Instants,
                   pass: Passes \cup {Never}]
    /\ last_run \in Times /\ disk \in Times /\ launched \in Times
    /\ faults \in 0 .. MaxFaults /\ gap \subseteq Gaps
    /\ thread.pc = "wait" => thread.pass \in Passes

RowRec == [schedule: Schedules, last_run_at: Times, last_job_id: Nat]
JobRec == [status: {"queued", "running", "ended"}, minute: Int]
PassRec == [pc: {"idle", "list", "next", "claim", "enqueue", "record"}, now: Instants,
            listed: [Rows -> RowRec \cup {Never}], todo: SUBSET Rows, row: Rows \cup {Never},
            prev: Nat, job: Nat]

\* The rows a sweep still has to look at are as they were listed, and so is the
\* one it is about to claim, whose last run the sweep's now does not precede.
PassHolds(q, js) ==
    /\ \A r \in q.todo : q.listed[r] \in RowRec /\ q.listed[r].last_job_id <= Len(js[r])
    /\ q.pc \in {"claim", "enqueue", "record"} =>
           q.row \in Rows /\ q.row \notin q.todo /\ q.prev <= Len(js[q.row]) /\ q.job <= Len(js[q.row])
    /\ q.pc \notin {"enqueue", "record"} => q.job = 0
    /\ q.pc = "claim" =>
           /\ q.listed[q.row] \in RowRec
           /\ q.listed[q.row].last_run_at = Never \/ q.listed[q.row].last_run_at <= q.now

DbType ==
    /\ row \in [Rows -> RowRec]
    /\ jobs \in [Rows -> Seq(JobRec)]
    /\ fired \in [Rows -> [Instants -> Nat]]
    /\ pass \in [Passes -> PassRec]
    /\ \A r \in Rows : row[r].last_job_id <= Len(jobs[r])
    /\ \A p \in Passes : PassHolds(pass[p], jobs)

SweepType == SidecarType /\ DbType

\* The types hold at the start.
LEMMA InitTyped == Init => SweepType
<1> SUFFICES ASSUME Init PROVE SweepType
  OBVIOUS
<1> USE SweepAssumption, ScheduleAssumption
<1>0. 0 \in Instants /\ Never \in Times
  BY DEF Instants, Times
<1>1. SidecarType
  BY <1>0 DEF Init, SidecarType, NoThread, Gaps
<1>2. row \in [Rows -> RowRec] /\ jobs \in [Rows -> Seq(JobRec)] /\ fired \in [Rows -> [Instants -> Nat]]
  BY <1>0 DEF Init, RowRec
<1>3. NoPass \in PassRec /\ NoPass.pc = "idle" /\ NoPass.todo = {} /\ NoPass.job = 0
  BY <1>0 DEF NoPass, PassRec
<1>4. pass \in [Passes -> PassRec] /\ \A p \in Passes : PassHolds(pass[p], jobs)
  BY <1>3 DEF Init, PassHolds
<1>5. \A r \in Rows : row[r].last_job_id <= Len(jobs[r])
  BY DEF Init
<1> QED
  BY <1>1, <1>2, <1>4, <1>5 DEF SweepType, DbType

\* A row that is due has not run after now.
LEMMA DueLater ==
    ASSUME NEW s, IsValid(s), NEW last \in Times, NEW now \in Instants, IsDue(s, last, now)
    PROVE  last = Never \/ last <= now
<1> USE SweepAssumption, ScheduleAssumption
<1> SUFFICES ASSUME last # Never PROVE last <= now
  OBVIOUS
<1>0. last \in Int /\ now \in Int /\ DayOf(now) \in Int /\ Day \in Int
  BY DivMod DEF Times, Instants, DayOf
<1>1. CASE s.kind = "every" /\ now - last >= s.n
  BY <1>0, <1>1 DEF IsValid
<1>2. CASE s.kind = "daily" /\ DailyDue(s, last, now)
  <2>1. PICK t \in s.times : now >= DayOf(now) * Day + t /\ last < DayOf(now) * Day + t
    BY <1>2 DEF DailyDue
  <2>2. t \in Int
    BY <1>2 DEF IsValid, TimesOfDay
  <2>3. DayOf(now) * Day + t \in Int
    BY <1>0, <2>2
  <2> QED
    BY <1>0, <2>1, <2>3
<1>3. CASE s.kind = "cron" /\ CronDue(s, last, now)
  BY <1>0, <1>3 DEF CronDue
<1> QED
  BY <1>1, <1>2, <1>3 DEF IsDue

\* The sidecar's part.
LEMMA SidecarTyped == SweepType /\ [Next]_vars => SidecarType'
<1> SUFFICES ASSUME SweepType, [Next]_vars PROVE SidecarType'
  OBVIOUS
<1> USE SweepAssumption, ScheduleAssumption
<1>0. SidecarType /\ 0 \in Instants /\ Never \in Times /\ NoThread.pc = "none" /\ Asleep.pc = "sleep"
      /\ NoThread \in [pc: {"none", "call", "wait", "stamp", "persist", "release"}, stamp: Instants,
                       pass: Passes \cup {Never}]
      /\ Asleep \in [pc: {"down", "sleep", "due", "stopping"}, now: Instants, seen: Times]
      /\ Down \in [pc: {"down", "sleep", "due", "stopping"}, now: Instants, seen: Times]
      /\ Instants \subseteq Times
  BY DEF SweepType, Instants, Times, NoThread, Asleep, Down
<1>a. UNCHANGED <<clock, scVars, history>> => SidecarType'
  BY <1>0 DEF SidecarType, scVars, history
<1>b. ASSUME NEW gs \in SUBSET Gaps, Fault(gs)
      PROVE  faults' \in 0 .. MaxFaults /\ gap' \subseteq Gaps /\ launched' = launched
  <2>1. faults \in 0 .. MaxFaults /\ gap \subseteq Gaps
    BY <1>0 DEF SidecarType
  <2> QED
    BY <1>b, <2>1 DEF Fault
<1>1. CASE UNCHANGED vars
  BY <1>1, <1>a DEF vars
<1>2. CASE Tick
  BY <1>0, <1>2 DEF Tick, SidecarType, scVars, history, Instants
<1>3. CASE Start
  BY <1>0, <1>3 DEF Start, SidecarType, history, Asleep
<1>4. CASE Wake
  BY <1>0, <1>4 DEF Wake, SidecarType, history
<1>5. CASE Submit
  <2>1. CASE thread.pc = "none"
    BY <1>0, <1>5, <2>1, ZenonT(40) DEF Submit, Launched, SidecarType, Gaps, NoThread
  <2>2. CASE thread.pc # "none"
    BY <1>0, <1>5, <2>2 DEF Submit, SidecarType
  <2> QED
    BY <2>1, <2>2
<1>6. ASSUME NEW p \in Passes, Send(p) PROVE SidecarType'
  BY <1>0, <1>6 DEF Send, SidecarType, history
<1>7. CASE Return
  BY <1>0, <1>7 DEF Return, SidecarType, history
<1>8. CASE CallFails
  BY <1>0, <1>8, <1>b DEF CallFails, SidecarType
<1>9. CASE TimeOut
  <2>1. {"loose"} \in SUBSET Gaps /\ Fault({"loose"})
    BY <1>9 DEF TimeOut, Gaps
  <2> QED
    BY <1>0, <1>9, <1>b, <2>1 DEF TimeOut, SidecarType
<1>10. CASE Stamp
  BY <1>0, <1>10 DEF Stamp, SidecarType, history, Instants
<1>11. CASE Persist
  BY <1>0, <1>11 DEF Persist, SidecarType, history
<1>12. CASE PersistFails
  <2>1. {"unsaved"} \in SUBSET Gaps /\ Fault({"unsaved"})
    BY <1>12 DEF PersistFails, Gaps
  <2> QED
    BY <1>0, <1>12, <1>b, <2>1 DEF PersistFails, SidecarType
<1>13. CASE Release
  BY <1>0, <1>13 DEF Release, SidecarType, history
<1>14. CASE Stop
  BY <1>0, <1>14, <1>b DEF Stop, SidecarType
<1>15. CASE Stopped
  BY <1>0, <1>15 DEF Stopped, SidecarType, history, NoThread
<1>16. CASE Kill
  <2> DEFINE gs == {g \in {"loose", "unsaved"} :
                 \/ g = "loose" /\ thread.pc = "wait" /\ pass[thread.pass].pc # "idle"
                 \/ g = "unsaved" /\ thread.pc \in {"call", "wait", "stamp", "persist"}}
  <2>1. gs \in SUBSET Gaps /\ Fault(gs)
    BY <1>16 DEF Kill, Gaps
  <2> HIDE DEF gs
  <2> QED
    BY <1>0, <1>16, <1>b, <2>1 DEF Kill, SidecarType
<1>17. ASSUME NEW p \in Passes, SweepNext(p) PROVE SidecarType'
  <2>1. CASE EnqueueFails(p) \/ RowFails(p)
    <3>1. /\ \E gs \in {{}, {"unrecorded"}} : Fault(gs)
          /\ UNCHANGED <<clock, loop, thread, last_run, disk>>
      BY <2>1 DEF EnqueueFails, RowFails, scVars
    <3>2. \A gs \in {{}, {"unrecorded"}} : gs \in SUBSET Gaps
      BY DEF Gaps
    <3> QED
      BY <1>0, <1>b, <3>1, <3>2 DEF SidecarType
  <2>2. CASE Crash(p)
    <3>1. {"loose"} \in SUBSET Gaps /\ Fault({"loose"})
      BY <2>2 DEF Crash, Gaps
    <3> QED
      BY <1>0, <1>b, <2>2, <3>1 DEF Crash, SidecarType, scVars
  <2> QED
    BY <1>17, <1>a, <2>1, <2>2 DEF SweepNext, List, EndPass, Evaluate, Claim, Enqueue, Record
<1>18. ASSUME NEW r \in Rows, JobMoves(r) PROVE SidecarType'
  BY <1>18, <1>a DEF JobMoves
<1> QED
  BY <1>1, <1>2, <1>3, <1>4, <1>5, <1>6, <1>7, <1>8, <1>9, <1>10, <1>11, <1>12, <1>13, <1>14,
     <1>15, <1>16, <1>17, <1>18 DEF Next, SidecarNext

\* A sweep that changes alone keeps the types of the database.
LEMMA PassStep ==
    ASSUME DbType, NEW p \in Passes, NEW q \in PassRec,
           pass' = [pass EXCEPT ![p] = q], PassHolds(q, jobs), UNCHANGED dbVars
    PROVE  DbType'
<1>1. pass' \in [Passes -> PassRec]
  BY DEF DbType
<1>2. ASSUME NEW k \in Passes PROVE PassHolds(pass'[k], jobs)
  BY DEF DbType
<1>3. \A k \in Passes : PassHolds(pass'[k], jobs')
  BY <1>2 DEF dbVars
<1>4. UNCHANGED <<row, jobs, fired>>
  BY DEF dbVars
<1> HIDE DEF PassHolds
<1> QED
  BY <1>1, <1>3, <1>4 DEF DbType

\* What a sweep holds stays true as jobs are added.
LEMMA PassKept ==
    ASSUME NEW q \in PassRec, NEW js, NEW js1, PassHolds(q, js),
           \A r \in Rows : Len(js[r]) \in Nat /\ Len(js1[r]) \in Nat /\ Len(js[r]) <= Len(js1[r])
    PROVE  PassHolds(q, js1)
<1>1. ASSUME NEW r \in q.todo PROVE q.listed[r] \in RowRec /\ q.listed[r].last_job_id <= Len(js1[r])
  <2>1. r \in Rows /\ q.listed[r] \in RowRec /\ q.listed[r].last_job_id <= Len(js[r])
    BY DEF PassHolds, PassRec
  <2>2. q.listed[r].last_job_id \in Nat
    BY <2>1 DEF RowRec
  <2> QED
    BY <2>1, <2>2
<1>2. q.prev \in Nat /\ q.job \in Nat
  BY DEF PassRec
<1>3. ASSUME q.pc \in {"claim", "enqueue", "record"}
      PROVE  q.row \in Rows /\ q.row \notin q.todo /\ q.prev <= Len(js1[q.row]) /\ q.job <= Len(js1[q.row])
  <2>1. q.row \in Rows /\ q.row \notin q.todo /\ q.prev <= Len(js[q.row]) /\ q.job <= Len(js[q.row])
    BY <1>3 DEF PassHolds
  <2> QED
    BY <1>2, <2>1
<1> QED
  BY <1>1, <1>3 DEF PassHolds

\* The database's part.
LEMMA DbTyped == SweepType /\ [Next]_vars => DbType'
<1> SUFFICES ASSUME SweepType, [Next]_vars PROVE DbType'
  OBVIOUS
<1> USE SweepAssumption, ScheduleAssumption
<1>0. DbType /\ 0 \in Instants /\ clock \in Instants
      /\ NoPass \in PassRec /\ NoPass.pc = "idle" /\ NoPass.todo = {} /\ NoPass.job = 0
  BY DEF SweepType, SidecarType, Instants, NoPass, PassRec
<1>a. UNCHANGED <<pass, dbVars>> => DbType'
  BY <1>0 DEF DbType, dbVars
<1>b. ASSUME NEW p \in Passes, pass' = [pass EXCEPT ![p] = NoPass], UNCHANGED dbVars PROVE DbType'
  <2>1. PassHolds(NoPass, jobs)
    BY <1>0 DEF PassHolds
  <2> QED
    BY <1>0, <1>b, <2>1, PassStep
<1>c. ASSUME NEW p \in Passes PROVE pass[p] \in PassRec /\ PassHolds(pass[p], jobs)
  BY <1>0 DEF DbType
<1>d. ASSUME NEW p \in Passes, pass[p].pc \in {"claim", "enqueue", "record"}
      PROVE  Onward(pass[p]) \in PassRec /\ PassHolds(Onward(pass[p]), jobs)
  <2> DEFINE q == pass[p]
             x == Onward(q)
  <2>1. q \in PassRec /\ PassHolds(q, jobs) /\ q.row \notin q.todo
    BY <1>c, <1>d DEF PassHolds
  <2>2. x \in PassRec /\ x.pc = "next" /\ x.todo = q.todo /\ x.job = 0
        /\ \A k \in q.todo : x.listed[k] = q.listed[k]
    BY <2>1 DEF Onward, PassRec
  <2> HIDE DEF x
  <2>3. PassHolds(x, jobs)
    BY <2>1, <2>2 DEF PassHolds
  <2> QED
    BY <2>2, <2>3 DEF x
<1>1. CASE UNCHANGED vars
  BY <1>1, <1>a DEF vars
<1>2. CASE Tick
  BY <1>2, <1>a DEF Tick
<1>3. CASE SidecarNext
  <2>1. ASSUME NEW p \in Passes, Send(p) PROVE DbType'
    <3> DEFINE q == [NoPass EXCEPT !.pc = "list", !.now = clock]
    <3>1. q \in PassRec /\ PassHolds(q, jobs)
      BY <1>0 DEF PassRec, PassHolds, NoPass
    <3>2. pass' = [pass EXCEPT ![p] = q] /\ UNCHANGED dbVars
      BY <2>1 DEF Send
    <3> HIDE DEF q
    <3> QED
      BY <1>0, <3>1, <3>2, PassStep
  <2> QED
    BY <1>3, <1>a, <2>1 DEF SidecarNext, Start, Wake, Submit, Return, CallFails, TimeOut, Stamp,
       Persist, PersistFails, Release, Stop, Stopped, Kill
<1>4. ASSUME NEW p \in Passes, List(p) PROVE DbType'
  <2> DEFINE q == [pass[p] EXCEPT !.pc = "next", !.todo = Rows, !.listed = row]
  <2>1. row \in [Rows -> RowRec] /\ \A r \in Rows : row[r].last_job_id <= Len(jobs[r])
    BY <1>0 DEF DbType
  <2>2. q \in PassRec /\ q.pc = "next" /\ q.todo = Rows /\ q.listed = row
        /\ q.job = 0
    BY <1>4, <1>c, <2>1, ZenonT(30) DEF PassRec, PassHolds, List
  <2>3. pass' = [pass EXCEPT ![p] = q] /\ UNCHANGED dbVars
    BY <1>4 DEF List
  <2> HIDE DEF q
  <2>4. PassHolds(q, jobs)
    BY <2>1, <2>2 DEF PassHolds
  <2> QED
    BY <1>0, <2>2, <2>3, <2>4, PassStep
<1>5. ASSUME NEW p \in Passes, EndPass(p) PROVE DbType'
  BY <1>5, <1>b DEF EndPass
<1>6. ASSUME NEW p \in Passes, Crash(p) PROVE DbType'
  BY <1>6, <1>b DEF Crash
<1>7. ASSUME NEW p \in Passes, NEW r \in Rows, Evaluate(p, r) PROVE DbType'
  <2> DEFINE o == pass[p]
             seen == o.listed[r]
             queued == seen.last_job_id # 0 /\ jobs[r][seen.last_job_id].status = "queued"
             x == [o EXCEPT !.todo = o.todo \ {r}, !.pc = "claim", !.row = r,
                            !.prev = IF queued THEN seen.last_job_id ELSE 0]
             y == [o EXCEPT !.todo = o.todo \ {r}, !.listed[r] = Never]
  <2>1. o \in PassRec /\ PassHolds(o, jobs) /\ o.pc = "next" /\ r \in o.todo
    BY <1>7, <1>c DEF Evaluate
  <2>2. seen \in RowRec /\ seen.last_job_id <= Len(jobs[r]) /\ seen.last_job_id \in Nat
        /\ seen.schedule \in Schedules /\ seen.last_run_at \in Times /\ o.now \in Instants
    BY <2>1 DEF PassHolds, RowRec, PassRec
  <2>3. UNCHANGED dbVars
        /\ pass' = [pass EXCEPT ![p] = IF IsDue(seen.schedule, seen.last_run_at, o.now) THEN x ELSE y]
    BY <1>0, <1>7 DEF Evaluate, DbType
  <2>4. CASE IsDue(seen.schedule, seen.last_run_at, o.now)
    <3>1. pass' = [pass EXCEPT ![p] = x]
      <4> HIDE DEF x, y, seen, o
      <4> QED BY <2>3, <2>4
    <3>2. x \in PassRec /\ x.pc = "claim" /\ x.row = r /\ x.todo = o.todo \ {r}
          /\ x.listed = o.listed /\ x.now = o.now /\ x.job = 0
          /\ x.prev \in {0, seen.last_job_id}
      <4>1. (IF queued THEN seen.last_job_id ELSE 0) \in Nat
        BY <2>2
      <4> HIDE DEF queued, seen
      <4> QED
        BY <2>1, <4>1 DEF PassRec, PassHolds
    <3>3. seen.last_run_at = Never \/ seen.last_run_at <= o.now
      BY <2>2, <2>4, DueLater
    <3>4. x.prev <= Len(jobs[r]) /\ Len(jobs[r]) \in Nat
      BY <1>0, <2>2, <3>2 DEF DbType
    <3>5. x.job <= Len(jobs[r])
      BY <3>2, <3>4
    <3>6. PassHolds(x, jobs)
      <4> HIDE DEF x
      <4> QED
        BY <2>1, <2>2, <3>2, <3>3, <3>4, <3>5 DEF PassHolds
    <3> HIDE DEF x
    <3> QED
      BY <1>0, <2>3, <3>1, <3>2, <3>6, PassStep
  <2>5. CASE ~ IsDue(seen.schedule, seen.last_run_at, o.now)
    <3>1. pass' = [pass EXCEPT ![p] = y]
      <4> HIDE DEF x, y, seen, o
      <4> QED BY <2>3, <2>5
    <3>2. y \in PassRec /\ y.pc = "next" /\ y.todo = o.todo \ {r} /\ y.job = 0
          /\ \A k \in o.todo \ {r} : y.listed[k] = o.listed[k]
      BY <2>1 DEF PassRec, PassHolds
    <3>3. PassHolds(y, jobs)
      <4> HIDE DEF y
      <4> QED
        BY <2>1, <3>2 DEF PassHolds
    <3> HIDE DEF y
    <3> QED
      BY <1>0, <2>3, <3>1, <3>2, <3>3, PassStep
  <2> QED
    BY <2>4, <2>5
<1>8. ASSUME NEW p \in Passes, Claim(p) PROVE DbType'
  <2> DEFINE q == pass[p]
             r == q.row
  <2>1. q \in PassRec /\ PassHolds(q, jobs) /\ q.pc = "claim"
    BY <1>8, <1>c DEF Claim
  <2>2. r \in Rows /\ r \notin q.todo /\ q.now \in Instants /\ q.prev \in Nat /\ q.job = 0
        /\ q.prev <= Len(jobs[r])
    BY <2>1 DEF PassHolds, PassRec
  <2>3. jobs' = jobs
    BY <1>8 DEF Claim
  <2>4. CASE row[r].last_run_at = q.listed[r].last_run_at
    <3> DEFINE x == [q EXCEPT !.pc = IF q.prev = 0 THEN "enqueue" ELSE "record", !.job = q.prev,
                              !.listed[r] = Never]
    <3>1. Claimed(p, r)
      BY <1>8, <2>4 DEF Claim
    <3>2. pass' = [pass EXCEPT ![p] = x]
      BY <1>0, <3>1 DEF Claimed, DbType, PassRec
    <3>3. row' \in [Rows -> RowRec] /\ \A k \in Rows : row'[k].last_job_id = row[k].last_job_id
      <4>1. row' = [row EXCEPT ![r].last_run_at = q.now] /\ row \in [Rows -> RowRec]
        BY <1>0, <3>1 DEF Claimed, DbType
      <4> HIDE DEF q, r
      <4> QED
        BY <2>2, <4>1 DEF RowRec, Times
    <3>4. fired' \in [Rows -> [Instants -> Nat]]
      <4> DEFINE new == [o \in Instants |->
                   IF (q.listed[r].last_run_at = Never \/ q.listed[r].last_run_at < o) /\ o <= q.now
                   THEN fired[r][o] + 1 ELSE fired[r][o]]
      <4>1. fired' = [fired EXCEPT ![r] = new] /\ fired \in [Rows -> [Instants -> Nat]]
        BY <1>0, <3>1 DEF Claimed, Fires, DbType
      <4>2. new \in [Instants -> Nat]
        BY <2>2, <4>1
      <4> HIDE DEF new
      <4> QED
        BY <4>1, <4>2
    <3>5. x \in PassRec /\ x.pc \in {"enqueue", "record"} /\ x.row = r /\ x.todo = q.todo
          /\ x.prev = q.prev /\ x.job = q.prev /\ (\A k \in x.todo : x.listed[k] = q.listed[k])
      BY <2>1, <2>2 DEF PassRec
    <3>6. PassHolds(x, jobs)
      <4> HIDE DEF x
      <4> QED
        BY <2>1, <2>2, <3>5 DEF PassHolds
    <3> HIDE DEF x, q
    <3>7. pass' \in [Passes -> PassRec] /\ \A k \in Passes : PassHolds(pass'[k], jobs')
      BY <1>0, <2>3, <3>2, <3>5, <3>6 DEF DbType
    <3> QED
      BY <1>0, <2>3, <3>3, <3>4, <3>7 DEF DbType
  <2>5. CASE row[r].last_run_at # q.listed[r].last_run_at
    <3>1. pass' = [pass EXCEPT ![p] = Onward(q)] /\ UNCHANGED dbVars
      BY <1>8, <2>5 DEF Claim, dbVars
    <3> QED
      BY <1>0, <1>8, <1>d, <3>1, PassStep DEF Claim
  <2> QED
    BY <2>4, <2>5
<1>9. ASSUME NEW p \in Passes, Enqueue(p) \/ EnqueueFails(p) PROVE DbType'
  <2> DEFINE q == pass[p]
             r == q.row
             m == q.now \div Minute
  <2>1. q \in PassRec /\ PassHolds(q, jobs) /\ q.pc = "enqueue"
    BY <1>9, <1>c DEF Enqueue, EnqueueFails
  <2>2. r \in Rows /\ r \notin q.todo /\ q.prev \in Nat /\ m \in Int
        /\ q.prev <= Len(jobs[r])
    <3>1. q.now \in Int
      BY <2>1 DEF PassRec, Instants
    <3>2. m \in Int
      BY <3>1, DivMod
    <3> QED
      BY <2>1, <3>2 DEF PassHolds, PassRec
  <2>3. jobs \in [Rows -> Seq(JobRec)] /\ UNCHANGED <<row, fired>>
    BY <1>0, <1>9 DEF DbType, Enqueue, EnqueueFails
  <2>4. ASSUME NEW j \in Nat, NEW js, j <= Len(js[r]), js \in [Rows -> Seq(JobRec)],
               \A k \in Rows : Len(jobs[k]) <= Len(js[k]), jobs' = js,
               pass' = [pass EXCEPT ![p] = [q EXCEPT !.pc = "record", !.job = j]]
        PROVE  DbType'
    <3> DEFINE x == [q EXCEPT !.pc = "record", !.job = j]
    <3>1. \A k \in Rows : Len(jobs[k]) \in Nat /\ Len(js[k]) \in Nat
      BY <2>3, <2>4
    <3>2. x \in PassRec /\ x.pc = "record" /\ x.row = r /\ x.todo = q.todo
          /\ x.prev = q.prev /\ x.job = j /\ x.listed = q.listed
      BY <2>1, <2>4 DEF PassRec
    <3>3. PassHolds(q, js)
      BY <2>1, <2>4, <3>1, PassKept
    <3>4. PassHolds(x, js)
      <4> HIDE DEF x
      <4> QED
        BY <2>1, <2>4, <3>2, <3>3 DEF PassHolds
    <3> HIDE DEF x
    <3>5. pass' \in [Passes -> PassRec]
      BY <1>0, <2>4, <3>2 DEF DbType, x
    <3>6. ASSUME NEW k \in Passes PROVE PassHolds(pass'[k], js)
      <4>1. CASE k = p
        BY <1>0, <2>4, <3>4, <4>1 DEF DbType, x
      <4>2. CASE k # p
        <5>1. pass'[k] = pass[k] /\ pass[k] \in PassRec /\ PassHolds(pass[k], jobs)
          BY <1>0, <2>4, <4>2 DEF DbType
        <5> QED
          BY <2>4, <3>1, <5>1, PassKept
      <4> QED
        BY <4>1, <4>2
    <3>7. \A k \in Rows : row'[k].last_job_id <= Len(jobs'[k])
      <4>1. \A k \in Rows : row[k].last_job_id <= Len(jobs[k]) /\ row[k].last_job_id \in Nat
        BY <1>0 DEF DbType, RowRec
      <4> QED
        BY <2>3, <2>4, <3>1, <4>1
    <3> QED
      BY <1>0, <2>3, <2>4, <3>5, <3>6, <3>7 DEF DbType
  <2>5. CASE Enqueue(p) /\ Keyed(r, m) # {}
    <3> DEFINE j == Max(Keyed(r, m))
    <3>1. pass' = [pass EXCEPT ![p].pc = "record", ![p].job = j] /\ jobs' = jobs
      BY <2>5 DEF Enqueue
    <3>2. jobs[r] \in Seq(JobRec) /\ Len(jobs[r]) \in Nat
          /\ Keyed(r, m) \subseteq 1 .. Len(jobs[r])
      BY <2>2, <2>3 DEF Keyed
    <3>3. j \in 1 .. Len(jobs[r])
      <4>1. Keyed(r, m) \subseteq Int /\ (\A i \in Keyed(r, m) : i <= Len(jobs[r])) /\ Len(jobs[r]) \in Int
        BY <3>2
      <4> HIDE DEF m
      <4>2. j \in Keyed(r, m)
        BY <2>5, <4>1, MaxIs
      <4> QED
        BY <3>2, <4>2
    <3> HIDE DEF j
    <3>4. pass' = [pass EXCEPT ![p] = [q EXCEPT !.pc = "record", !.job = j]]
      BY <1>0, <3>1 DEF DbType, PassRec
    <3>5. \A k \in Rows : Len(jobs[k]) <= Len(jobs[k])
      BY <2>3
    <3> QED
      <4>1. j \in Nat /\ j <= Len(jobs[r])
        BY <3>2, <3>3
      <4> QED
        BY <2>3, <2>4, <3>1, <3>4, <3>5, <4>1
  <2>6. ASSUME NEW j \in {0, Len(jobs[r]) + 1}, Inserted(r, m),
               pass' = [pass EXCEPT ![p].pc = "record", ![p].job = j]
        PROVE  DbType'
    <3> DEFINE js == [jobs EXCEPT ![r] = Append(@, [status |-> "queued", minute |-> m])]
    <3>1. pass' = [pass EXCEPT ![p].pc = "record", ![p].job = j] /\ jobs' = js
      BY <2>6 DEF Inserted
    <3>2. [status |-> "queued", minute |-> m] \in JobRec
      BY <2>2 DEF JobRec
    <3>3. js \in [Rows -> Seq(JobRec)] /\ Len(js[r]) = Len(jobs[r]) + 1 /\ Len(jobs[r]) \in Nat
          /\ \A k \in Rows : k # r => js[k] = jobs[k]
      <4> HIDE DEF m, q, r
      <4> QED
        BY <2>2, <2>3, <3>2
    <3>4. \A k \in Rows : Len(jobs[k]) <= Len(js[k])
      <4>1. \A k \in Rows : Len(jobs[k]) \in Nat
        BY <2>3
      <4> HIDE DEF js
      <4> QED
        BY <3>3, <4>1
    <3>5. j \in Nat /\ j <= Len(js[r])
      BY <2>6, <3>3
    <3> HIDE DEF js
    <3>6. pass' = [pass EXCEPT ![p] = [q EXCEPT !.pc = "record", !.job = j]]
      BY <1>0, <3>1 DEF DbType, PassRec
    <3> QED
      BY <2>4, <3>1, <3>3, <3>4, <3>5, <3>6
  <2>7. CASE EnqueueFails(p) /\ UNCHANGED jobs
    <3>1. pass' = [pass EXCEPT ![p] = [q EXCEPT !.pc = "record", !.job = 0]] /\ jobs' = jobs
      BY <1>0, <2>7 DEF EnqueueFails, DbType, PassRec
    <3> DEFINE j == 0
    <3>2. (\A k \in Rows : Len(jobs[k]) <= Len(jobs[k])) /\ Len(jobs[r]) \in Nat
      BY <2>2, <2>3
    <3>3. j \in Nat /\ j <= Len(jobs[r]) /\ pass' = [pass EXCEPT ![p] = [q EXCEPT !.pc = "record", !.job = j]]
      BY <3>1, <3>2
    <3> HIDE DEF j
    <3> QED
      BY <2>3, <2>4, <3>1, <3>2, <3>3
  <2>8. CASE Enqueue(p) /\ Keyed(r, m) = {}
    <3>1. Inserted(r, m) /\ pass' = [pass EXCEPT ![p].pc = "record", ![p].job = Len(jobs[r]) + 1]
      BY <2>8 DEF Enqueue
    <3> DEFINE j == Len(jobs[r]) + 1
    <3>2. j \in {0, Len(jobs[r]) + 1} /\ pass' = [pass EXCEPT ![p].pc = "record", ![p].job = j]
      BY <3>1
    <3> HIDE DEF j
    <3> QED
      BY <2>6, <3>1, <3>2
  <2>9. CASE EnqueueFails(p) /\ ~ UNCHANGED jobs
    <3>1. Inserted(r, m) /\ pass' = [pass EXCEPT ![p].pc = "record", ![p].job = 0]
      BY <2>9 DEF EnqueueFails
    <3> QED
      BY <2>6, <3>1
  <2> QED
    BY <1>9, <2>5, <2>7, <2>8, <2>9
<1>10. ASSUME NEW p \in Passes, RowFails(p) PROVE DbType'
  <2>1. pass[p].pc \in {"claim", "enqueue", "record"} /\ UNCHANGED dbVars
        /\ pass' = [pass EXCEPT ![p] = Onward(pass[p])]
    BY <1>10 DEF RowFails
  <2> QED
    BY <1>0, <1>c, <1>d, <2>1, PassStep
<1>11. ASSUME NEW p \in Passes, Record(p) PROVE DbType'
  <2> DEFINE q == pass[p]
  <2>1. q \in PassRec /\ PassHolds(q, jobs) /\ q.pc = "record"
    BY <1>11, <1>c DEF Record
  <2>2. q.row \in Rows /\ q.job \in Nat /\ q.job <= Len(jobs[q.row])
    BY <2>1 DEF PassHolds, PassRec
  <2>3. row' = [row EXCEPT ![q.row].last_job_id = q.job] /\ UNCHANGED <<jobs, fired>>
        /\ pass' = [pass EXCEPT ![p] = Onward(q)]
    BY <1>11 DEF Record
  <2>4. Onward(q) \in PassRec /\ PassHolds(Onward(q), jobs)
    BY <1>d, <2>1
  <2> HIDE DEF q
  <2>5. row' \in [Rows -> RowRec] /\ \A k \in Rows : row'[k].last_job_id <= Len(jobs[k])
    BY <1>0, <2>2, <2>3 DEF DbType, RowRec
  <2>6. pass' \in [Passes -> PassRec] /\ \A k \in Passes : PassHolds(pass'[k], jobs)
    BY <1>0, <2>3, <2>4 DEF DbType
  <2> QED
    BY <1>0, <2>3, <2>5, <2>6 DEF DbType
<1>12. ASSUME NEW r \in Rows, JobMoves(r) PROVE DbType'
  <2>1. UNCHANGED <<pass, row, fired>>
    BY <1>12 DEF JobMoves
  <2>2. jobs' \in [Rows -> Seq(JobRec)] /\ \A k \in Rows : Len(jobs'[k]) = Len(jobs[k])
    <3>1. jobs \in [Rows -> Seq(JobRec)] /\ jobs[r] \in Seq(JobRec)
      BY <1>0 DEF DbType
    <3>2. PICK i \in DOMAIN jobs[r] :
             \/ jobs' = [jobs EXCEPT ![r][i].status = "running"]
             \/ jobs' = [jobs EXCEPT ![r][i] = [status |-> "ended", minute |-> 0]]
      BY <1>12 DEF JobMoves
    <3>3. PICK j \in JobRec : jobs' = [jobs EXCEPT ![r] = [jobs[r] EXCEPT ![i] = j]]
      <4>1. [status |-> "ended", minute |-> 0] \in JobRec
        BY DEF JobRec
      <4>2. [jobs[r][i] EXCEPT !.status = "running"] \in JobRec
        <5>1. jobs[r][i] \in JobRec
          BY <3>1, <3>2
        <5> QED
          BY <5>1 DEF JobRec
      <4> QED
        BY <3>1, <3>2, <4>1, <4>2
    <3>4. [jobs[r] EXCEPT ![i] = j] \in Seq(JobRec) /\ Len([jobs[r] EXCEPT ![i] = j]) = Len(jobs[r])
      BY <3>1
    <3> QED
      BY <3>1, <3>3, <3>4
  <2>3. \A k \in Rows : Len(jobs[k]) \in Nat /\ Len(jobs'[k]) \in Nat /\ Len(jobs[k]) <= Len(jobs'[k])
    BY <1>0, <2>2 DEF DbType
  <2>4. ASSUME NEW p \in Passes PROVE PassHolds(pass[p], jobs')
    BY <1>c, <2>3, PassKept
  <2> QED
    BY <1>0, <2>1, <2>2, <2>4 DEF DbType
<1> QED
  BY <1>1, <1>2, <1>3, <1>4, <1>5, <1>6, <1>7, <1>8, <1>9, <1>10, <1>11, <1>12 DEF Next, SweepNext

\* The inductive types hold in every reachable state.
LEMMA SweepTypeKept == Spec => []SweepType
<1>1. SweepType /\ [Next]_vars => SweepType'
  BY SidecarTyped, DbTyped DEF SweepType
<1> QED
  BY InitTyped, <1>1, PTL DEF Spec

\* The variables keep their types: in particular a row names only jobs that
\* were enqueued for it (agent_schedules.last_job_id).
THEOREM SweepTyped == Spec => []TypeOK
<1>1. SweepType => TypeOK
  <2> SUFFICES ASSUME SweepType PROVE TypeOK
    OBVIOUS
  <2>1. SidecarType /\ DbType
    BY DEF SweepType
  <2>2. ASSUME NEW r \in Rows
        PROVE  /\ row[r].schedule \in Schedules /\ row[r].last_run_at \in Times
               /\ row[r].last_job_id \in 0 .. Len(jobs[r])
    <3>1. row[r] \in RowRec /\ row[r].last_job_id <= Len(jobs[r]) /\ Len(jobs[r]) \in Nat
      BY <2>1 DEF DbType
    <3> QED
      BY <3>1 DEF RowRec
  <2> QED
    BY <2>1, <2>2 DEF TypeOK, SidecarType
<1> QED
  BY SweepTypeKept, <1>1, PTL

\* A cron schedule is due exactly when a fire time lies between its last run
\* and now, for every schedule the parsers accept, as long as the walk of
\* _is_cron_due (8 * 366 days) spans the time the system runs.
THEOREM CronCaughtUp ==
    ASSUME Horizon < Day * Walk
    PROVE  Spec => []CronCatchesUp
<1>1. SweepType => CronCatchesUp
  <2> SUFFICES ASSUME SweepType, NEW r \in Rows,
                      row[r].schedule.kind = "cron", row[r].last_run_at # Never
               PROVE  IsDue(row[r].schedule, row[r].last_run_at, clock)
                      <=> Missed(row[r].schedule, row[r].last_run_at, clock)
    BY DEF CronCatchesUp
  <2> DEFINE s == row[r].schedule
             last == row[r].last_run_at
  <2>1. s \in Schedules /\ last \in Times /\ clock \in Instants
    BY DEF SweepType, SidecarType, DbType, RowRec
  <2>2. last \in Int /\ clock \in Int /\ 0 <= last /\ clock < Day * Walk
        /\ Day \in Nat \ {0} /\ Walk \in Nat \ {0} /\ 0 <= clock
    BY <2>1, SweepAssumption, ScheduleAssumption DEF Times, Instants
  <2>3. s.dates \subseteq Int /\ s.times \subseteq TimesOfDay
    BY <2>1, SweepAssumption DEF IsValid
  <2> HIDE DEF s, last
  <2>4. DayOf(clock) - DayOf(last) < Walk
    <3> DEFINE q == clock \div Day
               u == clock % Day
               k == last \div Day
    <3>1. q \in Int /\ u \in 0 .. Day - 1 /\ clock = Day * q + u /\ k \in Int
      BY <2>2, DivMod
    <3>2. 0 <= k
      <4>1. Day * 0 + 0 = 0 /\ 0 \in 0 .. Day - 1
        BY <2>2
      <4>2. 0 \div Day = 0
        BY <2>2, <4>1, DivUnique
      <4>3. 0 \div Day <= k
        BY <2>2, DivMono
      <4> QED
        BY <4>2, <4>3
    <3> HIDE DEF q, u, k
    <3>3. q < Walk
      <4>1. ASSUME Walk <= q PROVE Day * Walk <= Day * q
        BY <2>2, <3>1, <4>1, TimesMono
      <4>2. Day * Walk \in Int /\ Day * q \in Int
        BY <2>2, <3>1
      <4> QED
        BY <2>2, <3>1, <4>1, <4>2
    <3>4. q - k < Walk
      BY <2>2, <3>1, <3>2, <3>3
    <3> QED
      BY <3>4 DEF DayOf, q, k
  <2>5. IsDue(s, last, clock) <=> CronDue(s, last, clock)
    BY DEF IsDue, s, last
  <2>6. s.kind = "cron"
    BY DEF s
  <2>7. CronDue(s, last, clock) => Missed(s, last, clock)
    BY <2>2, <2>3, <2>6, DueMissed
  <2>8. Missed(s, last, clock) => CronDue(s, last, clock)
    BY <2>2, <2>3, <2>4, <2>6, MissedDue
  <2>9. IsDue(s, last, clock) <=> Missed(s, last, clock)
    BY <2>5, <2>7, <2>8
  <2> QED
    BY <2>9 DEF s, last
<1> QED
  BY SweepTypeKept, <1>1, PTL

-----------------------------------------------------------------------------
(* No occurrence is claimed twice *)

\* What was claimed lies at or before the row's last run.
FireInv ==
    \A r \in Rows : \A o \in Instants :
        /\ fired[r][o] <= 1
        /\ fired[r][o] > 0 => row[r].last_run_at # Never /\ o <= row[r].last_run_at

\* The claim is a compare-and-set on last_run_at: its window begins after every
\* occurrence that was claimed before.
LEMMA ClaimOnce ==
    ASSUME SweepType, FireInv, NEW p \in Passes, Claim(p)
    PROVE  FireInv'
<1> USE SweepAssumption, ScheduleAssumption
<1> DEFINE q == pass[p]
           c == q.row
           from == q.listed[c].last_run_at
<1>1. q \in PassRec /\ PassHolds(q, jobs) /\ q.pc = "claim"
  BY DEF SweepType, DbType, Claim
<1>2. c \in Rows /\ q.now \in Instants /\ from \in Times /\ (from = Never \/ from <= q.now)
  BY <1>1 DEF PassHolds, PassRec, RowRec
<1>3. row \in [Rows -> RowRec] /\ fired \in [Rows -> [Instants -> Nat]]
  BY DEF SweepType, DbType
<1>4. CASE row[c].last_run_at # from
  <2>1. UNCHANGED <<row, fired>>
    BY <1>4 DEF Claim
  <2> QED
    BY <2>1 DEF FireInv
<1>5. CASE row[c].last_run_at = from
  <2>1. row' = [row EXCEPT ![c].last_run_at = q.now] /\ Fires(p, c)
    BY <1>5 DEF Claim, Claimed
  <2>2. ASSUME NEW r \in Rows, r # c PROVE row'[r] = row[r] /\ fired'[r] = fired[r]
    BY <1>3, <2>1, <2>2 DEF Fires
  <2>3. row'[c].last_run_at = q.now
    BY <1>2, <1>3, <2>1 DEF RowRec
  <2>4. ASSUME NEW o \in Instants
        PROVE  fired'[c][o] = IF (from = Never \/ from < o) /\ o <= q.now THEN fired[c][o] + 1 ELSE fired[c][o]
    BY <1>2, <1>3, <2>1 DEF Fires
  <2>5. ASSUME NEW o \in Instants
        PROVE  fired'[c][o] <= 1 /\ (fired'[c][o] > 0 => o <= q.now)
    <3> HIDE DEF q, c, from
    <3>1. fired[c][o] \in Nat /\ fired[c][o] <= 1 /\ (fired[c][o] > 0 => from # Never /\ o <= from)
      BY <1>2, <1>3, <1>5 DEF FireInv
    <3>2. o \in Int /\ q.now \in Int /\ (from # Never => from \in Int)
      BY <1>2 DEF Instants, Times
    <3>3. CASE (from = Never \/ from < o) /\ o <= q.now
      <4>1. fired[c][o] = 0
        BY <3>1, <3>2, <3>3
      <4> QED
        BY <2>4, <3>3, <4>1
    <3>4. CASE ~ ((from = Never \/ from < o) /\ o <= q.now)
      <4>1. fired'[c][o] = fired[c][o]
        BY <2>4, <3>4
      <4> QED
        BY <1>2, <3>1, <3>2, <4>1
    <3> QED
      BY <3>3, <3>4
  <2>6. q.now # Never
    BY <1>2 DEF Instants
  <2> SUFFICES ASSUME NEW r \in Rows, NEW o \in Instants
               PROVE  /\ fired'[r][o] <= 1
                      /\ fired'[r][o] > 0 => row'[r].last_run_at # Never /\ o <= row'[r].last_run_at
    BY DEF FireInv
  <2>7. CASE r = c
    BY <2>3, <2>5, <2>6, <2>7
  <2>8. CASE r # c
    BY <2>2, <2>8 DEF FireInv
  <2> QED
    BY <2>7, <2>8
<1> QED
  BY <1>4, <1>5

\* No fire time of a schedule is claimed by two sweeps, however many overlap
\* after timeouts and restarts of the sidecar and crashes of the API.
THEOREM NoOccurrenceTwice == Spec => []OncePerOccurrence
<1>1. Init => FireInv
  BY SweepAssumption DEF Init, FireInv
<1>2. ASSUME SweepType, FireInv, [Next]_vars PROVE FireInv'
  <2>1. CASE UNCHANGED <<row, fired>>
    BY <1>2, <2>1 DEF FireInv
  <2>2. ASSUME NEW p \in Passes, Record(p) PROVE FireInv'
    <3>1. row \in [Rows -> RowRec] /\ fired' = fired
      BY <1>2, <2>2 DEF SweepType, DbType, Record
    <3>2. \A r \in Rows : row'[r].last_run_at = row[r].last_run_at
      BY <2>2, <3>1 DEF Record, RowRec
    <3> QED
      BY <1>2, <3>1, <3>2 DEF FireInv
  <2>3. ASSUME NEW p \in Passes, Claim(p) PROVE FireInv'
    BY <1>2, <2>3, ClaimOnce
  <2> QED
    BY <1>2, <2>1, <2>2, <2>3 DEF Next, vars, dbVars, Tick, SidecarNext, Start, Wake, Submit, Send,
       Return, CallFails, TimeOut, Stamp, Persist, PersistFails, Release, Stop, Stopped, Kill,
       SweepNext, List, EndPass, Evaluate, Enqueue, EnqueueFails, RowFails, Crash, JobMoves
<1>3. FireInv => OncePerOccurrence
  BY DEF FireInv, OncePerOccurrence
<1> QED
  BY SweepTypeKept, <1>1, <1>2, <1>3, PTL DEF Spec

-----------------------------------------------------------------------------
(* The sidecar's cadence across restarts *)

\* Where the last launch is recorded: with the thread until it stamps it, then
\* in memory, then in the file.
LaunchKept ==
    /\ thread.pc \in {"call", "wait", "stamp"} => thread.stamp = launched
    /\ thread.pc = "persist" => last_run = launched
    /\ thread.pc = "release" => last_run = launched /\ disk = launched
    /\ thread.pc = "none" => disk = launched /\ (loop.pc # "down" => last_run = launched)

CadenceInv ==
    /\ loop.pc = "down" => thread.pc = "none"
    /\ loop.pc = "due" => loop.now = clock /\ IsDue(Cadence, loop.seen, clock)
    /\ gap \cap {"unsaved", "raced"} = {} => LaunchKept

\* No step loses the last launch without leaving a mark in gap.
LEMMA CadenceStep == SweepType /\ CadenceInv /\ [Next]_vars => CadenceInv'
<1> SUFFICES ASSUME SweepType, CadenceInv, [Next]_vars PROVE CadenceInv'
  OBVIOUS
<1>0. /\ loop \in [pc: {"down", "sleep", "due", "stopping"}, now: Instants, seen: Times]
      /\ thread \in [pc: {"none", "call", "wait", "stamp", "persist", "release"}, stamp: Instants,
                     pass: Passes \cup {Never}]
  BY DEF SweepType, SidecarType
<1>a. ASSUME UNCHANGED <<clock, loop, thread, last_run, disk, launched>>, gap \subseteq gap'
      PROVE  CadenceInv'
  BY <1>a DEF CadenceInv, LaunchKept
<1>b. ASSUME NEW gs, Fault(gs) PROVE gap' = gap \cup gs /\ launched' = launched
  BY <1>b DEF Fault
<1>c. NoThread.pc = "none" /\ Asleep.pc = "sleep" /\ Down.pc = "down"
  BY DEF NoThread, Asleep, Down
<1>1. CASE UNCHANGED vars
  BY <1>1, <1>a DEF vars, scVars, history
<1>2. CASE Tick
  BY <1>2 DEF Tick, CadenceInv, LaunchKept, scVars, history
<1>3. CASE Start
  BY <1>3, <1>c DEF Start, CadenceInv, LaunchKept, history
<1>4. CASE Wake
  BY <1>4 DEF Wake, CadenceInv, LaunchKept, history
<1>5. CASE Submit
  <2>1. CASE thread.pc = "none"
    <3>1. thread'.pc = "call" /\ thread'.stamp = loop.now /\ launched' = loop.now
      BY <1>5, <2>1 DEF Submit, Launched, NoThread
    <3>2. loop'.pc = "sleep"
      BY <1>5, <1>c DEF Submit
    <3> QED
      BY <3>1, <3>2 DEF CadenceInv, LaunchKept
  <2>2. CASE thread.pc # "none"
    BY <1>5, <1>c, <2>2 DEF Submit, CadenceInv, LaunchKept
  <2> QED
    BY <2>1, <2>2
<1>6. ASSUME NEW p \in Passes, Send(p) PROVE CadenceInv'
  <2>1. thread'.pc = "wait" /\ thread'.stamp = thread.stamp /\ thread.pc = "call"
    BY <1>0, <1>6 DEF Send
  <2> QED
    BY <1>6, <2>1 DEF Send, CadenceInv, LaunchKept, history
<1>7. CASE Return
  <2>1. thread'.pc = "stamp" /\ thread'.stamp = thread.stamp /\ thread.pc = "wait"
    BY <1>0, <1>7 DEF Return
  <2> QED
    BY <1>7, <2>1 DEF Return, CadenceInv, LaunchKept, history
<1>8. CASE CallFails
  <2>1. thread'.pc = "stamp" /\ thread'.stamp = thread.stamp /\ thread.pc = "call"
    BY <1>0, <1>8 DEF CallFails
  <2> QED
    BY <1>8, <1>b, <2>1 DEF CallFails, CadenceInv, LaunchKept
<1>9. CASE TimeOut
  <2>1. thread'.pc = "stamp" /\ thread'.stamp = thread.stamp /\ thread.pc = "wait"
    BY <1>0, <1>9 DEF TimeOut
  <2>2. gap' = gap \cup {"loose"} /\ launched' = launched
    BY <1>9, <1>b DEF TimeOut
  <2> QED
    BY <1>9, <2>1, <2>2 DEF TimeOut, CadenceInv, LaunchKept
<1>10. CASE Stamp
  <2>1. thread'.pc = "persist" /\ thread.pc = "stamp"
    BY <1>0, <1>10 DEF Stamp
  <2> QED
    BY <1>10, <2>1 DEF Stamp, CadenceInv, LaunchKept, history
<1>11. CASE Persist
  <2>1. thread'.pc = "release" /\ thread.pc = "persist"
    BY <1>0, <1>11 DEF Persist
  <2> QED
    BY <1>11, <2>1 DEF Persist, CadenceInv, LaunchKept, history
<1>12. CASE PersistFails
  <2>1. thread'.pc = "release" /\ thread.pc = "persist"
    BY <1>0, <1>12 DEF PersistFails
  <2>2. gap' = gap \cup {"unsaved"}
    BY <1>12, <1>b DEF PersistFails
  <2> QED
    BY <1>12, <2>1, <2>2 DEF PersistFails, CadenceInv
<1>13. CASE Release
  BY <1>13, <1>c DEF Release, CadenceInv, LaunchKept, history
<1>14. CASE Stop
  <2>1. loop'.pc = "stopping" /\ loop.pc = "sleep"
    BY <1>0, <1>14 DEF Stop
  <2> QED
    BY <1>14, <1>b, <2>1 DEF Stop, CadenceInv, LaunchKept
<1>15. CASE Stopped
  BY <1>15, <1>c DEF Stopped, CadenceInv, LaunchKept, history
<1>16. CASE Kill
  <2> DEFINE gs == {g \in {"loose", "unsaved"} :
                 \/ g = "loose" /\ thread.pc = "wait" /\ pass[thread.pass].pc # "idle"
                 \/ g = "unsaved" /\ thread.pc \in {"call", "wait", "stamp", "persist"}}
  <2>1. gap' = gap \cup gs /\ launched' = launched
    BY <1>16, <1>b DEF Kill
  <2>2. gap' \cap {"unsaved", "raced"} = {} =>
           gap \cap {"unsaved", "raced"} = {} /\ thread.pc \notin {"call", "wait", "stamp", "persist"}
    BY <2>1
  <2>3. loop'.pc = "down" /\ thread'.pc = "none" /\ disk' = disk
    BY <1>16, <1>c DEF Kill
  <2>4. gap' \cap {"unsaved", "raced"} = {} => disk = launched
    BY <1>0, <2>2 DEF CadenceInv, LaunchKept
  <2> QED
    BY <2>1, <2>3, <2>4 DEF CadenceInv, LaunchKept
<1>17. ASSUME NEW p \in Passes, SweepNext(p) PROVE CadenceInv'
  <2>1. UNCHANGED <<clock, loop, thread, last_run, disk, launched>> /\ gap \subseteq gap'
    BY <1>17 DEF SweepNext, List, EndPass, Evaluate, Claim, Enqueue, EnqueueFails, RowFails, Record,
       Crash, Fault, scVars, history
  <2> QED
    BY <1>a, <2>1
<1>18. ASSUME NEW r \in Rows, JobMoves(r) PROVE CadenceInv'
  BY <1>18, <1>a DEF JobMoves, scVars, history
<1> QED
  BY <1>1, <1>2, <1>3, <1>4, <1>5, <1>6, <1>7, <1>8, <1>9, <1>10, <1>11, <1>12, <1>13, <1>14,
     <1>15, <1>16, <1>17, <1>18 DEF Next, SidecarNext

\* The sweep is called no sooner than the cadence allows after the last call,
\* across restarts of the sidecar, unless the last run was never saved or was
\* written between is_table_due and the look at in_flight.
THEOREM CadenceHolds == Spec => CadenceKept
<1> DEFINE Kept == \/ launched' = launched \/ launched = Never \/ gap' \cap {"unsaved", "raced"} # {}
                   \/ clock >= launched + Cadence.n
<1>1. Init => CadenceInv
  BY DEF Init, CadenceInv, LaunchKept, NoThread
<1>2. ASSUME SweepType, CadenceInv, [Next]_vars PROVE Kept
  <2>1. CASE Submit /\ thread.pc = "none"
    <3> SUFFICES ASSUME launched # Never, gap' \cap {"unsaved", "raced"} = {}
                 PROVE  clock >= launched + Cadence.n
      OBVIOUS
    <3>1. loop.pc = "due" /\ loop.seen = last_run /\ gap \cap {"unsaved", "raced"} = {}
      BY <2>1 DEF Submit, Launched
    <3>2. IsDue(Cadence, launched, clock)
      BY <1>2, <2>1, <3>1 DEF CadenceInv, LaunchKept
    <3>3. clock - launched >= Cadence.n /\ Cadence.n \in Nat
      BY <3>2, SweepAssumption DEF IsDue, IsValid
    <3>4. clock \in Int /\ launched \in Int
      BY <1>2, SweepAssumption DEF SweepType, SidecarType, Times, Instants
    <3> QED
      BY <3>3, <3>4
  <2>2. CASE ~ (Submit /\ thread.pc = "none")
    <3>1. launched' = launched
      BY <1>2, <2>2 DEF Next, vars, history, Tick, SidecarNext, Start, Wake, Submit, Send,
         Return, CallFails, TimeOut, Stamp, Persist, PersistFails, Release, Stop, Stopped, Kill,
         SweepNext, List, EndPass, Evaluate, Claim, Enqueue, EnqueueFails, RowFails, Record, Crash,
         JobMoves, Fault
    <3> QED
      BY <3>1
  <2> QED
    BY <2>1, <2>2
<1>3. SweepType /\ CadenceInv /\ [Next]_vars => [Kept]_vars
  BY <1>2
<1> QED
  BY SweepTypeKept, CadenceStep, <1>1, <1>3, PTL DEF Spec, CadenceKept

-----------------------------------------------------------------------------
(* While every sweep is waited for, sweeps do not overlap and a schedule has *)
(* at most one queued job                                                   *)

Queued(js, r) == {i \in DOMAIN js[r] : js[r][i].status = "queued"}

\* What a sweep that runs alone knows of the rows rw and the jobs js.
PassSees(q, rw, js) ==
    /\ q.pc = "idle" => q.todo = {}
    /\ \A r \in q.todo : q.listed[r] = rw[r]
    /\ q.pc = "claim" => /\ q.prev = 0 => Queued(js, q.row) = {}
                         /\ q.prev # 0 => q.prev = rw[q.row].last_job_id
    /\ q.pc = "enqueue" => Queued(js, q.row) = {}
    /\ q.pc = "record" => Queued(js, q.row) \subseteq {q.job}

\* A queued job is the last of its row, or about to be recorded as that.
Backlog(ps, rw, js) ==
    \A r \in Rows : \A i \in Queued(js, r) :
        \/ i = rw[r].last_job_id
        \/ \E p \in Passes : ps[p].pc = "record" /\ ps[p].row = r /\ ps[p].job = i

\* Only the sweep that the thread waits for runs.
Waited(th, ps) == \A p \in Passes : ps[p].pc # "idle" => th.pc = "wait" /\ th.pass = p

WaitedInv == "loose" \notin gap => Waited(thread, pass)

\* No sweep was left to itself, and every job enqueued so far was recorded.
Clean(g) == "loose" \notin g /\ "unrecorded" \notin g

AloneInv ==
    Clean(gap) =>
        /\ Waited(thread, pass)
        /\ \A p \in Passes : PassSees(pass[p], row, jobs)
        /\ Backlog(pass, row, jobs)

\* A step of the only sweep that runs.
LEMMA AloneStep ==
    ASSUME SweepType, AloneInv, Clean(gap), NEW p \in Passes, pass[p].pc # "idle",
           NEW x \in PassRec, pass' = [pass EXCEPT ![p] = x], thread' = thread,
           PassSees(x, row', jobs'), Backlog(pass', row', jobs')
    PROVE  AloneInv'
<1>0. pass \in [Passes -> PassRec]
  BY DEF SweepType, DbType
<1>1. thread.pc = "wait" /\ thread.pass = p
  BY DEF AloneInv, Waited
<1>2. ASSUME NEW k \in Passes, k # p
      PROVE  pass'[k] = pass[k] /\ pass[k].pc = "idle" /\ pass[k].todo = {}
  <2>1. pass'[k] = pass[k]
    BY <1>0, <1>2
  <2>2. pass[k].pc = "idle"
    BY <1>1, <1>2 DEF AloneInv, Waited
  <2>3. pass[k].todo = {}
    BY <2>2 DEF AloneInv, PassSees
  <2> QED
    BY <2>1, <2>2, <2>3
<1>3. pass'[p] = x
  BY <1>0
<1>4. Waited(thread', pass')
  BY <1>1, <1>2 DEF Waited
<1>5. ASSUME NEW k \in Passes PROVE PassSees(pass'[k], row', jobs')
  <2>1. CASE k = p
    BY <1>3, <2>1
  <2>2. CASE k # p
    BY <1>2, <2>2 DEF PassSees
  <2> QED
    BY <2>1, <2>2
<1> QED
  BY <1>4, <1>5 DEF AloneInv

\* The steps of a sweep, as long as none is left to itself.
LEMMA SweepAlone ==
    ASSUME SweepType, AloneInv, NEW p \in Passes, SweepNext(p)
    PROVE  AloneInv'
<1> USE SweepAssumption, ScheduleAssumption
<1> DEFINE q == pass[p]
<1> SUFFICES ASSUME Clean(gap') PROVE AloneInv'
  BY DEF AloneInv
<1>0. Clean(gap) /\ thread' = thread /\ ~ Crash(p)
  BY DEF SweepNext, List, EndPass, Evaluate, Claim, Enqueue, EnqueueFails, RowFails, Record, Crash,
     Fault, scVars, history, Clean
<1>1. /\ q.pc # "idle" /\ q \in PassRec /\ PassHolds(q, jobs) /\ PassSees(q, row, jobs)
      /\ pass \in [Passes -> PassRec] /\ row \in [Rows -> RowRec] /\ jobs \in [Rows -> Seq(JobRec)]
      /\ Backlog(pass, row, jobs)
  BY <1>0 DEF SweepType, DbType, AloneInv, SweepNext, List, EndPass, Evaluate, Claim, Enqueue,
     EnqueueFails, RowFails, Record, Crash
<1>2. ASSUME NEW k \in Passes, k # p PROVE pass[k].pc = "idle"
  BY <1>0, <1>1, <1>2 DEF AloneInv, Waited
<1>3. ASSUME q.pc # "record", NEW r \in Rows
      PROVE  Queued(jobs, r) \subseteq {row[r].last_job_id}
  <2>1. ~ \E k \in Passes : pass[k].pc = "record"
    BY <1>2, <1>3
  <2> QED
    BY <1>1, <2>1 DEF Backlog
<1>4. ASSUME q.pc # "record", UNCHANGED jobs,
             \A r \in Rows : row'[r].last_job_id = row[r].last_job_id
      PROVE  Backlog(pass', row', jobs')
  BY <1>3, <1>4 DEF Backlog
<1>6. CASE List(p)
  <2> DEFINE x == [q EXCEPT !.pc = "next", !.todo = Rows, !.listed = row]
  <2>1. pass' = [pass EXCEPT ![p] = x] /\ UNCHANGED <<row, jobs>> /\ q.pc = "list"
    BY <1>6 DEF List, dbVars
  <2>2. x \in PassRec /\ x.pc = "next" /\ x.listed = row
    BY <1>1 DEF PassRec
  <2>3. Backlog(pass', row', jobs')
    BY <1>4, <2>1
  <2> HIDE DEF x
  <2>4. PassSees(x, row', jobs')
    BY <2>1, <2>2 DEF PassSees
  <2> QED
    BY <1>0, <1>1, <2>1, <2>2, <2>3, <2>4, AloneStep
<1>7. CASE EndPass(p)
  <2>1. pass' = [pass EXCEPT ![p] = NoPass] /\ UNCHANGED <<row, jobs>> /\ q.pc = "next"
    BY <1>7 DEF EndPass, dbVars
  <2>2. NoPass \in PassRec /\ NoPass.pc = "idle" /\ NoPass.todo = {}
    BY DEF NoPass, PassRec, Instants
  <2>3. Backlog(pass', row', jobs')
    BY <1>4, <2>1
  <2>4. PassSees(NoPass, row', jobs')
    BY <2>2 DEF PassSees
  <2> QED
    BY <1>0, <1>1, <2>1, <2>2, <2>3, <2>4, AloneStep
<1>8. ASSUME NEW r \in Rows, Evaluate(p, r) PROVE AloneInv'
  <2> DEFINE seen == q.listed[r]
             queued == seen.last_job_id # 0 /\ jobs[r][seen.last_job_id].status = "queued"
             x == [q EXCEPT !.todo = q.todo \ {r}, !.pc = "claim", !.row = r,
                            !.prev = IF queued THEN seen.last_job_id ELSE 0]
             y == [q EXCEPT !.todo = q.todo \ {r}, !.listed[r] = Never]
  <2>1. UNCHANGED <<row, jobs>> /\ q.pc = "next" /\ r \in q.todo
        /\ pass' = [pass EXCEPT ![p] = IF IsDue(seen.schedule, seen.last_run_at, q.now) THEN x ELSE y]
    BY <1>8 DEF Evaluate, dbVars
  <2>2. seen = row[r] /\ seen \in RowRec /\ seen.last_job_id \in Nat
    BY <1>1, <2>1 DEF PassSees, RowRec
  <2>3. Backlog(pass', row', jobs')
    BY <1>4, <2>1
  <2>4. ~ queued => Queued(jobs, r) = {}
    <3> SUFFICES ASSUME ~ queued, NEW i \in Queued(jobs, r) PROVE FALSE
      OBVIOUS
    <3>1. i = row[r].last_job_id
      BY <1>3, <2>1
    <3>2. i \in 1 .. Len(jobs[r]) /\ jobs[r][i].status = "queued" /\ Len(jobs[r]) \in Nat
      BY <1>1 DEF Queued
    <3> QED
      BY <2>2, <3>1, <3>2
  <2>5. /\ x \in PassRec /\ x.pc = "claim" /\ x.row = r /\ x.todo = q.todo \ {r} /\ x.listed = q.listed
        /\ x.prev = IF queued THEN seen.last_job_id ELSE 0
    <3>1. (IF queued THEN seen.last_job_id ELSE 0) \in Nat
      BY <2>2
    <3> HIDE DEF queued, seen
    <3> QED
      BY <1>1, <3>1 DEF PassRec
  <2>6. y \in PassRec /\ y.pc = "next" /\ y.todo = q.todo \ {r} /\ \A k \in y.todo : y.listed[k] = q.listed[k]
    BY <1>1, <2>1 DEF PassRec
  <2>7. PassSees(x, row', jobs')
    <3>1. queued => seen.last_job_id # 0
      OBVIOUS
    <3> HIDE DEF x, queued
    <3>2. /\ x.prev = 0 => Queued(jobs, r) = {}
          /\ x.prev # 0 => x.prev = row[r].last_job_id
      BY <2>2, <2>4, <2>5, <3>1
    <3> QED
      BY <1>1, <2>1, <2>5, <3>2 DEF PassSees
  <2>8. PassSees(y, row', jobs')
    <3> HIDE DEF y
    <3> QED
      BY <1>1, <2>1, <2>6 DEF PassSees
  <2> HIDE DEF x, y, seen, q
  <2>9. CASE IsDue(seen.schedule, seen.last_run_at, q.now)
    <3>1. pass' = [pass EXCEPT ![p] = x]
      BY <2>1, <2>9
    <3> QED
      BY <1>0, <1>1, <2>3, <2>5, <2>7, <3>1, AloneStep DEF q
  <2>10. CASE ~ IsDue(seen.schedule, seen.last_run_at, q.now)
    <3>1. pass' = [pass EXCEPT ![p] = y]
      BY <2>1, <2>10
    <3> QED
      BY <1>0, <1>1, <2>3, <2>6, <2>8, <3>1, AloneStep DEF q
  <2> QED
    BY <2>9, <2>10
<1>o. ASSUME q.pc \in {"claim", "enqueue", "record"}
      PROVE  /\ Onward(q) \in PassRec /\ Onward(q).pc = "next" /\ Onward(q).todo = q.todo
             /\ \A k \in q.todo : Onward(q).listed[k] = q.listed[k]
  <2>1. q.row \notin q.todo
    BY <1>1, <1>o DEF PassHolds
  <2> QED
    BY <1>1, <2>1 DEF Onward, PassRec
<1>9. CASE Claim(p)
  <2> DEFINE r == q.row
  <2>1. q.pc = "claim" /\ jobs' = jobs /\ r \in Rows /\ r \notin q.todo /\ q.prev \in Nat
    BY <1>1, <1>9 DEF Claim, PassHolds, PassRec
  <2>2. CASE row[r].last_run_at = q.listed[r].last_run_at
    <3> DEFINE x == [q EXCEPT !.pc = IF q.prev = 0 THEN "enqueue" ELSE "record", !.job = q.prev,
                              !.listed[r] = Never]
    <3>1. Claimed(p, r)
      BY <1>9, <2>2 DEF Claim
    <3>2. pass' = [pass EXCEPT ![p] = x]
      BY <1>1, <3>1 DEF Claimed, PassRec
    <3>3. (\A k \in Rows : row'[k].last_job_id = row[k].last_job_id) /\ \A k \in q.todo : row'[k] = row[k]
      <4>1. row' = [row EXCEPT ![r].last_run_at = q.now] /\ q.todo \subseteq Rows
        BY <1>1, <3>1 DEF Claimed, PassRec
      <4> HIDE DEF q, r
      <4> QED
        BY <1>1, <2>1, <4>1 DEF RowRec
    <3>4. x \in PassRec /\ x.row = r /\ x.todo = q.todo /\ x.job = q.prev
          /\ x.pc = (IF q.prev = 0 THEN "enqueue" ELSE "record")
          /\ \A k \in x.todo : x.listed[k] = q.listed[k]
      BY <1>1, <2>1 DEF PassRec
    <3>5. Backlog(pass', row', jobs')
      BY <1>4, <2>1, <3>3
    <3>6. Queued(jobs, r) \subseteq {row[r].last_job_id}
      BY <1>3, <2>1
    <3>7. PassSees(x, row', jobs')
      <4> HIDE DEF x
      <4> QED
        BY <1>1, <2>1, <3>3, <3>4, <3>6 DEF PassSees
    <3> HIDE DEF x
    <3> QED
      BY <1>0, <1>1, <3>2, <3>4, <3>5, <3>7, AloneStep
  <2>3. CASE row[r].last_run_at # q.listed[r].last_run_at
    <3>1. pass' = [pass EXCEPT ![p] = Onward(q)] /\ UNCHANGED row
      BY <1>9, <2>3 DEF Claim
    <3>2. Backlog(pass', row', jobs')
      BY <1>4, <2>1, <3>1
    <3>3. PassSees(Onward(q), row', jobs')
      BY <1>1, <1>o, <2>1, <3>1 DEF PassSees
    <3> QED
      BY <1>0, <1>1, <1>o, <2>1, <3>1, <3>2, <3>3, AloneStep
  <2> QED
    BY <2>2, <2>3
<1>10. CASE Enqueue(p)
  <2> DEFINE r == q.row
             m == q.now \div Minute
  <2>1. /\ q.pc = "enqueue" /\ UNCHANGED row /\ r \in Rows /\ r \notin q.todo
        /\ Queued(jobs, r) = {} /\ jobs[r] \in Seq(JobRec) /\ Len(jobs[r]) \in Nat
    BY <1>1, <1>10 DEF Enqueue, PassHolds, PassSees
  <2>2. ASSUME NEW j \in Nat, pass' = [pass EXCEPT ![p].pc = "record", ![p].job = j],
               \A k \in Rows : k # r => jobs'[k] = jobs[k], Queued(jobs', r) \subseteq {j}
        PROVE  AloneInv'
    <3> DEFINE x == [q EXCEPT !.pc = "record", !.job = j]
    <3>1. pass' = [pass EXCEPT ![p] = x]
      BY <1>1, <2>2 DEF PassRec
    <3>2. x \in PassRec /\ x.pc = "record" /\ x.row = r /\ x.job = j /\ x.todo = q.todo /\ x.listed = q.listed
      BY <1>1 DEF PassRec
    <3> HIDE DEF x, q
    <3>3. PassSees(x, row', jobs')
      BY <1>1, <2>1, <2>2, <3>2 DEF PassSees, q
    <3>4. pass'[p] = x
      BY <1>1, <3>1
    <3>5. Backlog(pass', row', jobs')
      <4> SUFFICES ASSUME NEW k \in Rows, NEW i \in Queued(jobs', k)
                   PROVE  \/ i = row'[k].last_job_id
                          \/ \E c \in Passes : pass'[c].pc = "record" /\ pass'[c].row = k /\ pass'[c].job = i
        BY DEF Backlog
      <4>1. CASE k = r
        BY <2>2, <3>2, <3>4, <4>1
      <4>2. CASE k # r
        <5>1. i \in Queued(jobs, k)
          BY <2>2, <4>2 DEF Queued
        <5> QED
          BY <1>3, <2>1, <5>1
      <4> QED
        BY <4>1, <4>2
    <3> QED
      BY <1>0, <1>1, <3>1, <3>2, <3>3, <3>5, AloneStep DEF q
  <2>3. CASE Keyed(r, m) # {}
    <3> DEFINE j == Max(Keyed(r, m))
    <3>1. pass' = [pass EXCEPT ![p].pc = "record", ![p].job = j] /\ jobs' = jobs
      BY <1>10, <2>3 DEF Enqueue
    <3>2. Keyed(r, m) \subseteq 1 .. Len(jobs[r])
      BY <2>1 DEF Keyed
    <3>3. j \in Nat
      <4>1. Keyed(r, m) \subseteq Int /\ (\A i \in Keyed(r, m) : i <= Len(jobs[r])) /\ Len(jobs[r]) \in Int
        BY <2>1, <3>2
      <4> HIDE DEF m
      <4>2. j \in Keyed(r, m)
        BY <2>3, <4>1, MaxIs
      <4> QED
        BY <2>1, <3>2, <4>2
    <3> HIDE DEF j
    <3> QED
      BY <2>1, <2>2, <3>1, <3>3
  <2>4. CASE Keyed(r, m) = {}
    <3> DEFINE j == Len(jobs[r]) + 1
               new == [status |-> "queued", minute |-> m]
    <3>1. pass' = [pass EXCEPT ![p].pc = "record", ![p].job = j]
          /\ jobs' = [jobs EXCEPT ![r] = Append(jobs[r], new)]
      BY <1>10, <2>4 DEF Enqueue, Inserted
    <3> HIDE DEF new, q, r
    <3>2. (\A k \in Rows : k # r => jobs'[k] = jobs[k]) /\ jobs'[r] = Append(jobs[r], new)
      BY <1>1, <2>1, <3>1
    <3>3. Queued(jobs', r) \subseteq {j}
      <4> SUFFICES ASSUME NEW i \in Queued(jobs', r), i # j PROVE FALSE
        OBVIOUS
      <4>1. i \in DOMAIN Append(jobs[r], new) /\ Append(jobs[r], new)[i].status = "queued"
        BY <3>2 DEF Queued
      <4>2. DOMAIN Append(jobs[r], new) = 1 .. Len(jobs[r]) + 1
            /\ \A k \in 1 .. Len(jobs[r]) : Append(jobs[r], new)[k] = jobs[r][k]
        BY <2>1
      <4>3. i \in 1 .. Len(jobs[r])
        BY <2>1, <4>1, <4>2
      <4>4. i \in Queued(jobs, r)
        BY <2>1, <4>1, <4>2, <4>3 DEF Queued
      <4> QED
        BY <2>1, <4>4
    <3>4. j \in Nat
      BY <2>1
    <3> HIDE DEF j
    <3> QED
      BY <2>2, <3>1, <3>2, <3>3, <3>4
  <2> QED
    BY <2>3, <2>4
<1>11. CASE EnqueueFails(p)
  <2> DEFINE x == [q EXCEPT !.pc = "record", !.job = 0]
  <2>1. q.pc = "enqueue" /\ UNCHANGED <<row, jobs>> /\ Queued(jobs, q.row) = {}
    BY <1>1, <1>11 DEF EnqueueFails, PassSees, Fault, Clean
  <2>2. pass' = [pass EXCEPT ![p] = x]
    BY <1>1, <1>11 DEF EnqueueFails, PassRec
  <2>3. x \in PassRec /\ x.pc = "record" /\ x.row = q.row /\ x.todo = q.todo /\ x.listed = q.listed
    BY <1>1 DEF PassRec
  <2> HIDE DEF x
  <2>4. PassSees(x, row', jobs')
    BY <1>1, <2>1, <2>3 DEF PassSees
  <2>5. Backlog(pass', row', jobs')
    BY <1>4, <2>1
  <2> QED
    BY <1>0, <1>1, <2>2, <2>3, <2>4, <2>5, AloneStep
<1>12. CASE Record(p)
  <2> DEFINE r == q.row
  <2>1. /\ q.pc = "record" /\ jobs' = jobs /\ r \in Rows /\ r \notin q.todo /\ q.job \in Nat
        /\ Queued(jobs, r) \subseteq {q.job} /\ q.todo \subseteq Rows
    BY <1>1, <1>12 DEF Record, PassHolds, PassSees, PassRec
  <2>2. row' = [row EXCEPT ![r].last_job_id = q.job] /\ pass' = [pass EXCEPT ![p] = Onward(q)]
    BY <1>12 DEF Record
  <2>3. row'[r].last_job_id = q.job /\ \A k \in Rows : k # r => row'[k] = row[k]
    <3> HIDE DEF q, r
    <3> QED
      BY <1>1, <2>1, <2>2 DEF RowRec
  <2>4. PassSees(Onward(q), row', jobs')
    BY <1>1, <1>o, <2>1, <2>3 DEF PassSees
  <2>5. Backlog(pass', row', jobs')
    <3> SUFFICES ASSUME NEW k \in Rows, NEW i \in Queued(jobs, k) PROVE i = row'[k].last_job_id
      BY <2>1 DEF Backlog
    <3>1. CASE k = r
      BY <2>1, <2>3, <3>1
    <3>2. CASE k # r
      <4>1. ~ \E c \in Passes : pass[c].pc = "record" /\ pass[c].row = k
        BY <1>2, <3>2
      <4>2. i = row[k].last_job_id
        BY <1>1, <4>1 DEF Backlog
      <4> QED
        BY <2>3, <3>2, <4>2
    <3> QED
      BY <3>1, <3>2
  <2> QED
    BY <1>0, <1>1, <1>o, <2>1, <2>2, <2>4, <2>5, AloneStep
<1>13. CASE RowFails(p)
  <2> DEFINE r == q.row
  <2>1. /\ q.pc \in {"claim", "enqueue", "record"} /\ UNCHANGED <<row, jobs>> /\ r \in Rows
        /\ pass' = [pass EXCEPT ![p] = Onward(q)]
    BY <1>1, <1>13 DEF RowFails, PassHolds, dbVars
  <2>2. q.pc = "record" => q.job \in {0, row[r].last_job_id}
    BY <1>13 DEF RowFails, Fault, Clean
  <2>3. ASSUME NEW k \in Rows PROVE Queued(jobs, k) \subseteq {row[k].last_job_id}
    <3>1. CASE q.pc # "record"
      BY <1>3, <3>1
    <3>2. CASE q.pc = "record" /\ k # r
      <4>1. ~ \E c \in Passes : pass[c].pc = "record" /\ pass[c].row = k
        BY <1>2, <3>2
      <4> QED
        BY <1>1, <4>1 DEF Backlog
    <3>3. CASE q.pc = "record" /\ k = r
      <4>1. Queued(jobs, r) \subseteq {q.job}
        BY <1>1, <3>3 DEF PassSees
      <4>2. 0 \notin Queued(jobs, r)
        BY <1>1, <2>1 DEF Queued
      <4> QED
        BY <2>2, <3>3, <4>1, <4>2
    <3> QED
      BY <3>1, <3>2, <3>3
  <2>4. Backlog(pass', row', jobs')
    BY <2>1, <2>3 DEF Backlog
  <2>5. PassSees(Onward(q), row', jobs')
    BY <1>1, <1>o, <2>1 DEF PassSees
  <2> QED
    BY <1>0, <1>1, <1>o, <2>1, <2>4, <2>5, AloneStep
<1> QED
  BY <1>0, <1>6, <1>7, <1>8, <1>9, <1>10, <1>11, <1>12, <1>13 DEF SweepNext

\* A sweep or thread that begins, ends or dies, and a job that moves.
LEMMA AloneKept == SweepType /\ AloneInv /\ [Next]_vars => AloneInv'
<1> SUFFICES ASSUME SweepType, AloneInv, [Next]_vars, Clean(gap') PROVE AloneInv'
  BY DEF AloneInv
<1> USE SweepAssumption DEF Clean
<1>0. /\ thread \in [pc: {"none", "call", "wait", "stamp", "persist", "release"}, stamp: Instants,
                     pass: Passes \cup {Never}]
      /\ pass \in [Passes -> PassRec] /\ jobs \in [Rows -> Seq(JobRec)]
  BY DEF SweepType, SidecarType, DbType
<1>a. ASSUME UNCHANGED <<pass, row, jobs>>, gap \subseteq gap', Waited(thread', pass) PROVE AloneInv'
  BY <1>a DEF AloneInv
<1>b. ASSUME UNCHANGED <<pass, row, jobs, thread>>, gap \subseteq gap' PROVE AloneInv'
  BY <1>b DEF AloneInv
<1>c. ASSUME Clean(gap), thread.pc # "wait" \/ pass[thread.pass].pc = "idle"
      PROVE  \A p \in Passes : pass[p].pc = "idle"
  BY <1>c DEF AloneInv, Waited
<1>1. CASE UNCHANGED vars
  BY <1>1, <1>b DEF vars, scVars, dbVars, history
<1>2. CASE Tick \/ Start \/ Wake \/ Stop \/ Stopped
  BY <1>2, <1>b DEF Tick, Start, Wake, Stop, Stopped, scVars, dbVars, history, Fault
<1>3. CASE Submit
  <2>1. UNCHANGED <<pass, row, jobs>> /\ gap \subseteq gap'
    BY <1>3 DEF Submit, Launched, dbVars
  <2>2. CASE thread.pc = "none"
    BY <1>a, <1>c, <2>1, <2>2 DEF Waited
  <2>3. CASE thread.pc # "none"
    BY <1>3, <1>b, <2>1, <2>3 DEF Submit
  <2> QED
    BY <2>2, <2>3
<1>4. ASSUME NEW p \in Passes, Send(p) PROVE AloneInv'
  <2> DEFINE x == [NoPass EXCEPT !.pc = "list", !.now = clock]
  <2>1. thread.pc = "call" /\ pass' = [pass EXCEPT ![p] = x] /\ UNCHANGED <<row, jobs, gap>>
        /\ thread' = [thread EXCEPT !.pc = "wait", !.pass = p]
    BY <1>4 DEF Send, dbVars, history
  <2>2. x.pc = "list" /\ x.todo = {}
    BY DEF NoPass
  <2>3. \A k \in Passes : pass[k].pc = "idle"
    BY <1>c, <2>1
  <2> HIDE DEF x
  <2>4. pass'[p] = x /\ \A k \in Passes : k # p => pass'[k] = pass[k]
    BY <1>0, <2>1
  <2>5. thread'.pc = "wait" /\ thread'.pass = p
    BY <1>0, <2>1
  <2>6. Waited(thread', pass')
    BY <2>3, <2>4, <2>5 DEF Waited
  <2>7. ASSUME NEW k \in Passes PROVE PassSees(pass'[k], row', jobs')
    <3>1. CASE k = p
      BY <2>2, <2>4, <3>1 DEF PassSees
    <3>2. CASE k # p
      BY <2>1, <2>4, <3>2 DEF AloneInv
    <3> QED
      BY <3>1, <3>2
  <2>8. Backlog(pass', row', jobs')
    BY <2>1, <2>3 DEF AloneInv, Backlog
  <2> QED
    BY <2>6, <2>7, <2>8 DEF AloneInv
<1>5. CASE Return \/ CallFails \/ Stamp \/ Persist \/ PersistFails \/ Release
  <2>1. UNCHANGED <<pass, row, jobs>> /\ gap \subseteq gap'
        /\ (thread.pc # "wait" \/ pass[thread.pass].pc = "idle")
    BY <1>5 DEF Return, CallFails, Stamp, Persist, PersistFails, Release, dbVars, history, Fault
  <2> QED
    BY <1>a, <1>c, <2>1 DEF Waited
<1>6. ~ TimeOut
  BY DEF TimeOut, Fault
<1>7. CASE Kill
  <2>1. UNCHANGED <<pass, row, jobs>> /\ gap \subseteq gap'
        /\ (thread.pc # "wait" \/ pass[thread.pass].pc = "idle")
    BY <1>7 DEF Kill, dbVars, Fault
  <2> QED
    BY <1>a, <1>c, <2>1 DEF Waited
<1>8. ASSUME NEW p \in Passes, SweepNext(p) PROVE AloneInv'
  BY <1>8, SweepAlone
<1>9. ASSUME NEW r \in Rows, JobMoves(r) PROVE AloneInv'
  <2>1. UNCHANGED <<pass, row, thread, gap>>
    BY <1>9 DEF JobMoves, scVars, history
  <2>2. \A k \in Rows : Queued(jobs', k) \subseteq Queued(jobs, k)
    <3>1. PICK i \in DOMAIN jobs[r] :
             \/ jobs' = [jobs EXCEPT ![r][i].status = "running"]
             \/ jobs' = [jobs EXCEPT ![r][i] = [status |-> "ended", minute |-> 0]]
      BY <1>9 DEF JobMoves
    <3>2. jobs[r] \in Seq(JobRec) /\ jobs[r][i] \in JobRec
      BY <1>0, <3>1
    <3>3. PICK j : j.status # "queued" /\ jobs' = [jobs EXCEPT ![r] = [jobs[r] EXCEPT ![i] = j]]
      <4>1. [jobs[r][i] EXCEPT !.status = "running"].status = "running"
        BY <3>2 DEF JobRec
      <4>2. [status |-> "ended", minute |-> 0].status = "ended"
        OBVIOUS
      <4> QED
        BY <1>0, <3>1, <3>2, <4>1, <4>2
    <3>4. jobs'[r] = [jobs[r] EXCEPT ![i] = j] /\ \A k \in Rows : k # r => jobs'[k] = jobs[k]
      BY <1>0, <3>3
    <3>5. Queued(jobs', r) \subseteq Queued(jobs, r)
      BY <3>2, <3>3, <3>4 DEF Queued
    <3> QED
      BY <3>4, <3>5 DEF Queued
  <2>3. ASSUME Clean(gap), NEW p \in Passes PROVE PassSees(pass[p], row, jobs')
    <3>1. PassSees(pass[p], row, jobs) /\ PassHolds(pass[p], jobs)
      BY <2>3 DEF AloneInv, SweepType, DbType
    <3>2. pass[p].pc \in {"claim", "enqueue", "record"} => Queued(jobs', pass[p].row) \subseteq Queued(jobs, pass[p].row)
      BY <2>2, <3>1 DEF PassHolds
    <3> QED
      BY <3>1, <3>2 DEF PassSees
  <2>4. Backlog(pass, row, jobs) => Backlog(pass, row, jobs')
    BY <2>2 DEF Backlog
  <2> QED
    BY <2>1, <2>3, <2>4 DEF AloneInv
<1> QED
  BY <1>1, <1>2, <1>3, <1>4, <1>5, <1>6, <1>7, <1>8, <1>9 DEF Next, SidecarNext

\* WaitedInv holds initially and is kept by every step.
LEMMA WaitedKept == SweepType /\ WaitedInv /\ [Next]_vars => WaitedInv'
<1> SUFFICES ASSUME SweepType, WaitedInv, [Next]_vars, "loose" \notin gap'
             PROVE  Waited(thread', pass')
  BY DEF WaitedInv
<1>0. /\ thread \in [pc: {"none", "call", "wait", "stamp", "persist", "release"}, stamp: Instants,
                     pass: Passes \cup {Never}]
      /\ pass \in [Passes -> PassRec] /\ NoPass.pc = "idle" /\ NoThread.pc = "none"
  BY DEF SweepType, SidecarType, DbType, NoPass, NoThread
<1>1. "loose" \notin gap /\ Waited(thread, pass)
  <2>1. gap \subseteq gap'
    BY DEF Next, vars, scVars, dbVars, history, Tick, SidecarNext, Start, Wake, Submit, Launched,
       Send, Return, CallFails, TimeOut, Stamp, Persist, PersistFails, Release, Stop, Stopped, Kill,
       SweepNext, List, EndPass, Evaluate, Claim, Enqueue, EnqueueFails, RowFails, Record, Crash,
       JobMoves, Fault
  <2> QED
    BY <2>1 DEF WaitedInv
<1>a. ASSUME UNCHANGED pass, thread.pc # "wait" \/ pass[thread.pass].pc = "idle"
      PROVE  Waited(thread', pass')
  BY <1>1, <1>a DEF Waited
<1>2. CASE UNCHANGED <<pass, thread>>
  BY <1>1, <1>2
<1>3. CASE Submit
  <2>1. UNCHANGED pass /\ (UNCHANGED thread \/ thread.pc = "none")
    BY <1>3 DEF Submit
  <2> QED
    BY <1>2, <1>a, <2>1
<1>4. ASSUME NEW p \in Passes, Send(p) PROVE Waited(thread', pass')
  <2>1. \A k \in Passes : pass[k].pc = "idle"
    BY <1>1, <1>4 DEF Send, Waited
  <2>2. thread'.pc = "wait" /\ thread'.pass = p
    BY <1>0, <1>4 DEF Send
  <2>3. \A k \in Passes : k # p => pass'[k] = pass[k]
    BY <1>0, <1>4 DEF Send
  <2> QED
    BY <2>1, <2>2, <2>3 DEF Waited
<1>5. CASE Return \/ CallFails \/ Stamp \/ Persist \/ PersistFails \/ Release \/ TimeOut \/ Kill
  <2>1. UNCHANGED pass /\ (thread.pc # "wait" \/ pass[thread.pass].pc = "idle")
    BY <1>5 DEF Return, CallFails, Stamp, Persist, PersistFails, Release, TimeOut, Kill, Fault
  <2> QED
    BY <1>a, <2>1
<1>6. ASSUME NEW p \in Passes, SweepNext(p) PROVE Waited(thread', pass')
  <2>1. thread' = thread /\ pass[p].pc # "idle"
    BY <1>6 DEF SweepNext, List, EndPass, Evaluate, Claim, Enqueue, EnqueueFails, RowFails, Record,
       Crash, scVars
  <2>2. thread.pc = "wait" /\ thread.pass = p
    BY <1>1, <2>1 DEF Waited
  <2>3. \A k \in Passes : k # p => pass'[k] = pass[k]
    BY <1>0, <1>6 DEF SweepNext, List, EndPass, Evaluate, Claim, Claimed, Enqueue, EnqueueFails,
       RowFails, Record, Crash
  <2> QED
    BY <1>1, <2>1, <2>2, <2>3 DEF Waited
<1> QED
  BY <1>2, <1>3, <1>4, <1>5, <1>6 DEF Next, vars, scVars, dbVars, Tick, SidecarNext, Start, Wake,
     Stop, Stopped, JobMoves

\* As long as every sweep is waited for and none dies, sweeps do not overlap;
\* and as long as, besides, every job enqueued is recorded, each schedule has at
\* most one queued job, the promise of the backlog guard of _dispatch_if_due.
THEOREM SweepsOneAtATime == Spec => []OneAtATime
<1>1. Init => AloneInv /\ WaitedInv
  <2> SUFFICES ASSUME Init PROVE AloneInv /\ WaitedInv
    OBVIOUS
  <2>1. NoPass.pc = "idle" /\ NoPass.todo = {}
    BY DEF NoPass
  <2>2. \A p \in Passes : pass[p] = NoPass
    BY DEF Init
  <2>3. \A r \in Rows : Queued(jobs, r) = {}
    BY DEF Init, Queued
  <2> QED
    BY <2>1, <2>2, <2>3 DEF AloneInv, WaitedInv, Waited, PassSees, Backlog
<1>2. SweepType /\ AloneInv /\ WaitedInv => OneAtATime
  <2> SUFFICES ASSUME SweepType, AloneInv, WaitedInv
               PROVE  OneAtATime
    OBVIOUS
  <2>0. ASSUME NEW S, NEW a, S \subseteq {a} PROVE Cardinality(S) <= 1
    <3>1. Cardinality({}) = 0 /\ Cardinality({a}) = 1
      BY FS_EmptySet, FS_Singleton
    <3>2. S = {} \/ S = {a}
      BY <2>0
    <3> QED
      BY <3>1, <3>2
  <2>1. "loose" \notin gap => {p \in Passes : pass[p].pc # "idle"} \subseteq {thread.pass}
    BY DEF WaitedInv, Waited
  <2>2. ASSUME Clean(gap), NEW r \in Rows PROVE Cardinality(Queued(jobs, r)) <= 1
    <3>1. CASE \E p \in Passes : pass[p].pc = "record" /\ pass[p].row = r
      <4>1. PICK p \in Passes : pass[p].pc = "record" /\ pass[p].row = r
        BY <3>1
      <4>2. Queued(jobs, r) \subseteq {pass[p].job}
        BY <2>2, <4>1 DEF AloneInv, PassSees
      <4> QED
        BY <2>0, <4>2
    <3>2. CASE ~ \E p \in Passes : pass[p].pc = "record" /\ pass[p].row = r
      <4>1. Queued(jobs, r) \subseteq {row[r].last_job_id}
        BY <2>2, <3>2 DEF AloneInv, Backlog
      <4> QED
        BY <2>0, <4>1
    <3> QED
      BY <3>1, <3>2
  <2>3. Clean(gap) => OneQueuedPerSchedule
    BY <2>2 DEF OneQueuedPerSchedule, Queued
  <2>4. Clean(gap) \/ gap \cap {"loose", "unrecorded"} # {}
    BY DEF Clean
  <2>5. "loose" \in gap \/ Cardinality({p \in Passes : pass[p].pc # "idle"}) <= 1
    BY <2>0, <2>1
  <2> QED
    BY <2>3, <2>4, <2>5 DEF OneAtATime
<1> QED
  BY SweepTypeKept, AloneKept, WaitedKept, <1>1, <1>2, PTL DEF Spec
=============================================================================
