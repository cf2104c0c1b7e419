------------------------------ MODULE Schedule ------------------------------
(***************************************************************************)
(* Schedule strings after parsing, and when they are due (src/scheduler.py). *)
(* Time is counted in units; a minute has Minute of them and a day Day.     *)
(* The three date fields of a cron expression are abstracted to the set of  *)
(* days they match, its hours and minutes (and a daily schedule's HH:MM     *)
(* list) to a set of times of day, which fall on whole minutes.            *)
(***************************************************************************)
EXTENDS Integers, FiniteSetsExt

CONSTANTS
    Minute,         \* units of a minute
    Day,            \* units of a day
    Walk,           \* days _is_cron_due looks back, today included (8 * 366)
    Never           \* last run of what never ran

ASSUME ScheduleAssumption ==
    /\ Minute \in Nat \ {0} /\ Day \in Nat \ {0} /\ Walk \in Nat \ {0}
    /\ Day % Minute = 0
    /\ Never \notin Int

Every(n) == [kind |-> "every", n |-> n]
Daily(times) == [kind |-> "daily", times |-> times]
Cron(dates, times) == [kind |-> "cron", dates |-> dates, times |-> times]

TimesOfDay == {t \in 0 .. Day - 1 : t % Minute = 0}

\* is_valid_schedule: what the parsers accept.
IsValid(s) ==
    \/ s.kind = "every" /\ s.n \in Nat
    \/ s.kind = "daily" /\ s.times # {} /\ s.times \subseteq TimesOfDay
    \/ s.kind = "cron" /\ s.dates \subseteq Int /\ s.times # {} /\ s.times \subseteq TimesOfDay

DayOf(t) == t \div Day
WholeMinute(t) == t - (t % Minute)

\* _is_daily_due: only today's target times are looked at.
DailyDue(s, last, now) ==
    \E t \in s.times :
        LET target == DayOf(now) * Day + t IN now >= target /\ last < target

\* The fire times of day d up to now.
FiresOn(s, d, now) == {o \in {d * Day + t : t \in s.times} : o <= WholeMinute(now)}

\* A day of the walk that has a fire time.
Matches(s, d, now) == d > DayOf(now) - Walk /\ d \in s.dates /\ FiresOn(s, d, now) # {}

\* Bug: the walk ends before the day of the last run.
CronDueShort(s, last, now) ==
    /\ now > last
    /\ LET days == {d \in (DayOf(last) + 1) .. DayOf(now) : Matches(s, d, now)}
       IN days # {} /\ Max(FiresOn(s, Max(days), now)) > last

\* _is_cron_due walks the days back to that of the last run; the latest fire
\* time of the first day that has one decides.
CronDue(s, last, now) ==
    /\ now > last
    /\ LET days == {d \in DayOf(last) .. DayOf(now) : Matches(s, d, now)}
       IN days # {} /\ Max(FiresOn(s, Max(days), now)) > last

\* is_table_due
IsDue(s, last, now) ==
    \/ last = Never
    \/ last # Never /\ s.kind = "every" /\ now - last >= s.n
    \/ last # Never /\ s.kind = "daily" /\ DailyDue(s, last, now)
    \/ last # Never /\ s.kind = "cron" /\ CronDue(s, last, now)

-----------------------------------------------------------------------------
(* What the schedule's text promises *)

Occurs(s, o) ==
    \/ s.kind = "daily" /\ o % Day \in s.times
    \/ s.kind = "cron" /\ DayOf(o) \in s.dates /\ o % Day \in s.times

\* An occurrence falls in the half-open window (last, now].
Missed(s, last, now) == \E o \in (last + 1) .. now : Occurs(s, o)
=============================================================================
