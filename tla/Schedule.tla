----------------------------- MODULE Schedule -----------------------------
(***************************************************************************)
(* When the jobs of the automation scheduler are due (schedule.ts): once,  *)
(* at intervals from an anchor, or by a cron expression in a time zone     *)
(* whose clock may be set forward or back.  A job is created and then      *)
(* takes one occurrence after the other, each computed from the last.      *)
(*                                                                         *)
(* The calendar is a parameter: ticks of a minute, minutes of an hour,     *)
(* hours of a day, days of each month, days of a week.  An expression is   *)
(* the items of its five fields.                                           *)
(***************************************************************************)
EXTENDS Integers, Sequences, FiniteSetsExt, SequencesExt

CONSTANTS
    Ticks, Minutes, Hours, Days, WeekDays,   \* Days: the days of each month, a sequence
    Jobs, Zones, Starts,                     \* what is scheduled, where, and when it is created
    MinInterval, MaxInterval, MaxSafe,
    SearchLimit,                             \* CRON_SEARCH_LIMIT_MINUTES
    Horizon                                  \* how far a behaviour is followed

ASSUME CalendarAssumption ==
    /\ {Ticks, Minutes, Hours, WeekDays} \subseteq Nat \ {0}
    /\ Days \in Seq(Nat \ {0}) /\ Len(Days) > 0
    /\ {MinInterval, MaxInterval, MaxSafe, SearchLimit, Horizon} \subseteq Nat

VARIABLES
    job, zone, start,
    cursor,     \* next_scheduled_for
    occurred,   \* the occurrences it took
    jobState

scheduleVars == <<job, zone, start, cursor, occurred, jobState>>
----------------------------------------------------------------------------
DayMinutes == Minutes * Hours
YearDays == FoldSeq(+, 0, Days)
DaysBefore == [mo \in DOMAIN Days |-> FoldSeq(+, 0, SubSeq(Days, 1, mo - 1))]

\* The offset of a zone at an instant, in minutes: a change sets its clock.
Offset(z, t) == IF t < z.change THEN z.before ELSE z.after

\* zonedParts: the wall clock at an instant.
ZonedParts(z, t) ==
    LET local == t \div Ticks + Offset(z, t)
        day == local \div DayMinutes
        inYear == day % YearDays
        mo == CHOOSE n \in DOMAIN Days : DaysBefore[n] <= inYear /\ inYear < DaysBefore[n] + Days[n]
    IN  [minute |-> local % Minutes, hour |-> (local \div Minutes) % Hours,
         month |-> mo, day |-> inYear - DaysBefore[mo] + 1, dayOfWeek |-> day % WeekDays]

\* parseAbsoluteTimestamp: the fields of a date, checked by converting it back,
\* less the offset it is written with.
ValidDate(a) == a.month \in DOMAIN Days /\ a.day \in 1 .. Days[a.month] /\ a.hour < Hours /\ a.minute < Minutes
LocalUtc(a) == (((a.year * YearDays + DaysBefore[a.month] + a.day - 1) * Hours + a.hour) * Minutes + a.minute) * Ticks
ParseAbsoluteTimestamp(a) == LocalUtc(a) - a.offset * Ticks
----------------------------------------------------------------------------
\* Fields of a cron expression: least and greatest value.
Bounds == [minute |-> <<0, Minutes - 1>>, hour |-> <<0, Hours - 1>>, day |-> <<1, Max({Days[mo] : mo \in DOMAIN Days})>>,
           month |-> <<1, Len(Days)>>, dayOfWeek |-> <<0, WeekDays>>]
Field == DOMAIN Bounds

\* "*", "*/s", "a-b", "a-b/s" and "a"; a step of 0 stands for none.
Star == [base |-> "star", lo |-> 0, hi |-> 0, step |-> 0]
StarStep(s) == [Star EXCEPT !.step = s]
Span(a, b, s) == [base |-> "span", lo |-> a, hi |-> b, step |-> s]
Point(a) == [base |-> "point", lo |-> a, hi |-> a, step |-> 0]

ValidItem(i, f) ==
    /\ i.base # "star" => Bounds[f][1] <= i.lo /\ i.lo <= i.hi /\ i.hi <= Bounds[f][2]
    /\ i.base = "point" => i.step = 0
    /\ i.step <= Bounds[f][2] - Bounds[f][1] + 1

\* The last day of the week is the first.
NormalizeDow(f, v) == IF f = "dayOfWeek" /\ v = WeekDays THEN 0 ELSE v

\* Mutant: the upper end of a range is left out.
ItemValuesOpen(i, f) ==
    LET lo == IF i.base = "star" THEN Bounds[f][1] ELSE i.lo
        hi == IF i.base = "star" THEN Bounds[f][2] ELSE i.hi
        step == IF i.step = 0 THEN 1 ELSE i.step
    IN  {NormalizeDow(f, v) : v \in {v \in lo .. hi : (v - lo) % step = 0 /\ (i.base = "span" => v < hi)}}

\* parseCronField: the values of an item.
ItemValues(i, f) ==
    LET lo == IF i.base = "star" THEN Bounds[f][1] ELSE i.lo
        hi == IF i.base = "star" THEN Bounds[f][2] ELSE i.hi
        step == IF i.step = 0 THEN 1 ELSE i.step
    IN  {NormalizeDow(f, v) : v \in {v \in lo .. hi : (v - lo) % step = 0}}

Values(e, f) == UNION {ItemValues(i, f) : i \in e[f]}
Wildcard(e, f) == e[f] = {Star}

\* cronMatches: both day fields restricted means either.
CronMatches(e, p) ==
    /\ \A f \in {"minute", "hour", "month"} : p[f] \in Values(e, f)
    /\ IF Wildcard(e, "day") /\ Wildcard(e, "dayOfWeek") THEN TRUE
       ELSE IF Wildcard(e, "day") THEN p.dayOfWeek \in Values(e, "dayOfWeek")
       ELSE IF Wildcard(e, "dayOfWeek") THEN p.day \in Values(e, "day")
       ELSE p.day \in Values(e, "day") \/ p.dayOfWeek \in Values(e, "dayOfWeek")
----------------------------------------------------------------------------
\* normalizeSchedule.
ValidSchedule(j) ==
    CASE j.kind = "at" -> ValidDate(j.at) /\ ParseAbsoluteTimestamp(j.at) >= 0
      [] j.kind = "interval" -> j.every \in MinInterval .. MaxInterval /\ j.anchor \in 0 .. MaxSafe
      [] OTHER -> \A f \in Field : j.fields[f] # {} /\ \A i \in j.fields[f] : ValidItem(i, f)

Null == -1
NoFuture == -2

\* The whole minutes that the search for a match visits.
Candidate(after, n) == (after \div Ticks + n) * Ticks

SearchedMinutes == 1 .. SearchLimit

\* Multiples of the interval after its anchor.
IntervalNext(j, after) == j.anchor + ((after - j.anchor) \div j.every + 1) * j.every

ComputeNextScheduledFor(j, z, after) ==
    CASE j.kind = "at" -> IF ParseAbsoluteTimestamp(j.at) > after THEN ParseAbsoluteTimestamp(j.at) ELSE Null
      [] j.kind = "interval" ->
            IF after < j.anchor THEN j.anchor
            ELSE IF IntervalNext(j, after) > MaxSafe THEN NoFuture ELSE IntervalNext(j, after)
      [] OTHER ->
            LET found == {n \in SearchedMinutes : CronMatches(j.fields, ZonedParts(z, Candidate(after, n)))}
            IN  IF found = {} THEN NoFuture ELSE Candidate(after, Min(found))

ScheduleInit ==
    /\ job \in Jobs /\ zone \in Zones /\ start = 0
    /\ cursor = Null /\ occurred = {} /\ jobState = "new"

\* A job is created, or switched on after it was off, with its first occurrence
\* from now, or refused; one that is off has none.
SaveJob(now, enabled) ==
    LET next == ComputeNextScheduledFor(job, zone, now)
    IN  /\ jobState \in {"new", "off"} /\ now >= start
        /\ jobState' = IF ~ValidSchedule(job) THEN "refused"
                       ELSE IF ~enabled THEN "off"
                       ELSE IF next < 0 THEN "refused" ELSE "armed"
        /\ cursor' = IF jobState' = "armed" THEN next ELSE Null
        /\ start' = now
        /\ UNCHANGED <<job, zone, occurred>>

\* regularPlan: the occurrence is taken and the next one computed from it.  If
\* that throws, the wake fails with the occurrence still due.
TakeOccurrence ==
    LET next == ComputeNextScheduledFor(job, zone, cursor)
    IN  /\ jobState = "armed" /\ cursor <= Horizon
        /\ IF next = NoFuture
           THEN jobState' = "stuck" /\ UNCHANGED <<cursor, occurred>>
           ELSE /\ occurred' = occurred \cup {cursor}
                /\ cursor' = next
                /\ jobState' = IF next = Null THEN "ended" ELSE "armed"
        /\ UNCHANGED <<job, zone, start>>

DisableJob ==
    /\ jobState \in {"armed", "stuck"} /\ jobState' = "off"
    /\ cursor' = Null /\ occurred' = {}
    /\ UNCHANGED <<job, zone, start>>

ScheduleNext ==
    \/ \E now \in Starts, enabled \in BOOLEAN : SaveJob(now, enabled)
    \/ TakeOccurrence \/ DisableJob
----------------------------------------------------------------------------
ScheduleTypeOK ==
    /\ cursor \in Nat \cup {Null} /\ occurred \subseteq Nat
    /\ jobState \in {"new", "refused", "off", "armed", "stuck", "ended"}

\* Reference: the field of an item, read as the documents describe it.
Restricts(e, f) == Star \notin e[f]
Fits(i, f, v) ==
    \/ i.base = "star" /\ (i.step = 0 \/ (v - Bounds[f][1]) % i.step = 0)
    \/ i.base # "star" /\ v \in i.lo .. i.hi /\ (i.step = 0 \/ (v - i.lo) % i.step = 0)
FieldFits(e, p, f) ==
    \E i \in e[f] : Fits(i, f, p[f]) \/ (f = "dayOfWeek" /\ p[f] = 0 /\ Fits(i, f, WeekDays))
WallClockFits(e, p) ==
    /\ \A f \in {"minute", "hour", "month"} : FieldFits(e, p, f)
    /\ IF Restricts(e, "day") /\ Restricts(e, "dayOfWeek")
       THEN FieldFits(e, p, "day") \/ FieldFits(e, p, "dayOfWeek")
       ELSE FieldFits(e, p, "day") /\ FieldFits(e, p, "dayOfWeek")

\* Reference: an instant is due if the calendar says so, whatever came before it.
Due(t) ==
    CASE job.kind = "at" -> t = ParseAbsoluteTimestamp(job.at)
      [] job.kind = "interval" -> t >= job.anchor /\ (t - job.anchor) % job.every = 0
      [] OTHER -> t % Ticks = 0 /\ WallClockFits(job.fields, ZonedParts(zone, t))

\* A job takes every instant that is due after its creation and no other: no
\* occurrence is taken twice or left out, a minute that the clock skips is not
\* made up for and one that it repeats counts twice, whichever occurrence the
\* computation starts from.
OccursWhenDue ==
    jobState \in {"armed", "stuck", "ended"} =>
        LET end == IF jobState = "ended" THEN Horizon ELSE cursor
        IN  occurred = {t \in start + 1 .. end - 1 : Due(t)}

\* A job is refused only if it is malformed or nothing of it lies ahead.
RefusedHasNoFuture ==
    (jobState = "refused" /\ ValidSchedule(job)) =>
        \A t \in start + 1 .. start + SearchLimit * Ticks : t <= MaxSafe => ~Due(t)

\* The next occurrence is the first instant that the definition names, and a
\* definition is refused only when it names none within the search.
SchedulesAgree == ScheduleTypeOK /\ OccursWhenDue /\ RefusedHasNoFuture
=============================================================================
