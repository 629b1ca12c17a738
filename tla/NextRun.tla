------------------------------- MODULE NextRun -------------------------------
(***************************************************************************)
(* compute_next_run_at of app/scheduling.py: the search for the next       *)
(* occurrence, over local dates and local wall-clock times, whose answer   *)
(* is stored as an instant.  Where the clocks change, wall-clock time is   *)
(* neither monotone nor one to one, and that is what this module is about. *)
(*                                                                         *)
(* An instant counts units since the epoch; a wall-clock time counts the   *)
(* same units since the first local midnight.  datetime compares and adds  *)
(* wall-clock times when both sides have the same tzinfo, as they do here  *)
(* (ZoneInfo objects are cached per key).                                  *)
(*                                                                         *)
(* The schedule is stored at some instant and settled by the loop again    *)
(* and again, each time at or after its next_run_at.                       *)
(***************************************************************************)
EXTENDS Integers, FiniteSets, FiniteSetsExt

CONSTANTS
    DayLength,      \* units per day of 24 hours
    WeekLength,     \* days of a week
    YearDay,        \* [date -> its place (month, day) in the year]
    LeapDay,        \* the place in the year that only some years have
    LongestYear,    \* days of a leap year
    SunTime,        \* [date -> instant of the sun event, within the UTC day]
    ClockChanges,   \* zones: [change |-> instant, before |-> o, after |-> o]
    Inputs,         \* schedules a client may store
    MaxTime,        \* bound: instants looked at
    MaxLate,        \* bound: how late the loop settles an occurrence
    NULL

Dates == DOMAIN YearDay
Weekdays == 0..(WeekLength - 1)

\* sun: sunrise or sunset, at is an offset; otherwise at is the time of day.
Trigger ==
    [sun : BOOLEAN, at : Int, days : SUBSET Weekdays,
     start_date : Dates \cup {NULL}, end_date : Dates \cup {NULL},
     repeat_annually : BOOLEAN]

\* ScheduleBase.validate_trigger_fields, and the ranges of its fields.
Valid(s) ==
    /\ IF s.sun THEN 2 * s.at \in -DayLength..DayLength ELSE s.at \in 0..(DayLength - 1)
    /\ IF s.repeat_annually
       THEN s.start_date # NULL /\ s.end_date # NULL
       ELSE (s.start_date # NULL /\ s.end_date # NULL) => s.start_date <= s.end_date

ASSUME CalendarAssumption ==
    /\ DayLength \in Nat \ {0} /\ WeekLength \in Nat \ {0} /\ LongestYear \in Nat
    /\ MaxTime \in Nat /\ MaxLate \in Nat
    /\ Dates \subseteq Nat /\ Dates = 0..(Cardinality(Dates) - 1)
    /\ YearDay \in [Dates -> 1..LongestYear]
    /\ \A d \in Dates : SunTime[d] \in 0..(DayLength - 1)
    /\ NULL \notin Nat
\* The day after has the next place in the year; most years skip the leap day.
Follows(p, q) ==
    \/ q = p + 1
    \/ p + 1 = LeapDay /\ q = p + 2
    \/ p = LongestYear /\ q = 1
ASSUME YearAssumption ==
    /\ LeapDay \in 2..(LongestYear - 1)
    /\ \A d \in Dates : d + 1 \in Dates => Follows(YearDay[d], YearDay[d + 1])
ASSUME InputAssumption ==
    /\ Inputs \subseteq Trigger /\ \A s \in Inputs : Valid(s)
    /\ ClockChanges \subseteq [change : Nat, before : Nat, after : Nat]
    /\ \A z \in ClockChanges : z.before <= z.change + z.after  \* the epoch is before it
\* astral returns the event of the local date it is asked for.
ASSUME SunAssumption ==
    \A d \in Dates, z \in ClockChanges :
        SunTime[d] + z.before < DayLength /\ SunTime[d] + z.after < DayLength

\* Mutants: the lookahead is a week; a year.
LookaheadOfAWeek == WeekLength
AnnualLookaheadOfAYear == LongestYear

_LOOKAHEAD_DAYS == WeekLength + 1
_ANNUAL_LOOKAHEAD_DAYS == LongestYear + _LOOKAHEAD_DAYS

VARIABLES
    zone,           \* the zone of settings.timezone
    schedule,       \* the trigger fields of the row
    now,            \* utcnow() of the last computation
    next_run_at     \* and its result

vars == <<zone, schedule, now, next_run_at>>

----------------------------------------------------------------------------
(* Zones: ZoneInfo and datetime.astimezone                                 *)

\* utc.astimezone(tz), as a wall-clock time.
Wall(z, t) == t + (IF t < z.change THEN z.before ELSE z.after)

\* local.astimezone(UTC) with fold = 0, which combine() and + produce: the
\* first pass of a repeated hour, and the old offset within a skipped one.
InstantOf(z, w) ==
    IF w < z.change + Max({z.before, z.after}) THEN w - z.before ELSE w - z.after

Date(w) == w \div DayLength

----------------------------------------------------------------------------
_in_annual_window(d, s) ==
    LET from == YearDay[s.start_date]
        to   == YearDay[s.end_date]
    IN  IF from <= to THEN from <= YearDay[d] /\ YearDay[d] <= to
        ELSE from <= YearDay[d] \/ YearDay[d] <= to

\* candidate_local
Candidate(s, z, d) ==
    IF s.sun THEN Wall(z, d * DayLength + SunTime[d]) + s.at ELSE d * DayLength + s.at

\* Mutant: what is past today is over.
SearchFromTomorrow(s, z, t) ==
    LET tomorrow == Date(Wall(z, t)) + 1 IN
    IF ~s.repeat_annually /\ s.start_date # NULL /\ s.start_date > tomorrow
    THEN s.start_date ELSE tomorrow

SearchStart(s, z, t) ==
    LET today == Date(Wall(z, t)) IN
    IF ~s.repeat_annually /\ s.start_date # NULL /\ s.start_date > today
    THEN s.start_date ELSE today

SearchEnd(s, z, t) ==
    CASE s.repeat_annually -> SearchStart(s, z, t) + _ANNUAL_LOOKAHEAD_DAYS
      [] ~s.repeat_annually /\ s.end_date # NULL -> s.end_date
      [] OTHER -> SearchStart(s, z, t) + _LOOKAHEAD_DAYS

\* Every date the search looks at is in the calendar.
ASSUME ReachAssumption ==
    \A s \in Inputs, z \in ClockChanges, t \in 0..MaxTime :
        SearchStart(s, z, t)..SearchEnd(s, z, t) \subseteq Dates

Hit(s, z, t, d) ==
    /\ s.repeat_annually => _in_annual_window(d, s)
    /\ d % WeekLength \in s.days
    /\ Candidate(s, z, d) > Wall(z, t)

compute_next_run_at(s, z, t) ==
    LET hits == {d \in SearchStart(s, z, t)..SearchEnd(s, z, t) : Hit(s, z, t, d)}
    IN  IF hits = {} THEN NULL ELSE InstantOf(z, Candidate(s, z, Min(hits)))

----------------------------------------------------------------------------
\* create_schedule, or an update of a trigger field.
Init ==
    /\ zone \in ClockChanges /\ schedule \in Inputs /\ now \in 0..MaxTime
    /\ next_run_at = compute_next_run_at(schedule, zone, now)

\* Mutant: the local time instead of utcnow().
SettleLocal(t) ==
    /\ next_run_at # NULL
    /\ t > now /\ t >= next_run_at /\ t <= Max({now, next_run_at}) + MaxLate
    /\ now' = Wall(zone, t)
    /\ next_run_at' = compute_next_run_at(schedule, zone, Wall(zone, t))
    /\ UNCHANGED <<zone, schedule>>

\* _advance, at the first poll at or after next_run_at, or late.
Settle(t) ==
    /\ next_run_at # NULL
    /\ t > now /\ t >= next_run_at /\ t <= Max({now, next_run_at}) + MaxLate
    /\ now' = t
    /\ next_run_at' = compute_next_run_at(schedule, zone, t)
    /\ UNCHANGED <<zone, schedule>>

Next == \E t \in 0..MaxTime : Settle(t)

Spec == Init /\ [][Next]_vars

----------------------------------------------------------------------------
(***************************************************************************)
(* Reference: every date the schedule asks for, whatever the search does.  *)
(***************************************************************************)

\* The places of the year from one to another, walking forward.
Window(from, to) ==
    {p \in 1..LongestYear : IF from <= to THEN p \in from..to ELSE p \notin (to + 1)..(from - 1)}

Wanted(s) ==
    {d \in Dates :
        /\ d % WeekLength \in s.days
        /\ IF s.repeat_annually
           THEN YearDay[d] \in Window(YearDay[s.start_date], YearDay[s.end_date])
           ELSE /\ s.start_date # NULL => d >= s.start_date
                /\ s.end_date # NULL => d <= s.end_date}

Occurs(d) == InstantOf(zone, Candidate(schedule, zone, d))

\* Where the clock is set back it shows an hour twice, before and after.
FirstPass == (zone.change - (zone.before - zone.after))..(zone.change - 1)
SecondPass == zone.change..(zone.change + (zone.before - zone.after) - 1)

TypeOK ==
    /\ zone \in ClockChanges /\ schedule \in Inputs /\ now \in 0..MaxTime
    /\ next_run_at \in Nat \cup {NULL}

\* A date the search may not see: its offset put it after midnight, its hour
\* was skipped and the clock already shows a later one, or the annual search
\* ends before it.
OutOfSight(d) ==
    \/ d < Date(Wall(zone, now))
    \/ Candidate(schedule, zone, d) <= Wall(zone, now)
    \/ schedule.repeat_annually /\ d > Date(Wall(zone, now)) + _ANNUAL_LOOKAHEAD_DAYS

\* The answer is a time the schedule asks for and strictly after now (only
\* while the clock shows an hour for the second time may it be in the first, see
\* StrictlyAfterNow), and no occurrence in sight is passed over: not at the end
\* of the lookahead, of the date range or of the year, nor where a negative
\* offset moves it to the day before.
NextIsFirstAhead ==
    /\ next_run_at # NULL =>
          /\ \E d \in Wanted(schedule) : next_run_at = Occurs(d)
          /\ next_run_at > now \/ (now \in SecondPass /\ next_run_at \in FirstPass)
    /\ \A d \in Wanted(schedule) :
          Occurs(d) > now /\ ~OutOfSight(d)
              => next_run_at # NULL /\ next_run_at <= Occurs(d)

\* The docstring of compute_next_run_at (scheduling.py:63-64): the answer is
\* strictly after now_utc.  In the second pass of a repeated hour it is not.
StrictlyAfterNow == next_run_at # NULL => next_run_at > now

\* An annual schedule whose window has every day of the week never ends, as
\* the comment on _ANNUAL_LOOKAHEAD_DAYS (scheduling.py:23-25) intends.
AnnualNeverEnds ==
    /\ schedule.repeat_annually /\ schedule.days # {}
    /\ Cardinality(Window(YearDay[schedule.start_date], YearDay[schedule.end_date]) \ {LeapDay})
          >= WeekLength
    => next_run_at # NULL

\* A loop that settles on time loses nothing at all and never goes back, in
\* any zone and for any offset, while the dates wanted are within reach.
OnTimeLosesNothing ==
    [][(now' = next_run_at /\ now < next_run_at) =>
          /\ next_run_at' # NULL => next_run_at' > now'
          /\ \A d \in Wanted(schedule) :
                /\ Occurs(d) > now'
                /\ next_run_at' = NULL \/ Occurs(d) < next_run_at'
                => /\ schedule.repeat_annually
                   /\ d > Date(Wall(zone, now')) + _ANNUAL_LOOKAHEAD_DAYS]_vars

=============================================================================
