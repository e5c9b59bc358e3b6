----------------------------- MODULE ServiceDay -----------------------------
(***************************************************************************)
(* Days in Sydney and hours in UTC (src/common/service_day.py, and the     *)
(* places that count in them: the merger, the checker and replay.py).      *)
(*                                                                         *)
(* Both clocks are counted in hours.  A UTC hour is an integer, and so is  *)
(* a reading of Sydney's wall clock; date d begins at 24 * d on either.    *)
(* A zone is what Sydney does around one change of its offset.             *)
(***************************************************************************)
EXTENDS Integers

(* What the zone database says: ten hours ahead, eleven in summer, and a   *)
(* change at 02:00 standard time, which is 16:00 UTC.                      *)
Zones ==
  {z \in [before : {10, 11}, after : {10, 11}, shift : Int] :
     z.shift % 24 = 16}

(* .astimezone(SYDNEY): an instant is read off the wall clock.             *)
Wall(z, u) == u + (IF u < z.shift THEN z.before ELSE z.after)

Later(a, b) == IF a < b THEN b ELSE a

(* .astimezone(UTC) of a wall-clock reading.  Readings skipped or repeated *)
(* by the change take the offset from before it, which is what fold = 0    *)
(* means; and adding to a reading adds on the wall clock.                  *)
Instant(z, w) ==
  w - (IF w < z.shift + Later(z.before, z.after) THEN z.before ELSE z.after)

DateOf(u) == u \div 24

(* GTFS hour h of service date d, which may be 24 or more.                 *)
ScheduledInstant(z, d, h) == Instant(z, 24 * d + h)

ServiceDateFor(z, u) == DateOf(Wall(z, u))

(* merge_window, with LEAD_MARGIN and TRAIL_MARGIN: from 23:00 the day     *)
(* before to 07:00 the day after.                                          *)
Lead  == 1
Trail == 7
Opens(z, d)  == Instant(z, 24 * d - Lead)

\* Mutant: the day's end, with no slack for trips that run past midnight.
ClosesAtMidnight(z, d) == Instant(z, 24 * (d + 1))

Closes(z, d) == Instant(z, 24 * (d + 1) + Trail)

ExpectedHours(z, d) == Opens(z, d)..(Closes(z, d) - 1)

(* partition_bounds: whole UTC dates, PARTITION_MARGIN either side.        *)
PartitionBounds(z, d) == DateOf(Opens(z, d) - 24)..DateOf(Closes(z, d) + 24)

(* sydney_day_bounds, and the cut collector_run_query makes.               *)
Midnight(z, d) == Instant(z, 24 * d)

\* Mutant: a day is always 24 hours long.
FixedHoursInDay(z, d) == 24

HoursInDay(z, d) == Midnight(z, d + 1) - Midnight(z, d)

ExpectedHourPartitions(z, d) ==
  Midnight(z, d)..(Midnight(z, d) + HoursInDay(z, d) - 1)

InDay(z, d, u) == Midnight(z, d) <= u /\ u < Midnight(z, d + 1)

\* Mutant: only the date of the same name is listed.
SourceSameDate(d) == {d}

(* source_day_globs: the UTC dates whose collector records are read.       *)
SourceDayGlobs(d) == {d - 1, d}

\* Mutant: the next date, when the day's last hours are recorded, is not.
TwoDayGlobs(d) == {d - 1, d}

(* day_globs: the UTC dates whose curation records are read.               *)
DayGlobs(d) == {d - 1, d, d + 1}

(* target_service_date and target_day, when the event names no day.        *)
Yesterday(z, u) == ServiceDateFor(z, u) - 1

(* last_complete_day counts back to a window that has closed.              *)
LastCompleteDay(z, u) ==
  LET today == ServiceDateFor(z, u)
  IN  CHOOSE d \in (today - 3)..today :
        /\ Closes(z, d) <= u
        /\ \A later \in (d + 1)..today : Closes(z, later) > u

(* service_day_partials: a trip first timetabled at 24:00 or later belongs *)
(* to the day before the feed's start date, if the timetable knows it.     *)
DerivedDate(label, first, known) ==
  IF known /\ first >= 24 THEN label - 1 ELSE label

(* The start dates that a merge of day d lets through before it derives.   *)
Labels(d) == {d, d + 1}
=============================================================================
