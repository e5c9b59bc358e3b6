------------------------------ MODULE DayCycle ------------------------------
(***************************************************************************)
(* The pipeline by the clock, over the days around a change of Sydney's    *)
(* offset: the compactor every UTC hour, the merger at 08:00 in Sydney for *)
(* the day before, the schedule loader at noon in Sydney (template.yaml),  *)
(* replay.py by hand, and what the checker would report of each day at any *)
(* moment (src/checker/rows.py, src/checker/curation.py).                  *)
(*                                                                         *)
(* The clock counts UTC hours.  A job that is due runs or fails, retries   *)
(* included, before the hour is out; what happens inside a run, and what   *)
(* expires, is Pipeline's matter.  The collector polls all the time, so    *)
(* its rows need no action: each is on disk once its hours have passed.    *)
(***************************************************************************)
EXTENDS ServiceDay, FiniteSets

CONSTANTS
  Start, End,   \* bound: the UTC hours modelled
  Changes,      \* bound: what Sydney may do, some of Zones
  Timetables,   \* bound: the trips the timetable may have
  Days,         \* the Sydney days merged and reported on
  Trips,        \* trips: [day, first, ride], in GTFS hours
  Ahead,        \* hours before its departure the feed may list a trip
  Polled,       \* the UTC hours whose audit rows are followed
  Fragile,      \* the UTC hours whose scheduled compaction may fail
  ByHand,       \* the UTC hours at which an operator works
  MaxFailures   \* bound: jobs that fail

Hours == Start..End

(* A row's object is filed under the date of its run's first row, which    *)
(* may be a little before or after the row's own fetch.                    *)
Rows == {<<u + k, u>> : u \in Polled, k \in {-1, 0, 1}}

ASSUME DayCycleAssumption ==
  /\ Start \in Int /\ End \in Int /\ Start <= End
  /\ Changes \subseteq Zones
  /\ Timetables \subseteq SUBSET Trips
  /\ Days \subseteq Int
  \* No bus rides for four hours, and no hour past 30 is timetabled.
  /\ Trips \subseteq [day : Int, first : 0..30, ride : 0..3]
  /\ \A t \in Trips : t.first + t.ride <= 30
  /\ \A z \in Changes, d \in Days : Start <= Opens(z, d)
  /\ Ahead \in Nat
  /\ Polled \subseteq Int
  /\ Fragile \subseteq Hours /\ ByHand \subseteq Hours
  /\ MaxFailures \in Nat

VARIABLES
  zone,      \* what Sydney does; it does not change
  known,     \* the trips the timetable has; it does not change
  now,       \* the UTC hour
  due,       \* the jobs due this hour that have not run
  failures,  \* jobs that failed
  ran,       \* hour -> when its compactions on record began
  checks,    \* when the loader's checks on record were made
  merges,    \* day -> when its merges on record began
  whole,     \* day -> did the last merge find every partial of its window
  fact,      \* day -> the <<trip, hour>> rows of its trip facts
  polled     \* day -> the rows of its fact_collector_run

vars == <<zone, known, now, due, failures, ran, checks, merges, whole, fact,
          polled>>

NotMerged == {<<>>}

TypeOK ==
  /\ zone \in Zones
  /\ known \subseteq Trips
  /\ now \in Hours
  /\ due \subseteq {"compactor", "merger", "loader"}
  /\ failures \in 0..MaxFailures
  /\ ran \in [Hours -> SUBSET Hours]
  /\ checks \subseteq Hours
  /\ merges \in [Days -> SUBSET Hours]
  /\ whole \in [Days -> BOOLEAN]
  /\ fact \in [Days -> (SUBSET (Trips \X Hours)) \union {NotMerged}]
  /\ polled \in [Days -> (SUBSET Rows) \union {NotMerged}]

\* Mutant: the merger runs at 04:00.
JobsAtFour(u) ==
  {"compactor"}
    \union (IF Wall(zone, u) % 24 = 4 THEN {"merger"} ELSE {})
    \union (IF Wall(zone, u) % 24 = 12 THEN {"loader"} ELSE {})

JobsAt(u) ==
  {"compactor"}
    \union (IF Wall(zone, u) % 24 = 8 THEN {"merger"} ELSE {})
    \union (IF Wall(zone, u) % 24 = 12 THEN {"loader"} ELSE {})

Init ==
  /\ zone \in Changes
  /\ known \in Timetables
  /\ now = Start
  /\ due = {}
  /\ failures = 0
  /\ ran = [h \in Hours |-> {}]
  /\ checks = {}
  /\ merges = [d \in Days |-> {}]
  /\ whole = [d \in Days |-> FALSE]
  /\ fact = [d \in Days |-> NotMerged]
  /\ polled = [d \in Days |-> NotMerged]

-----------------------------------------------------------------------------
Tick ==
  /\ now < End
  /\ due = {}
  /\ now' = now + 1
  /\ due' = JobsAt(now + 1)
  /\ UNCHANGED <<zone, known, failures, ran, checks, merges, whole, fact,
                 polled>>

Done(job) == job \in due /\ due' = due \ {job}

JobFails(job) ==
  /\ Done(job)
  /\ job = "compactor" => now - 1 \in Fragile
  /\ failures < MaxFailures
  /\ failures' = failures + 1
  /\ UNCHANGED <<zone, known, now, ran, checks, merges, whole, fact, polled>>

(* target_hour is the hour before; its record is filed by when the run     *)
(* began.                                                                  *)
Compact ==
  /\ Done("compactor")
  /\ ran' = [ran EXCEPT ![now - 1] = @ \union {now}]
  /\ UNCHANGED <<zone, known, now, failures, checks, merges, whole, fact,
                 polled>>

\* Mutant: the time on the record is the wall clock's.
CheckOnTheWall ==
  /\ Done("loader")
  /\ checks' = checks \union {Wall(zone, now)}
  /\ UNCHANGED <<zone, known, now, failures, ran, merges, whole, fact, polled>>

(* The loader puts a check record each time it runs through.               *)
Check ==
  /\ Done("loader")
  /\ checks' = checks \union {now}
  /\ UNCHANGED <<zone, known, now, failures, ran, merges, whole, fact, polled>>

-----------------------------------------------------------------------------
(* The merger.                                                             *)

(* A trip's rows: it is listed ahead of its departure, and the feed keeps  *)
(* it an unchanged interval from there (scheduled_instant's notes).        *)
Departs(t) == ScheduledInstant(zone, t.day, t.first)
Served(t)  == Departs(t)..(Departs(t) + t.ride)
Listed(t)  == (Departs(t) - Ahead)..(Departs(t) + t.ride)

(* The feed's start_date: the next date for a trip first timetabled at     *)
(* 24:00 or later.                                                         *)
Label(t) == IF t.first >= 24 THEN t.day + 1 ELSE t.day

DateOfTrip(t) == DerivedDate(Label(t), t.first, t \in known)

Compacted(runs) == {h \in Hours : runs[h] # {}}

\* Mutant: every row with one of the two start dates is taken.
TripRowsOfLabels(d, partials) ==
  {x \in Trips \X {h \in partials : DateOf(h) \in PartitionBounds(zone, d)} :
     Label(x[1]) \in Labels(d) /\ x[2] \in Listed(x[1])}

(* partial_paths and service_day_partials: the partials in the bounds, and *)
(* of their rows those of the day.                                         *)
TripRows(d, partials) ==
  {x \in Trips \X {h \in partials : DateOf(h) \in PartitionBounds(zone, d)} :
     /\ Label(x[1]) \in Labels(d)
     /\ DateOfTrip(x[1]) = d
     /\ x[2] \in Listed(x[1])}

OnDisk(r) == r[1] < now /\ r[2] < now

(* source_day_globs and collector_run_query.                               *)
CollectorRun(d) ==
  {r \in Rows :
     /\ OnDisk(r)
     /\ DateOf(r[1]) \in SourceDayGlobs(d)
     /\ InDay(zone, d, r[2])}

(* handler: refused with no partial in the window (require_partials),      *)
(* otherwise the audit rows, the tables and the record.                    *)
Assemble(d, partials) ==
  /\ d \in Days
  /\ ExpectedHours(zone, d) \intersect partials # {}
  /\ polled' = [polled EXCEPT ![d] = CollectorRun(d)]
  /\ fact' = [fact EXCEPT ![d] = TripRows(d, partials)]
  /\ whole' = [whole EXCEPT ![d] = ExpectedHours(zone, d) \subseteq partials]
  /\ merges' = [merges EXCEPT ![d] = @ \union {now}]

Merge ==
  /\ Done("merger")
  /\ Assemble(Yesterday(zone, now), Compacted(ran))
  /\ UNCHANGED <<zone, known, now, failures, ran, checks>>

(* A day that is not modelled, or that is refused.                         *)
MergeNothing ==
  /\ Done("merger")
  /\ LET d == Yesterday(zone, now)
     IN  d \in Days => ExpectedHours(zone, d) \intersect Compacted(ran) = {}
  /\ UNCHANGED <<zone, known, now, failures, ran, checks, merges, whole, fact,
                 polled>>

-----------------------------------------------------------------------------
(* By hand: the compactor for one hour, and replay.py for one day.         *)

Backfill(h) ==
  /\ now \in ByHand
  /\ h \in Fragile /\ h < now
  /\ ran' = [ran EXCEPT ![h] = @ \union {now}]
  /\ UNCHANGED <<zone, known, now, due, failures, checks, merges, whole, fact,
                 polled>>

(* Every hour of the day's window that has raw objects, then the day, and  *)
(* only if its window has closed (hours_to_compact).                       *)
Replay(d) ==
  /\ now \in ByHand
  /\ d \in Days /\ d <= LastCompleteDay(zone, now)
  /\ ran' = [h \in Hours |->
               IF h \in ExpectedHours(zone, d) /\ h < now
               THEN ran[h] \union {now} ELSE ran[h]]
  /\ Assemble(d, Compacted(ran'))
  /\ UNCHANGED <<zone, known, now, due, failures, checks>>

(* Past the end nothing is modelled.                                       *)
Rest == now = End /\ due = {} /\ UNCHANGED vars

Next ==
  \/ Tick
  \/ \E job \in {"compactor", "merger", "loader"} : JobFails(job)
  \/ Compact \/ Check \/ Merge \/ MergeNothing
  \/ \E h \in Fragile : Backfill(h)
  \/ \E d \in Days : Replay(d)
  \/ Rest

Spec == Init /\ [][Next]_vars

-----------------------------------------------------------------------------
(* The checker's view of a day.                                            *)

(* CollectorRunRepository.fetch_day: the fact if there is one, otherwise   *)
(* the collector's own records.                                            *)
FetchDay(d) == IF polled[d] # NotMerged THEN polled[d] ELSE CollectorRun(d)

(* The records CurationRepository reads for a day, and summarize_job.      *)
SeenIn(d, times) == {t \in times : DateOf(t) \in DayGlobs(d)}
Missing(d) ==
  {h \in ExpectedHourPartitions(zone, d) \intersect Hours : SeenIn(d, ran[h]) = {}}
MergeSeen(d) == SeenIn(d, merges[d]) # {}

(* _checks and _check_day.                                                 *)
ChecksSeen(d) == {t \in SeenIn(d, checks) : ServiceDateFor(zone, t) = d}

-----------------------------------------------------------------------------
(* Properties.                                                             *)

OneDay(days) == \E d \in Days : days = {d}

(* Every poll on disk is reported in one day and no other, whichever of    *)
(* the two stores each day is read from, however many days are merged yet, *)
(* and whatever date its record was filed under (CollectorRunRepository,   *)
(* merge_collector_run; "a poll either falls in the day or does not;       *)
(* nothing is lost at the seam", checker/handler.py).                      *)
PolledOnce ==
  \A r \in Rows :
    OnDisk(r) /\ ServiceDateFor(zone, r[2]) \in Days =>
      OneDay({d \in Days : r \in FetchDay(d)})

(* No trip has rows in the facts of two days, though a merge takes in two  *)
(* start dates, and its partials overlap with the next day's               *)
(* (service_day_partials, partition_bounds).                               *)
EachTripOnce ==
  \A t \in Trips, d, e \in Days :
    /\ \E h \in Hours : <<t, h>> \in fact[d]
    /\ \E h \in Hours : <<t, h>> \in fact[e]
    => d = e

(* A merge that found every partial of its window has each of the day's    *)
(* trips from its departure to its last hour, GTFS hour 30 included and    *)
(* the clocks changing under it (merge_window, count_partial_coverage).    *)
WholeWhenCovered ==
  \A d \in Days, t \in Trips :
    whole[d] /\ DateOfTrip(t) = d => {t} \X Served(t) \subseteq fact[d]

(* When every hour of its window was compacted on schedule, no merge of a  *)
(* day reports it short: the merger and replay.py both come after the      *)
(* window has closed and its last hour been compacted (target_service_date,*)
(* last_complete_day; "reported a short day every night", template.yaml).  *)
NoFalseShort ==
  \A d \in Days :
    /\ merges[d] # {}
    /\ \A h \in ExpectedHours(zone, d) \intersect Hours : h + 1 \in ran[h]
    => whole[d]

(* An hour that is never compacted is reported missing on one day, and no  *)
(* other; and a check is counted on one day (expected_hour_partitions,     *)
(* _check_day).                                                            *)
MissedOnce ==
  /\ \A h \in Hours :
       ran[h] = {} /\ ServiceDateFor(zone, h) \in Days =>
         OneDay({d \in Days : h \in Missing(d)})
  /\ \A t \in checks :
       ServiceDateFor(zone, t) \in Days =>
         OneDay({d \in Days : t \in ChecksSeen(d)})

(* Nothing that was done within a day of its hour, or in the day after its *)
(* day, is reported as not done: no phantom hour on a day of 23 or 25, no  *)
(* record filed where the report does not look (hours_in_day, day_globs).  *)
NoPhantom ==
  \A d \in Days :
    /\ \A h \in Missing(d) : \A t \in ran[h] : t > h + 24
    /\ \A t \in merges[d] : t < Midnight(zone, d + 1) + 24 => MergeSeen(d)
=============================================================================
