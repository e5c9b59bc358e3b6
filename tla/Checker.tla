------------------------------ MODULE Checker ------------------------------
(***************************************************************************)
(* The checker's summary of a day of polling (src/checker/collection.py,   *)
(* called by collection_day of src/checker/handler.py), read over the      *)
(* audit trail the collector leaves.  The day is all the time the model    *)
(* has: how a day's rows are cut from two UTC partitions is DayCycle's.    *)
(* A minute of the clock is as long as Period.  Byte counts and timings    *)
(* are left out: nothing is decided by them.                               *)
(***************************************************************************)
EXTENDS Collector, FiniteSetsExt

CONSTANTS
  Phase,       \* how far into a clock minute EventBridge fires
  FaceMinutes  \* minutes on the clock's face, after which HH:MM repeats

ASSUME CheckerAssumption == Phase \in 0..(Period - 1) /\ FaceMinutes \in Nat \ {0}

Recorded == {i \in Invocations : trail[i] # NoRecord}
Kept     == Recorded \X Polls

(* An audit row.  The collector's record of a failed fetch has a status    *)
(* only when the server answered, and a 200 may carry no Date header.      *)
Row(k, refused, undated) ==
  LET e == trail[k[1]][k[2]]
      answered == e.error \in {"none", "storage"} IN
  [feed    |-> Schedule[k[2]].feed,
   fetched |-> e.fetched,
   error   |-> e.error,
   status  |-> IF answered THEN "200" ELSE IF k \in refused THEN "other" ELSE "None",
   dated   |-> answered /\ k \notin undated]

Rows(refused, undated) == [k \in Kept |-> Row(k, refused, undated)]

Which(error)   == {k \in Kept : trail[k[1]][k[2]].error \in error}
FailedFetches  == Which({"fetch"})
Answers        == Which({"none", "storage"})

-----------------------------------------------------------------------------
(* What went wrong with each row, the most specific kind first.            *)

FailureCategory(row) ==
  IF row.error = "crash" THEN "crashed"
  ELSE IF row.error # "none" /\ row.status = "None" THEN "transport_error"
  ELSE IF row.status \notin {"None", "200"} THEN "non_200"
  ELSE IF ~row.dated THEN "null_server_date"
  ELSE "ok"

FailureSummary(rows) == {k \in DOMAIN rows : FailureCategory(rows[k]) # "ok"}

StatusKey(row) ==
  IF FailureCategory(row) \in {"crashed", "transport_error"}
  THEN FailureCategory(row)
  ELSE row.status

StatusCounts(rows) ==
  [f \in Feeds, key \in {"crashed", "transport_error", "other", "200"} |->
     Cardinality({k \in DOMAIN rows :
                    rows[k].feed = f /\ StatusKey(rows[k]) = key})]

-----------------------------------------------------------------------------
(* Coverage, minute by minute.                                             *)

Expected(f) == Cardinality({p \in Polls : Schedule[p].feed = f})

MinuteAt(t) == (t + Phase) \div Period     \* a minute of the day
Label(m)    == m % FaceMinutes             \* HH:MM

CollectionWindow(rows) ==
  LET at == {rows[k].fetched : k \in DOMAIN rows} IN
  [start |-> Min(at), end |-> Max(at), minutes |-> (Max(at) - Min(at)) \div Period + 1]

MinuteLabels(window) ==
  {Label(MinuteAt(window.start) + offset) : offset \in 0..(window.minutes - 1)}

\* Mutant: a row counts whatever error it carries.
CoveringAll(rows) == {k \in DOMAIN rows : rows[k].feed = "vehiclepos"}

Covering(rows) ==
  {k \in DOMAIN rows : rows[k].feed = "vehiclepos" /\ rows[k].error = "none"}

PerMinute(rows, label) ==
  Cardinality({k \in Covering(rows) : Label(MinuteAt(rows[k].fetched)) = label})

\* Mutant: a minute with just enough polls is short.
GapsAtMost(rows) ==
  IF DOMAIN rows = {} THEN {}
  ELSE {label \in MinuteLabels(CollectionWindow(rows)) :
          PerMinute(rows, label) <= Expected("vehiclepos")}

Gaps(rows) ==
  IF DOMAIN rows = {} THEN {}
  ELSE {label \in MinuteLabels(CollectionWindow(rows)) :
          PerMinute(rows, label) < Expected("vehiclepos")}

\* Mutant: what is expected is a whole day's.
FeedCountsOfTheDay(rows) ==
  [f \in Feeds |->
     [actual   |-> Cardinality({k \in DOMAIN rows : rows[k].feed = f}),
      expected |-> FaceMinutes * Expected(f)]]

FeedCounts(rows) ==
  LET minutes == IF DOMAIN rows = {} THEN FaceMinutes
                 ELSE CollectionWindow(rows).minutes IN
  [f \in Feeds |->
     [actual   |-> Cardinality({k \in DOMAIN rows : rows[k].feed = f}),
      expected |-> minutes * Expected(f)]]

SummarizeDay(rows) ==
  [feed_counts   |-> FeedCounts(rows),
   status_counts |-> StatusCounts(rows),
   failures      |-> FailureSummary(rows),
   coverage      |-> Gaps(rows)]

-----------------------------------------------------------------------------
(* Properties.                                                             *)

DayRows == Rows({}, {})

Vehicles == {p \in Polls : Schedule[p].feed = "vehiclepos"}

(* The vehicle polls of the m-th minute that got an answer and, if it had  *)
(* a body, have it in the bucket.                                          *)
HeldIn(m) ==
  {k \in Recorded \X Vehicles :
     LET e == trail[k[1]][k[2]] IN
     /\ MinuteAt(e.fetched) = m
     /\ e.error = "none"
     /\ e.body => raw[<<"vehiclepos", e.fetched>>] # Nobody}

(* A minute of the observed window that is not put down as short has every *)
(* vehicle poll it should, each with what it fetched in the bucket: a      *)
(* crash, a failed fetch or a failed store never passes for coverage.  The *)
(* last minute of the window is not always looked at                       *)
(* (_coverage_summary, _minute_labels).                                    *)
LossShows ==
  Kept # {} =>
    LET window == CollectionWindow(DayRows) IN
    \A m \in MinuteAt(window.start)..(MinuteAt(window.end) - 1) :
      Label(m) \in Gaps(DayRows) \/ Cardinality(HeldIn(m)) >= Expected("vehiclepos")

(* The vehicle polls due in a minute, by the rate and the offsets.         *)
DueIn(m) ==
  {k \in Invocations \X Vehicles :
     MinuteAt(Period * k[1] + Schedule[k[2]].offset) = m}

(* A minute is never put down as short when every poll due in it, those of *)
(* two invocations where they meet inside the minute, was made in it and   *)
(* kept (_coverage_summary, _minute_labels).                               *)
GapsAreReal ==
  \A m \in 0..MinuteAt(Horizon) :
    /\ Cardinality(DueIn(m)) = Expected("vehiclepos")
    /\ \A k \in DueIn(m) : k[1] \in Recorded /\ k \in HeldIn(m)
    => Label(m) \notin Gaps(DayRows)

(* When every invocation up to some minute left its record at the first    *)
(* attempt, a feed's expected polls differ from its actual ones by no more *)
(* than those of the minutes an invocation may live: the part of a day     *)
(* that was collected is not misread as loss, however late and however     *)
(* crashed its polls were (_feed_counts, _collection_window).              *)
ExpectedIsNear ==
  Recorded # {} /\ Recorded = 0..Max(Recorded) /\ (\A i \in Recorded : attempt[i] = 1)
  => \A f \in Feeds :
       LET count == FeedCounts(DayRows)[f]
           slack == Expected(f) * (Timeout \div Period) IN
       /\ count.expected - count.actual <= slack
       /\ count.actual - count.expected <= slack

(* A poll whose payload was lost shows in the day's report: among the      *)
(* failures, under a status other than 200, or as a short minute           *)
(* (FailureSummary's docstring: "rows that indicate a lost poll").         *)
LostIsReported ==
  \A refused \in SUBSET FailedFetches, undated \in SUBSET Answers :
    LET rows == Rows(refused, undated)
        report == SummarizeDay(rows) IN
    \A k \in Kept :
      rows[k].error # "none" =>
        \/ k \in report.failures
        \/ StatusKey(rows[k]) # "200"
        \/ /\ rows[k].feed = "vehiclepos"
           /\ Label(MinuteAt(rows[k].fetched)) \in report.coverage

=============================================================================
