--------------------------- MODULE ScheduleLoader ---------------------------
(***************************************************************************)
(* The timetable: the loader that captures the bundle whenever its hash    *)
(* has changed (src/schedule_loader/handler.py), and the choice of the     *)
(* snapshot a day is merged against (src/merger/schedule.py) and analysed  *)
(* by (analysis/marts.sql).                                                *)
(*                                                                         *)
(* A run archives the bundle, puts its eight dimensions one by one and     *)
(* puts its check last.  It may stop between any two of these, be tried    *)
(* again, and overlap a run started by hand.                               *)
(***************************************************************************)
EXTENDS Integers, Sequences, FiniteSetsExt

CONSTANTS
  Loaders,    \* runs that may be under way at once
  Bundles,    \* the contents of the bundle, as their hashes tell them apart
  Corrupt,    \* those that are not a zip
  DayLength,  \* a day of Sydney, in the instants at which runs begin
  Horizon     \* bound: how many runs begin

None == "none"

ASSUME ScheduleLoaderAssumption ==
  /\ {DayLength, Horizon} \subseteq Nat \ {0}
  /\ Corrupt \subseteq Bundles
  /\ None \notin Bundles

VARIABLES
  now,      \* the instant at which the next run begins
  offered,  \* the bundle TfNSW serves
  run,      \* loader -> its run
  archive,  \* label -> the bundle archived under it
  snapshot, \* label -> dimension -> the bundle it was put from
  checks    \* the check records

vars == <<now, offered, run, archive, snapshot, checks>>

\* Mutant: the stop times first, as the largest.
DimensionsLargestFirst ==
  <<"scheduled_stop_time", "agency", "stop", "route", "trip", "shape",
    "calendar", "calendar_dates">>

Dimensions ==
  <<"agency", "stop", "route", "trip", "scheduled_stop_time", "shape",
    "calendar", "calendar_dates">>

NoLabel == -1
Idle == [at |-> "idle", checked |-> 0, bundle |-> None, changed |-> FALSE,
         next |-> 1]

Init ==
  /\ now = 0
  /\ offered \in Bundles
  /\ run = [r \in Loaders |-> Idle]
  /\ archive = <<>>
  /\ snapshot = <<>>
  /\ checks = {}

(* TfNSW regenerates the bundle, or goes back to an earlier one.           *)
Publish(b) ==
  /\ offered' = b
  /\ UNCHANGED <<now, run, archive, snapshot, checks>>

-----------------------------------------------------------------------------
(* handler.                                                                *)

At(r, at) == run[r].at = at

(* No two runs begin in one second.                                        *)
Begin(r) ==
  /\ At(r, "idle")
  /\ now < Horizon
  /\ now' = now + 1
  /\ run' = [run EXCEPT ![r] = [Idle EXCEPT !.at = "fetching", !.checked = now]]
  /\ UNCHANGED <<offered, archive, snapshot, checks>>

Fetch(r) ==
  /\ At(r, "fetching")
  /\ run' = [run EXCEPT ![r].at = "comparing", ![r].bundle = offered]
  /\ UNCHANGED <<now, offered, archive, snapshot, checks>>

\* Mutant: the bundle archived last is taken for the last one captured.
LatestArchived ==
  IF DOMAIN archive = {} THEN None ELSE archive[Max(DOMAIN archive)]

(* latest_sha256: the keys of the checks sort by the time of the check.    *)
Latest ==
  IF checks = {} THEN None
  ELSE (CHOOSE c \in checks : \A d \in checks : d.at <= c.at).bundle

Compare(r) ==
  /\ At(r, "comparing")
  /\ LET changed == run[r].bundle # Latest IN
     run' = [run EXCEPT ![r].changed = changed,
                        ![r].at = IF changed THEN "archiving" ELSE "recording"]
  /\ UNCHANGED <<now, offered, archive, snapshot, checks>>

\* Mutant: a snapshot is named by its day, as it once was.
LabelByDay(r) == DayLength * (run[r].checked \div DayLength)

Label(r) == run[r].checked

ArchiveBundle(r) ==
  /\ At(r, "archiving")
  /\ archive' = [l \in DOMAIN archive \union {Label(r)} |->
                   IF l = Label(r) THEN run[r].bundle ELSE archive[l]]
  /\ run' = [run EXCEPT ![r].at = "writing"]
  /\ UNCHANGED <<now, offered, snapshot, checks>>

DimensionsAt(l) == IF l \in DOMAIN snapshot THEN snapshot[l] ELSE <<>>

\* What the snapshot holds once one more dimension of it is put.
WithDimension(l, dim, b) ==
  [d \in DOMAIN DimensionsAt(l) \union {dim} |->
     IF d = dim THEN b ELSE snapshot[l][d]]

Put(r) ==
  /\ At(r, "writing")
  /\ run[r].bundle \notin Corrupt
  /\ snapshot' = [l \in DOMAIN snapshot \union {Label(r)} |->
       IF l = Label(r)
       THEN WithDimension(l, Dimensions[run[r].next], run[r].bundle)
       ELSE snapshot[l]]
  /\ UNCHANGED <<now, offered, archive, checks>>

\* Mutant: the loop runs one past the last dimension.
WritePast(r) ==
  /\ Put(r)
  /\ run' = [run EXCEPT ![r] =
       IF run[r].next > Len(Dimensions)
       THEN [run[r] EXCEPT !.at = "recording"]
       ELSE [run[r] EXCEPT !.next = run[r].next + 1]]

(* The next dimension of write_dimensions.                                 *)
WriteDimension(r) ==
  /\ Put(r)
  /\ run' = [run EXCEPT ![r] =
       IF run[r].next = Len(Dimensions)
       THEN [run[r] EXCEPT !.at = "recording"]
       ELSE [run[r] EXCEPT !.next = run[r].next + 1]]

PutCheck(r) ==
  /\ At(r, "recording")
  /\ checks' = checks \union
       {[at |-> run[r].checked, bundle |-> run[r].bundle,
         changed |-> run[r].changed,
         label |-> IF run[r].changed THEN Label(r) ELSE NoLabel]}
  /\ run' = [run EXCEPT ![r] = Idle]
  /\ UNCHANGED <<now, offered, archive, snapshot>>

(* A fetch refused, a bundle that is not a zip, a put that failed, the     *)
(* timeout.                                                                *)
Fail(r) ==
  /\ ~At(r, "idle")
  /\ run' = [run EXCEPT ![r] = Idle]
  /\ UNCHANGED <<now, offered, archive, snapshot, checks>>

Rest ==
  /\ now = Horizon
  /\ \A r \in Loaders : At(r, "idle")
  /\ UNCHANGED vars

LoaderStep(r) ==
  \/ Begin(r) \/ Fetch(r) \/ Compare(r) \/ ArchiveBundle(r)
  \/ WriteDimension(r) \/ PutCheck(r) \/ Fail(r)

Next ==
  \/ \E b \in Bundles \ {offered} : Publish(b)
  \/ \E r \in Loaders : LoaderStep(r)
  \/ Rest

Spec == Init /\ [][Next]_vars

-----------------------------------------------------------------------------
(* Choosing a snapshot.                                                    *)

DayOf(time) == time \div DayLength
Days        == 0..DayOf(Horizon)

Having(dims) == {l \in DOMAIN snapshot : dims \subseteq DOMAIN snapshot[l]}

\* Mutant: a check early on the next day serves the day before.
EligibleNextDay(labels, day) == {l \in labels : DayOf(l) <= day + 1}

Eligible(labels, day) == {l \in labels : DayOf(l) <= day}

(* The last one checked on the day or before, or else the first there is.  *)
InEffect(labels, day) ==
  IF Eligible(labels, day) # {} THEN Max(Eligible(labels, day))
  ELSE IF labels # {} THEN Min(labels) ELSE NoLabel

(* valid_from_for, and stop_time_valid_from of the marts.                  *)
StopTimesFor(day) == InEffect(Having({"scheduled_stop_time"}), day)

(* trip_valid_from: among those whose has_trips is true.                   *)
TripsFor(day) == InEffect(Having({"scheduled_stop_time", "trip"}), day)

-----------------------------------------------------------------------------
(* Properties.                                                             *)

TypeOK ==
  /\ now \in 0..Horizon
  /\ offered \in Bundles
  /\ run \in [Loaders ->
       [at : {"idle", "fetching", "comparing", "archiving", "writing",
              "recording"},
        checked : 0..Horizon, bundle : Bundles \union {None},
        changed : BOOLEAN, next : DOMAIN Dimensions]]
  /\ DOMAIN archive \subseteq 0..(Horizon - 1)
  /\ \A l \in DOMAIN archive : archive[l] \in Bundles
  /\ \A l \in DOMAIN snapshot : \A d \in DOMAIN snapshot[l] :
       snapshot[l][d] \in Bundles \ Corrupt
  /\ \A c \in checks : c.at \in 0..(Horizon - 1) /\ c.bundle \in Bundles

Complete(l, b) ==
  /\ l \in DOMAIN archive /\ archive[l] = b
  /\ l \in DOMAIN snapshot
  /\ snapshot[l] = [d \in {Dimensions[i] : i \in DOMAIN Dimensions} |-> b]

(* Every timetable on record was captured whole: a changed check's own     *)
(* snapshot has its bundle and every dimension of it, and an unchanged one *)
(* has such a snapshot to stand on, whatever runs failed, were tried again *)
(* or overlapped (handler's order of puts; schedule_check: "an unchanged   *)
(* day is a recorded fact rather than a gap").                             *)
RecordIsBacked ==
  \A c \in checks :
    IF c.changed THEN Complete(c.label, c.bundle)
    ELSE \E l \in DOMAIN snapshot : Complete(l, c.bundle)

(* What a snapshot or the archive holds under a label is never replaced by *)
(* anything else (snapshot_label: "the later never overwrites the          *)
(* earlier").                                                              *)
NeverOverwritten ==
  [][/\ \A l \in DOMAIN archive : archive'[l] = archive[l]
     /\ \A l \in DOMAIN snapshot : \A d \in DOMAIN snapshot[l] :
          snapshot'[l][d] = snapshot[l][d]]_<<archive, snapshot>>

(* The merger and the marts read one timetable: whatever is left half      *)
(* written, the day's trips come from the snapshot its stop times do, and  *)
(* so from one bundle (service_day's comment: it "follows the merger       *)
(* exactly").                                                              *)
OneTimetable ==
  \A day \in Days :
    /\ TripsFor(day) = StopTimesFor(day)
    /\ StopTimesFor(day) # NoLabel =>
         snapshot[StopTimesFor(day)]["trip"]
           = snapshot[StopTimesFor(day)]["scheduled_stop_time"]

(* A run that may yet put a snapshot the day could use.                    *)
Pending(day) == \E r \in Loaders : ~At(r, "idle") /\ DayOf(run[r].checked) <= day

(* Merging a day again gives it the timetable it had: once the day is over *)
(* and no run of it is under way, no later check changes what serves it    *)
(* (valid_from_for: "A check early on the next Sydney day must not serve   *)
(* the day before").                                                       *)
DaySettled ==
  [][\A day \in Days :
       /\ DayOf(now) > day /\ ~Pending(day)
       /\ Eligible(Having({"scheduled_stop_time"}), day) # {}
       => StopTimesFor(day)' = StopTimesFor(day)]_vars

(* Once a check is on record that began after every snapshot, and no run   *)
(* is under way, the timetable in force is the one that check found        *)
(* (docs/data-dictionary.md, schedule_check: "take the largest valid_from  *)
(* whose check fell on or before it").                                     *)
InForceIsLastChecked ==
  /\ \A r \in Loaders : At(r, "idle")
  /\ \E c \in checks : \A l \in DOMAIN snapshot : l <= c.at
  => \E l \in DOMAIN snapshot :
       /\ l = StopTimesFor(DayOf(now))
       /\ snapshot[l]["scheduled_stop_time"] = Latest
=============================================================================
