------------------------------ MODULE Pipeline ------------------------------
(***************************************************************************)
(* The bucket between the collector and the published facts: the hourly    *)
(* compactor (src/compactor/handler.py), the daily merger                  *)
(* (src/merger/handler.py), and the bucket's lifecycle rules               *)
(* (template.yaml), under which raw objects and partials expire while      *)
(* facts are kept.  Both jobs run on a schedule, are tried again when they *)
(* fail, and are run by hand for any hour or day.                          *)
(*                                                                         *)
(* A poll stands for the object it stored.  A partial and a fact are the   *)
(* polls they were built from; what the reductions do to the rows is       *)
(* another matter.  PerHour ticks make an hour, and no tick is shorter     *)
(* than the 600 s a run may last.                                          *)
(***************************************************************************)
EXTENDS Integers, FiniteSets

CONSTANTS
  LastHour,     \* bound: hours 0..LastHour are collected
  Horizon,      \* bound: the last tick the model reaches
  Polls,        \* feed -> its scheduled polls in an hour
  Days,         \* service days
  Window,       \* merge_window: day -> hours
  Bounds,       \* partition_bounds: day -> hours, the window and a margin
  PerHour,      \* ticks in an hour
  Lag,          \* ticks past the hour at which the compactor fires
  RawLife,      \* feed -> ticks before its objects expire
  PartialLife,  \* ticks before a partial expires
  Compactors,   \* compactor runs that may be under way at once
  Mergers,      \* merger runs that may be under way at once
  Selections    \* the sets of tables a merger may be asked for

Hours  == 0..LastHour
Ticks  == 0..Horizon
Feeds  == {"tripupdates", "vehiclepos", "collector_run"}
Parts  == {"trip_stop", "trip", "vehicle_position"}   \* FROM_PARTIALS
Tables == Parts \union {"collector_run"}

AnyPoll == UNION {Polls[f] : f \in Feeds}

ASSUME PipelineAssumption ==
  /\ LastHour \in Nat /\ Horizon \in Nat
  /\ DOMAIN Polls = Feeds
  /\ Days # {}
  /\ PerHour \in Nat \ {0} /\ Lag \in Nat
  /\ Window \in [Days -> SUBSET Hours]
  /\ Bounds \in [Days -> SUBSET Hours]
  /\ \A d \in Days : Window[d] \subseteq Bounds[d]
  /\ RawLife \in [Feeds -> Nat]
  /\ PartialLife \in Nat \ {0}
  /\ Selections \subseteq SUBSET Tables

VARIABLES
  now,        \* the clock
  raw,        \* hour -> feed -> the polls the bucket holds
  taken,      \* hour -> feed -> the polls it ever held
  partial,    \* hour -> table -> its partial
  recorded,   \* hour -> until when its last record vouches for its partials
  compactor,  \* run -> its state
  merger,     \* run -> its state
  fact,       \* day -> table -> the <<hour, poll>> it was built from
  coverage    \* day -> objects_read, in the last merger record of it

bucket == <<raw, taken, partial, recorded, fact, coverage>>
vars   == <<now, bucket, compactor, merger>>

Never  == -1
Absent == [of |-> {}, until |-> Never]

\* Past the horizon nothing expires, so one value stands for what is past it.
Past(ticks) == IF now + ticks > Horizon THEN Horizon + 1 ELSE now + ticks
NoFact == {<<>>}

FeedOf(t) ==
  CASE t \in {"trip_stop", "trip"} -> "tripupdates"
    [] t = "vehicle_position"      -> "vehiclepos"
    [] t = "collector_run"         -> "collector_run"

\* A compactor run is at the part it puts next, or reads for.
IdleCompactor ==
  [at |-> "idle", hour |-> 0, begun |-> 0, trips |-> {}, positions |-> {}]

\* A merger run has tables left to write, the first of them read or not.
NotRead    == {<<>>}
IdleMerger ==
  [on |-> FALSE, day |-> CHOOSE d \in Days : TRUE, tables |-> {}, todo |-> {},
   rows |-> NotRead, read |-> 0, begun |-> 0]

(* merge_collector_run, then merge_partial_tables.                         *)
Turn == [collector_run |-> 1, trip_stop |-> 2, vehicle_position |-> 3, trip |-> 4]

Compacting(c) == compactor[c].at # "idle"
Merging(m)    == merger[m].on

Expiries == 0..(Horizon + 1) \union {Never}
Counts   == 0..(Cardinality(Hours) * Cardinality(Parts))

TypeOK ==
  /\ now \in Ticks
  /\ raw \in [Hours -> [Feeds -> SUBSET AnyPoll]]
  /\ taken \in [Hours -> [Feeds -> SUBSET AnyPoll]]
  /\ partial \in [Hours -> [Parts -> [of : SUBSET AnyPoll, until : Expiries]]]
  /\ recorded \in [Hours -> Expiries]
  /\ compactor \in [Compactors ->
       [at : {"idle", "trip_stop", "trip", "positions", "vehicle_position",
              "record"},
        hour : Hours, begun : Ticks,
        trips : SUBSET AnyPoll, positions : SUBSET AnyPoll]]
  /\ merger \in [Mergers ->
       [on : BOOLEAN, day : Days, tables : SUBSET Tables, todo : SUBSET Tables,
        rows : (SUBSET (Hours \X AnyPoll)) \union {NotRead},
        read : Counts, begun : Ticks]]
  /\ \A m \in Mergers : merger[m].todo \subseteq merger[m].tables
  /\ fact \in [Days -> [Tables -> (SUBSET (Hours \X AnyPoll)) \union {NoFact}]]
  /\ coverage \in [Days -> Counts \union {Never}]

Init ==
  /\ now = 0
  /\ raw = [h \in Hours |-> [f \in Feeds |-> {}]]
  /\ taken = raw
  /\ partial = [h \in Hours |-> [t \in Parts |-> Absent]]
  /\ recorded = [h \in Hours |-> Never]
  /\ compactor = [c \in Compactors |-> IdleCompactor]
  /\ merger = [m \in Mergers |-> IdleMerger]
  /\ fact = [d \in Days |-> [t \in Tables |-> NoFact]]
  /\ coverage = [d \in Days |-> Never]

-----------------------------------------------------------------------------
(* The clock, the collector and the lifecycle rules.                       *)

(* A run is killed at its timeout: it sees the clock move once at most.    *)
Tick ==
  /\ now < Horizon
  /\ \A c \in Compactors : Compacting(c) => compactor[c].begun = now
  /\ \A m \in Mergers : Merging(m) => merger[m].begun = now
  /\ now' = now + 1
  /\ UNCHANGED <<bucket, compactor, merger>>

(* An object is filed under the hour of its fetch, and a late one arrives  *)
(* after that hour has closed.                                             *)
Collect(h, f, p) ==
  /\ now \in (h * PerHour)..((h + 1) * PerHour + Lag - 1)
  /\ p \notin taken[h][f]
  /\ taken' = [taken EXCEPT ![h][f] = @ \union {p}]
  /\ raw' = [raw EXCEPT ![h][f] = @ \union {p}]
  /\ UNCHANGED <<now, partial, recorded, fact, coverage, compactor, merger>>

(* Expiry is not prompt, and takes each object by itself.                  *)
ExpireRaw(h, f, p) ==
  /\ p \in raw[h][f]
  /\ now >= (h + 1) * PerHour + RawLife[f]
  /\ raw' = [raw EXCEPT ![h][f] = @ \ {p}]
  /\ UNCHANGED <<now, taken, partial, recorded, fact, coverage, compactor,
                 merger>>

ExpirePartial(h, t) ==
  /\ partial[h][t] # Absent
  /\ now >= partial[h][t].until
  /\ partial' = [partial EXCEPT ![h][t] = Absent]
  /\ UNCHANGED <<now, raw, taken, recorded, fact, coverage, compactor, merger>>

-----------------------------------------------------------------------------
(* The compactor.                                                          *)

(* compact_trip_updates reads the whole hour before it puts anything.      *)
Compact(c, h) ==
  /\ ~Compacting(c)
  /\ compactor' = [compactor EXCEPT ![c] =
       [at |-> "trip_stop", hour |-> h, begun |-> now,
        trips |-> raw[h]["tripupdates"], positions |-> {}]]
  /\ UNCHANGED <<now, bucket, merger>>

\* Mutant: fired at the hour, not at Lag past it.
ScheduledOnTheHour(c) ==
  /\ now \div PerHour - 1 \in Hours
  /\ Compact(c, now \div PerHour - 1)

(* target_hour: the hour before the one it is now.                         *)
Scheduled(c) ==
  /\ now % PerHour >= Lag
  /\ now \div PerHour - 1 \in Hours
  /\ Compact(c, now \div PerHour - 1)

(* An hour named in the event.                                             *)
Backfill(c, h) ==
  /\ now >= (h + 1) * PerHour + Lag
  /\ Compact(c, h)

At(c, at) == compactor[c].at = at

PutPartial(c, t, polls) ==
  partial' = [partial EXCEPT ![compactor[c].hour][t] =
                [of |-> polls, until |-> Past(PartialLife)]]

GoTo(c, at) == compactor' = [compactor EXCEPT ![c].at = at]

PutTripStop(c) ==
  /\ At(c, "trip_stop")
  /\ PutPartial(c, "trip_stop", compactor[c].trips)
  /\ GoTo(c, "trip")
  /\ UNCHANGED <<now, raw, taken, recorded, fact, coverage, merger>>

PutTrip(c) ==
  /\ At(c, "trip")
  /\ PutPartial(c, "trip", compactor[c].trips)
  /\ GoTo(c, "positions")
  /\ UNCHANGED <<now, raw, taken, recorded, fact, coverage, merger>>

ReadPositions(c) ==
  /\ At(c, "positions")
  /\ compactor' = [compactor EXCEPT
       ![c].at = "vehicle_position",
       ![c].positions = raw[compactor[c].hour]["vehiclepos"]]
  /\ UNCHANGED <<now, bucket, merger>>

PutPositions(c) ==
  /\ At(c, "vehicle_position")
  /\ PutPartial(c, "vehicle_position", compactor[c].positions)
  /\ GoTo(c, "record")
  /\ UNCHANGED <<now, raw, taken, recorded, fact, coverage, merger>>

\* Mutant: the record is put before the positions partial.
RecordEarly(c) ==
  /\ At(c, "vehicle_position")
  /\ compactor[c].trips \union compactor[c].positions # {}
  /\ recorded' = [recorded EXCEPT ![compactor[c].hour] = Past(PartialLife - 1)]
  /\ compactor' = [compactor EXCEPT ![c] = IdleCompactor]
  /\ UNCHANGED <<now, raw, taken, partial, fact, coverage, merger>>

(* An hour with no object at all is refused, but only here.  One tick of   *)
(* its partials' life may have gone since the run put them.                *)
RecordCompaction(c) ==
  /\ At(c, "record")
  /\ compactor[c].trips \union compactor[c].positions # {}
  /\ recorded' = [recorded EXCEPT ![compactor[c].hour] = Past(PartialLife - 1)]
  /\ compactor' = [compactor EXCEPT ![c] = IdleCompactor]
  /\ UNCHANGED <<now, raw, taken, partial, fact, coverage, merger>>

(* That refusal, and whatever else ends a run: an object that expired      *)
(* between its listing and its GET, a payload that will not decode, a put  *)
(* that failed, the timeout.                                               *)
FailCompaction(c) ==
  /\ Compacting(c)
  /\ compactor' = [compactor EXCEPT ![c] = IdleCompactor]
  /\ UNCHANGED <<now, bucket, merger>>

-----------------------------------------------------------------------------
(* The merger.                                                             *)

(* count_partial_coverage looks in the window only, over all three tables. *)
Counted(d)  == {x \in Window[d] \X Parts : partial[x[1]][x[2]] # Absent}
Expected(d) == Cardinality(Window[d]) * Cardinality(Parts)

\* Mutant: the event's tables are not looked at.
MergeEverything(m, d, tables) ==
  /\ ~Merging(m)
  /\ tables \intersect Parts # {} => Counted(d) # {}
  /\ merger' = [merger EXCEPT ![m] =
       [on |-> TRUE, day |-> d, tables |-> tables, todo |-> Tables,
        rows |-> NotRead, read |-> Cardinality(Counted(d)), begun |-> now]]
  /\ UNCHANGED <<now, bucket, compactor>>

(* handler, down to require_partials.                                      *)
Merge(m, d, tables) ==
  /\ ~Merging(m)
  /\ tables \intersect Parts # {} => Counted(d) # {}
  /\ merger' = [merger EXCEPT ![m] =
       [on |-> TRUE, day |-> d, tables |-> tables, todo |-> tables,
        rows |-> NotRead, read |-> Cardinality(Counted(d)), begun |-> now]]
  /\ UNCHANGED <<now, bucket, compactor>>

\* Mutant: the bounds' last partition is left out.
ListedShort(d, t) ==
  {h \in Bounds[d] : /\ \E later \in Bounds[d] : later > h
                     /\ t \in Parts /\ partial[h][t] # Absent}

(* The objects a table's merge lists: partials inside the dt bounds, or    *)
(* the collector's own records.                                            *)
Listed(d, t) ==
  IF t \in Parts
  THEN {h \in Bounds[d] : partial[h][t] # Absent}
  ELSE {h \in Bounds[d] : raw[h][FeedOf(t)] # {}}

RowsOf(d, t) ==
  LET held(h) == IF t \in Parts THEN partial[h][t].of ELSE raw[h][FeedOf(t)]
  IN UNION {{h} \X held(h) : h \in Listed(d, t)}

ToMerge(m, t) ==
  /\ Merging(m)
  /\ t \in merger[m].todo
  /\ \A u \in merger[m].todo : Turn[t] <= Turn[u]

(* copy_merge and merge_collector_run write nothing when nothing is there. *)
SkipTable(m, t) ==
  /\ ToMerge(m, t)
  /\ merger[m].rows = NotRead
  /\ Listed(merger[m].day, t) = {}
  /\ merger' = [merger EXCEPT ![m].todo = @ \ {t}]
  /\ UNCHANGED <<now, bucket, compactor>>

ReadTable(m, t) ==
  /\ ToMerge(m, t)
  /\ merger[m].rows = NotRead
  /\ Listed(merger[m].day, t) # {}
  /\ merger' = [merger EXCEPT ![m].rows = RowsOf(merger[m].day, t)]
  /\ UNCHANGED <<now, bucket, compactor>>

WriteTable(m, t) ==
  /\ ToMerge(m, t)
  /\ merger[m].rows # NotRead
  /\ fact' = [fact EXCEPT ![merger[m].day][t] = merger[m].rows]
  /\ merger' = [merger EXCEPT ![m].todo = @ \ {t}, ![m].rows = NotRead]
  /\ UNCHANGED <<now, raw, taken, partial, recorded, coverage, compactor>>

Merged(m) == Merging(m) /\ merger[m].todo = {}

(* check_day comes after the record, and only reads.                       *)
RecordMerge(m) ==
  /\ Merged(m)
  /\ coverage' = [coverage EXCEPT ![merger[m].day] = merger[m].read]
  /\ merger' = [merger EXCEPT ![m] = IdleMerger]
  /\ UNCHANGED <<now, raw, taken, partial, recorded, fact, compactor>>

FailMerge(m) ==
  /\ Merging(m)
  /\ merger' = [merger EXCEPT ![m] = IdleMerger]
  /\ UNCHANGED <<now, bucket, compactor>>

-----------------------------------------------------------------------------
CompactorStep(c) ==
  \/ Scheduled(c)
  \/ \E h \in Hours : Backfill(c, h)
  \/ PutTripStop(c) \/ PutTrip(c)
  \/ ReadPositions(c) \/ PutPositions(c)
  \/ RecordCompaction(c) \/ FailCompaction(c)

MergerStep(m) ==
  \/ \E d \in Days, tables \in Selections : Merge(m, d, tables)
  \/ \E t \in Tables : SkipTable(m, t) \/ ReadTable(m, t) \/ WriteTable(m, t)
  \/ RecordMerge(m) \/ FailMerge(m)

BucketStep ==
  \E h \in Hours :
    \/ \E f \in Feeds : \E p \in Polls[f] :
         Collect(h, f, p) \/ ExpireRaw(h, f, p)
    \/ \E t \in Parts : ExpirePartial(h, t)

(* Past the horizon nothing is modelled.                                   *)
Rest ==
  /\ now = Horizon
  /\ \A c \in Compactors : ~Compacting(c)
  /\ \A m \in Mergers : ~Merging(m)
  /\ UNCHANGED vars

Next ==
  \/ Tick
  \/ BucketStep
  \/ \E c \in Compactors : CompactorStep(c)
  \/ \E m \in Mergers : MergerStep(m)
  \/ Rest

Spec == Init /\ [][Next]_vars

(* The behaviours in which nothing is run too late: no compaction is under *)
(* way on an hour some of whose objects have expired, and no partial of a  *)
(* merge's window expires while that merge is under way.                   *)
InTime ==
  /\ \A c \in Compactors :
       Compacting(c)' => raw'[compactor'[c].hour] = taken'[compactor'[c].hour]
  /\ \A m \in Mergers :
       Merging(m) =>
         \A h \in Window[merger[m].day], t \in Parts :
           partial[h][t] # Absent => partial'[h][t] # Absent

InTimeSpec == Init /\ [][Next /\ InTime]_vars
-----------------------------------------------------------------------------
(* Properties.                                                             *)

(* In time, whatever fails, and however runs for one hour overlap, a       *)
(* partial holds every poll its hour ever had: none is compacted before    *)
(* its last object has arrived (target_hour; "a late retry can write after *)
(* the hour boundary", template.yaml).                                     *)
PartialsWhole ==
  \A h \in Hours, t \in Parts :
    partial[h][t] # Absent => partial[h][t].of = taken[h][FeedOf(t)]

(* A compaction on record left all three partials, and they are there      *)
(* until the last of them may expire: whatever run has failed half way     *)
(* since, and whatever it wrote over (compactor handler).                  *)
RecordedHourHasPartials ==
  \A h \in Hours :
    now < recorded[h] =>
      \A t \in Parts : partial[h][t] # Absent

(* In time, a merge that is to report every partial of its window present  *)
(* has built each fact it was asked for from every poll of that window     *)
(* (count_partial_coverage, merge_partial_tables).                         *)
CoverageComplete ==
  \A m \in Mergers :
    Merged(m) /\ merger[m].read = Expected(merger[m].day) =>
      \A t \in merger[m].tables \intersect Parts, h \in Window[merger[m].day] :
        {h} \X taken[h][FeedOf(t)] \subseteq fact[merger[m].day][t]

(* No merge writes an empty table over a good one (require_partials's      *)
(* docstring, and README.md: "refuses rather than writing an empty table   *)
(* over a good one").                                                      *)
NeverEmptied ==
  [][\A d \in Days, t \in Parts :
       fact[d][t] \notin {NoFact, {}} => fact'[d][t] # {}]_fact
=============================================================================
