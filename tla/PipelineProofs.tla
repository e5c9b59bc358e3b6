--------------------------- MODULE PipelineProofs ---------------------------
(***************************************************************************)
(* Proofs about Pipeline, for any number of hours, days, runs and polls,   *)
(* and any lives and lags.  What is on record rests on how long a run may  *)
(* last (Recent) and on what it has put by each of its steps (Standing);   *)
(* that partials are whole, and merges of them complete, rests on no run   *)
(* beginning before its hour's last object has arrived (HourIsOver).       *)
(***************************************************************************)
EXTENDS Pipeline, FiniteSetTheorems, TLAPS

(* The constants, and the sets they bound.                                 *)
LEMMA Constants ==
  /\ LastHour \in Nat /\ Horizon \in Nat
  /\ PerHour \in Nat \ {0} /\ Lag \in Nat /\ PartialLife \in Nat \ {0}
  /\ \A d \in Days : Window[d] \subseteq Bounds[d] /\ Bounds[d] \subseteq Hours
  /\ Selections \subseteq SUBSET Tables
  /\ IdleMerger.day \in Days
  /\ \A f \in Feeds : Polls[f] \subseteq AnyPoll
<1>1. IdleMerger.day = CHOOSE d \in Days : TRUE
  BY DEF IdleMerger
<1>2. Days # {}
  BY PipelineAssumption DEF PipelineAssumption
<1>3. (CHOOSE d \in Days : TRUE) \in Days
  BY <1>2
<1> QED
  BY <1>1, <1>3, PipelineAssumption DEF PipelineAssumption, AnyPoll

LEMMA PartsAreThree ==
  /\ IsFiniteSet(Parts)
  /\ Cardinality(Parts) = 3
<1> DEFINE one == {"trip_stop"}
           two == one \union {"trip"}
<1>1. IsFiniteSet({}) /\ Cardinality({}) = 0
  BY FS_EmptySet
<1>2. one = {} \union {"trip_stop"}
  OBVIOUS
<1>3. IsFiniteSet(one) /\ Cardinality(one) = 1
  BY <1>1, <1>2, FS_AddElement
<1>4. IsFiniteSet(two) /\ Cardinality(two) = 2
  BY <1>3, FS_AddElement
<1>5. Parts = two \union {"vehicle_position"}
  BY DEF Parts
<1> QED
  BY <1>4, <1>5, FS_AddElement

LEMMA HoursFinite == IsFiniteSet(Hours)
  BY Constants, FS_Interval DEF Hours

(* A day's partials are counted against hours times tables.                *)
LEMMA CountedIsCounted ==
  ASSUME NEW d \in Days
  PROVE  /\ IsFiniteSet(Window[d] \X Parts)
         /\ Cardinality(Window[d] \X Parts) = Expected(d)
         /\ Cardinality(Counted(d)) \in Counts
<1>1. Window[d] \subseteq Hours
  BY Constants
<1>2. IsFiniteSet(Window[d])
  BY <1>1, HoursFinite, FS_Subset
<1>3. /\ IsFiniteSet(Window[d] \X Parts)
      /\ Cardinality(Window[d] \X Parts) = Cardinality(Window[d]) * Cardinality(Parts)
  BY <1>2, PartsAreThree, FS_Product
<1>4. /\ IsFiniteSet(Hours \X Parts)
      /\ Cardinality(Hours \X Parts) = Cardinality(Hours) * Cardinality(Parts)
  BY HoursFinite, PartsAreThree, FS_Product
<1>5. Counted(d) \subseteq Hours \X Parts
  BY <1>1 DEF Counted
<1>6. /\ IsFiniteSet(Counted(d))
      /\ Cardinality(Counted(d)) <= Cardinality(Hours \X Parts)
  BY <1>4, <1>5, FS_Subset
<1>7. Cardinality(Counted(d)) \in Nat
  BY <1>6, FS_CardinalityType
<1>8. Cardinality(Hours \X Parts) \in Nat
  BY <1>4, FS_CardinalityType
<1> QED
  BY <1>3, <1>4, <1>6, <1>7, <1>8 DEF Expected, Counts

-----------------------------------------------------------------------------
(* Types.                                                                  *)

LEMMA PastType ==
  ASSUME TypeOK, NEW ticks \in Nat
  PROVE  Past(ticks) \in 0..(Horizon + 1)
  BY Constants DEF Past, TypeOK, Ticks

LEMMA InitType == Init => TypeOK
<1> SUFFICES ASSUME Init PROVE TypeOK
  OBVIOUS
<1> USE Constants DEF Init
<1>1. now \in Ticks
  BY DEF Ticks
<1>2. raw \in [Hours -> [Feeds -> SUBSET AnyPoll]] /\ taken = raw
  OBVIOUS
<1>3. partial \in [Hours -> [Parts -> [of : SUBSET AnyPoll, until : Expiries]]]
  BY DEF Absent, Never, Expiries
<1>4. recorded \in [Hours -> Expiries]
  BY DEF Expiries
<1>5. IdleCompactor \in
        [at : {"idle", "trip_stop", "trip", "positions", "vehicle_position", "record"},
         hour : Hours, begun : Ticks, trips : SUBSET AnyPoll, positions : SUBSET AnyPoll]
  BY DEF IdleCompactor, Hours, Ticks
<1>6. 0 \in Counts
  BY HoursFinite, PartsAreThree, FS_CardinalityType DEF Counts
<1>7. IdleMerger \in
        [on : BOOLEAN, day : Days, tables : SUBSET Tables, todo : SUBSET Tables,
         rows : (SUBSET (Hours \X AnyPoll)) \union {NotRead},
         read : Counts, begun : Ticks]
  BY <1>6 DEF IdleMerger, Ticks
<1>8. IdleMerger.todo \subseteq IdleMerger.tables
  BY DEF IdleMerger
<1> QED
  BY <1>1, <1>2, <1>3, <1>4, <1>5, <1>7, <1>8 DEF TypeOK

(* The clock and the bucket.                                               *)
LEMMA BucketType ==
  ASSUME TypeOK, Tick \/ BucketStep \/ Rest \/ UNCHANGED vars
  PROVE  TypeOK'
<1> USE Constants
<1>1. CASE Tick
  BY <1>1 DEF Tick, bucket, TypeOK, Ticks
<1>2. CASE BucketStep
  <2>1. PICK h \in Hours :
          \/ \E f \in Feeds : \E p \in Polls[f] :
               Collect(h, f, p) \/ ExpireRaw(h, f, p)
          \/ \E t \in Parts : ExpirePartial(h, t)
    BY <1>2 DEF BucketStep
  <2>2. ASSUME NEW f \in Feeds, NEW p \in Polls[f], Collect(h, f, p)
        PROVE  TypeOK'
    <3>1. p \in AnyPoll
      OBVIOUS
    <3>2. /\ raw' \in [Hours -> [Feeds -> SUBSET AnyPoll]]
          /\ taken' \in [Hours -> [Feeds -> SUBSET AnyPoll]]
      BY <2>2, <3>1 DEF Collect, TypeOK
    <3> QED
      BY <2>2, <3>2 DEF Collect, TypeOK
  <2>3. ASSUME NEW f \in Feeds, NEW p \in Polls[f], ExpireRaw(h, f, p)
        PROVE  TypeOK'
    <3>1. raw' \in [Hours -> [Feeds -> SUBSET AnyPoll]]
      BY <2>3 DEF ExpireRaw, TypeOK
    <3> QED
      BY <2>3, <3>1 DEF ExpireRaw, TypeOK
  <2>4. ASSUME NEW t \in Parts, ExpirePartial(h, t)
        PROVE  TypeOK'
    <3>1. Absent \in [of : SUBSET AnyPoll, until : Expiries]
      BY DEF Absent, Never, Expiries
    <3>2. partial' \in [Hours -> [Parts -> [of : SUBSET AnyPoll, until : Expiries]]]
      BY <2>4, <3>1 DEF ExpirePartial, TypeOK
    <3> QED
      BY <2>4, <3>2 DEF ExpirePartial, TypeOK
  <2> QED
    BY <2>1, <2>2, <2>3, <2>4
<1>3. CASE Rest \/ UNCHANGED vars
  BY <1>3 DEF Rest, vars, bucket, TypeOK
<1> QED
  BY <1>1, <1>2, <1>3

CompactorState ==
  [at : {"idle", "trip_stop", "trip", "positions", "vehicle_position", "record"},
   hour : Hours, begun : Ticks, trips : SUBSET AnyPoll, positions : SUBSET AnyPoll]

LEMMA CompactType ==
  ASSUME TypeOK, NEW c \in Compactors, NEW h \in Hours, Compact(c, h)
  PROVE  TypeOK'
<1>2. raw[h]["tripupdates"] \in SUBSET AnyPoll
  BY DEF TypeOK, Feeds
<1>3. compactor' \in [Compactors -> CompactorState]
  BY <1>2 DEF Compact, TypeOK, CompactorState
<1> QED
  BY <1>3 DEF Compact, bucket, TypeOK, CompactorState

LEMMA PutType ==
  ASSUME TypeOK, NEW c \in Compactors, NEW t \in Parts,
         NEW polls \in SUBSET AnyPoll, PutPartial(c, t, polls)
  PROVE  partial' \in [Hours -> [Parts -> [of : SUBSET AnyPoll, until : Expiries]]]
<1>1. Past(PartialLife) \in Expiries
  BY PastType, Constants DEF Expiries
<1>2. compactor[c].hour \in Hours
  BY DEF TypeOK
<1> QED
  BY <1>1, <1>2 DEF PutPartial, TypeOK

LEMMA GoToType ==
  ASSUME TypeOK, NEW c \in Compactors,
         NEW at \in {"idle", "trip_stop", "trip", "positions", "vehicle_position", "record"},
         GoTo(c, at)
  PROVE  compactor' \in [Compactors -> CompactorState]
<1>1. compactor \in [Compactors -> CompactorState]
  BY DEF TypeOK, CompactorState
<1>2. \A d \in Compactors : compactor[d] \in CompactorState
  BY <1>1
<1>3. [compactor[c] EXCEPT !.at = at] \in CompactorState
  BY <1>2 DEF CompactorState
<1> QED
  BY <1>1, <1>3 DEF GoTo

LEMMA CompactorType ==
  ASSUME TypeOK, NEW c \in Compactors, CompactorStep(c)
  PROVE  TypeOK'
<1> USE Constants
<1>0. /\ compactor \in [Compactors -> CompactorState]
      /\ compactor[c].hour \in Hours
      /\ compactor[c].trips \in SUBSET AnyPoll
      /\ compactor[c].positions \in SUBSET AnyPoll
  BY DEF TypeOK, CompactorState
<1>1. CASE Scheduled(c)
  BY <1>1, CompactType DEF Scheduled
<1>2. ASSUME NEW h \in Hours, Backfill(c, h) PROVE TypeOK'
  BY <1>2, CompactType DEF Backfill
<1>3. CASE PutTripStop(c)
  <2>1. partial' \in [Hours -> [Parts -> [of : SUBSET AnyPoll, until : Expiries]]]
    BY <1>0, <1>3, PutType DEF PutTripStop, Parts
  <2>2. compactor' \in [Compactors -> CompactorState]
    BY <1>3, GoToType DEF PutTripStop
  <2> QED
    BY <1>3, <2>1, <2>2 DEF PutTripStop, TypeOK, CompactorState
<1>4. CASE PutTrip(c)
  <2>1. partial' \in [Hours -> [Parts -> [of : SUBSET AnyPoll, until : Expiries]]]
    BY <1>0, <1>4, PutType DEF PutTrip, Parts
  <2>2. compactor' \in [Compactors -> CompactorState]
    BY <1>4, GoToType DEF PutTrip
  <2> QED
    BY <1>4, <2>1, <2>2 DEF PutTrip, TypeOK, CompactorState
<1>5. CASE ReadPositions(c)
  <2> DEFINE found == raw[compactor[c].hour]["vehiclepos"]
             read  == [compactor[c] EXCEPT !.at = "vehicle_position",
                                           !.positions = found]
  <2>1. found \in SUBSET AnyPoll
    BY <1>0 DEF TypeOK, Feeds
  <2>2. compactor' = [compactor EXCEPT ![c] = read]
    BY <1>0, <1>5 DEF ReadPositions
  <2>3. read \in CompactorState
    <3>1. compactor[c] \in CompactorState
      BY <1>0
    <3> HIDE DEF found
    <3> QED
      BY <2>1, <3>1 DEF CompactorState
  <2> HIDE DEF read
  <2>4. compactor' \in [Compactors -> CompactorState]
    BY <1>0, <2>2, <2>3
  <2> QED
    BY <1>5, <2>4 DEF ReadPositions, bucket, TypeOK, CompactorState
<1>6. CASE PutPositions(c)
  <2>1. partial' \in [Hours -> [Parts -> [of : SUBSET AnyPoll, until : Expiries]]]
    BY <1>0, <1>6, PutType DEF PutPositions, Parts
  <2>2. compactor' \in [Compactors -> CompactorState]
    BY <1>6, GoToType DEF PutPositions
  <2> QED
    BY <1>6, <2>1, <2>2 DEF PutPositions, TypeOK, CompactorState
<1>7. IdleCompactor \in CompactorState
  BY DEF IdleCompactor, CompactorState, Hours, Ticks
<1>8. CASE RecordCompaction(c)
  <2>1. Past(PartialLife - 1) \in Expiries
    BY PastType DEF Expiries
  <2>2. recorded' \in [Hours -> Expiries]
    BY <1>0, <1>8, <2>1 DEF RecordCompaction, TypeOK
  <2>3. compactor' \in [Compactors -> CompactorState]
    BY <1>0, <1>7, <1>8 DEF RecordCompaction
  <2> QED
    BY <1>8, <2>2, <2>3 DEF RecordCompaction, TypeOK, CompactorState
<1>9. CASE FailCompaction(c)
  <2>1. compactor' \in [Compactors -> CompactorState]
    BY <1>0, <1>7, <1>9 DEF FailCompaction
  <2> QED
    BY <1>9, <2>1 DEF FailCompaction, bucket, TypeOK, CompactorState
<1> QED
  BY <1>1, <1>2, <1>3, <1>4, <1>5, <1>6, <1>8, <1>9 DEF CompactorStep

MergerState ==
  [on : BOOLEAN, day : Days, tables : SUBSET Tables, todo : SUBSET Tables,
   rows : (SUBSET (Hours \X AnyPoll)) \union {NotRead},
   read : Counts, begun : Ticks]

(* What a merger reads of the bucket is hours and their polls.             *)
LEMMA RowsType ==
  ASSUME TypeOK, NEW d \in Days, NEW t \in Tables
  PROVE  RowsOf(d, t) \in SUBSET (Hours \X AnyPoll)
<1>1. Listed(d, t) \subseteq Hours
  BY Constants DEF Listed
<1>2. CASE t \in Parts
  BY <1>1, <1>2 DEF RowsOf, TypeOK
<1>3. CASE t \notin Parts
  <2>1. FeedOf(t) \in Feeds
    BY <1>3 DEF FeedOf, Tables, Parts, Feeds
  <2> QED
    BY <1>1, <1>3, <2>1 DEF RowsOf, TypeOK
<1> QED
  BY <1>2, <1>3

(* One merger's state changes to another of the right type.                *)
LEMMA MergerChanges ==
  ASSUME TypeOK, NEW m \in Mergers, NEW s \in MergerState,
         s.todo \subseteq s.tables,
         merger' = [merger EXCEPT ![m] = s]
  PROVE  /\ merger' \in [Mergers -> MergerState]
         /\ \A k \in Mergers : merger'[k].todo \subseteq merger'[k].tables
  BY DEF TypeOK, MergerState

LEMMA MergerType ==
  ASSUME TypeOK, NEW m \in Mergers, MergerStep(m)
  PROVE  TypeOK'
<1> DEFINE s == merger[m]
<1>0. /\ merger \in [Mergers -> MergerState]
      /\ s \in MergerState
      /\ s.todo \subseteq s.tables
  BY DEF TypeOK, MergerState
<1>1. IdleMerger \in MergerState /\ IdleMerger.todo \subseteq IdleMerger.tables
  <2>1. 0 \in Counts
    BY HoursFinite, PartsAreThree, FS_CardinalityType DEF Counts
  <2>2. 0 \in Ticks
    BY Constants DEF Ticks
  <2> QED
    BY <2>1, <2>2, Constants DEF IdleMerger, MergerState
<1>2. ASSUME NEW d \in Days, NEW tables \in Selections, Merge(m, d, tables)
      PROVE  TypeOK'
  <2> DEFINE new == [on |-> TRUE, day |-> d, tables |-> tables, todo |-> tables,
                     rows |-> NotRead, read |-> Cardinality(Counted(d)), begun |-> now]
  <2>1. new \in MergerState /\ new.todo \subseteq new.tables
    BY Constants, CountedIsCounted DEF MergerState, TypeOK
  <2>2. merger' = [merger EXCEPT ![m] = new]
    BY <1>2 DEF Merge
  <2> HIDE DEF new
  <2>3. /\ merger' \in [Mergers -> MergerState]
        /\ \A k \in Mergers : merger'[k].todo \subseteq merger'[k].tables
    BY <2>1, <2>2, MergerChanges
  <2> QED
    BY <1>2, <2>3 DEF Merge, bucket, TypeOK, MergerState
<1>3. ASSUME NEW t \in Tables, SkipTable(m, t)
      PROVE  TypeOK'
  <2>1. merger' = [merger EXCEPT ![m] = [s EXCEPT !.todo = s.todo \ {t}]]
    BY <1>0, <1>3 DEF SkipTable
  <2>2. [s EXCEPT !.todo = s.todo \ {t}] \in MergerState
    BY <1>0 DEF MergerState
  <2>3. [s EXCEPT !.todo = s.todo \ {t}].todo \subseteq [s EXCEPT !.todo = s.todo \ {t}].tables
    BY <1>0 DEF MergerState
  <2>4. /\ merger' \in [Mergers -> MergerState]
        /\ \A k \in Mergers : merger'[k].todo \subseteq merger'[k].tables
    BY <2>1, <2>2, <2>3, MergerChanges
  <2> QED
    BY <1>3, <2>4 DEF SkipTable, bucket, TypeOK, MergerState
<1>4. ASSUME NEW t \in Tables, ReadTable(m, t)
      PROVE  TypeOK'
  <2> DEFINE rows == RowsOf(s.day, t)
  <2>1. rows \in SUBSET (Hours \X AnyPoll)
    BY <1>0, RowsType DEF MergerState
  <2>2. merger' = [merger EXCEPT ![m] = [s EXCEPT !.rows = rows]]
    BY <1>0, <1>4 DEF ReadTable
  <2> HIDE DEF rows
  <2>3. [s EXCEPT !.rows = rows] \in MergerState
    BY <1>0, <2>1 DEF MergerState
  <2>4. [s EXCEPT !.rows = rows].todo \subseteq [s EXCEPT !.rows = rows].tables
    BY <1>0 DEF MergerState
  <2>5. /\ merger' \in [Mergers -> MergerState]
        /\ \A k \in Mergers : merger'[k].todo \subseteq merger'[k].tables
    BY <2>2, <2>3, <2>4, MergerChanges
  <2> QED
    BY <1>4, <2>5 DEF ReadTable, bucket, TypeOK, MergerState
<1>5. ASSUME NEW t \in Tables, WriteTable(m, t)
      PROVE  TypeOK'
  <2> DEFINE new == [s EXCEPT !.todo = s.todo \ {t}, !.rows = NotRead]
  <2>1. merger' = [merger EXCEPT ![m] = new]
    BY <1>0, <1>5 DEF WriteTable
  <2>2. new \in MergerState /\ new.todo \subseteq new.tables
    BY <1>0 DEF MergerState
  <2> HIDE DEF new
  <2>3. /\ merger' \in [Mergers -> MergerState]
        /\ \A k \in Mergers : merger'[k].todo \subseteq merger'[k].tables
    BY <2>1, <2>2, MergerChanges
  <2>4. s.day \in Days /\ s.rows \in SUBSET (Hours \X AnyPoll)
    BY <1>0, <1>5 DEF WriteTable, MergerState
  <2>5. fact' \in [Days -> [Tables -> (SUBSET (Hours \X AnyPoll)) \union {NoFact}]]
    BY <1>5, <2>4 DEF WriteTable, TypeOK
  <2> QED
    BY <1>5, <2>3, <2>5 DEF WriteTable, TypeOK, MergerState
<1>6. CASE RecordMerge(m)
  <2>1. /\ merger' \in [Mergers -> MergerState]
        /\ \A k \in Mergers : merger'[k].todo \subseteq merger'[k].tables
    BY <1>1, <1>6, MergerChanges DEF RecordMerge
  <2>2. coverage' \in [Days -> Counts \union {Never}]
    BY <1>0, <1>6 DEF RecordMerge, TypeOK, MergerState
  <2> QED
    BY <1>6, <2>1, <2>2 DEF RecordMerge, TypeOK, MergerState
<1>7. CASE FailMerge(m)
  <2>1. /\ merger' \in [Mergers -> MergerState]
        /\ \A k \in Mergers : merger'[k].todo \subseteq merger'[k].tables
    BY <1>1, <1>7, MergerChanges DEF FailMerge
  <2> QED
    BY <1>7, <2>1 DEF FailMerge, bucket, TypeOK, MergerState
<1> QED
  BY <1>2, <1>3, <1>4, <1>5, <1>6, <1>7 DEF MergerStep

LEMMA NextType == TypeOK /\ [Next]_vars => TypeOK'
<1> SUFFICES ASSUME TypeOK, [Next]_vars
             PROVE  TypeOK'
  OBVIOUS
<1> QED
  BY BucketType, CompactorType, MergerType DEF Next

(* Every variable keeps its type, for any hours, days, runs and lives: a   *)
(* merge's tables still to do are some of those it was asked for, and what *)
(* it says it read is no more than the hours have partials.                *)
THEOREM TypeCorrect == Spec => []TypeOK
  BY InitType, NextType, PTL DEF Spec

-----------------------------------------------------------------------------
(* What is on record.                                                      *)

Cap(ticks) == IF ticks > Horizon THEN Horizon + 1 ELSE ticks

(* The parts a compactor run has put by the time it is at each step.       *)
PutBy(at) ==
  {t \in Parts :
     \/ at \in {"trip", "positions", "vehicle_position", "record"} /\ t = "trip_stop"
     \/ at \in {"positions", "vehicle_position", "record"} /\ t = "trip"
     \/ at = "record" /\ t = "vehicle_position"}

(* A run sees the clock move once at most.                                 *)
Recent ==
  \A c \in Compactors :
    Compacting(c) => compactor[c].begun <= now /\ now <= compactor[c].begun + 1

(* What a run has put stands for a partial's life from when it began.      *)
Stands(p, begun) ==
  IF p = Absent THEN now >= begun + PartialLife ELSE p.until >= Cap(begun + PartialLife)

Standing ==
  \A c \in Compactors : Compacting(c) =>
    \A t \in PutBy(compactor[c].at) :
      Stands(partial[compactor[c].hour][t], compactor[c].begun)

(* No record vouches for longer than one put now would.                    *)
NoPromise == \A h \in Hours : recorded[h] <= Cap(now + PartialLife - 1)

Backed ==
  \A h \in Hours : now < recorded[h] =>
    \A t \in Parts : partial[h][t] # Absent /\ partial[h][t].until >= recorded[h]

RInv == TypeOK /\ Recent /\ Standing /\ NoPromise /\ Backed

LEMMA PastIsCap == \A ticks : Past(ticks) = Cap(now + ticks)
  BY DEF Past, Cap

(* A partial put anew outlives what was there before, and every promise    *)
(* made of it.                                                             *)
LEMMA PutKeeps ==
  ASSUME RInv, NEW c \in Compactors, NEW t0 \in Parts, NEW polls \in SUBSET AnyPoll,
         NEW at \in {"trip", "positions", "record"},
         Compacting(c),
         PutPartial(c, t0, polls), GoTo(c, at),
         PutBy(at) = PutBy(compactor[c].at) \union {t0},
         UNCHANGED <<now, recorded>>
  PROVE  Recent' /\ Standing' /\ NoPromise' /\ Backed'
<1> DEFINE h0 == compactor[c].hour
           new == [of |-> polls, until |-> Cap(now + PartialLife)]
<1> USE Constants
<1>1. /\ now \in 0..Horizon
      /\ h0 \in Hours
      /\ partial \in [Hours -> [Parts -> [of : SUBSET AnyPoll, until : Expiries]]]
      /\ \A h \in Hours : recorded[h] \in Expiries
      /\ \A d \in Compactors : compactor[d].begun \in 0..Horizon /\ compactor[d].hour \in Hours
  BY DEF RInv, TypeOK, Ticks
<1>2. partial' = [partial EXCEPT ![h0][t0] = new]
  BY PastIsCap DEF PutPartial
<1>3. new # Absent /\ new.until = Cap(now + PartialLife)
  BY <1>1 DEF Absent, Never, Cap
<1> HIDE DEF new
<1>4. \A h \in Hours, t \in Parts :
        partial'[h][t] = IF h = h0 /\ t = t0 THEN new ELSE partial[h][t]
  BY <1>1, <1>2
<1>5. /\ \A d \in Compactors : /\ compactor'[d].hour = compactor[d].hour
                               /\ compactor'[d].begun = compactor[d].begun
                               /\ d # c => compactor'[d] = compactor[d]
      /\ compactor'[c].at = at
      /\ \A d \in Compactors : Compacting(d)' <=> Compacting(d)
  BY DEF GoTo, Compacting, RInv, TypeOK
<1>6. Recent'
  BY <1>5 DEF RInv, Recent
<1>7. Standing'
  <2> SUFFICES ASSUME NEW d \in Compactors, Compacting(d),
                      NEW t \in PutBy(compactor'[d].at)
               PROVE  Stands(partial[compactor[d].hour][t], compactor[d].begun)'
    BY <1>5 DEF Standing
  <2>1. t \in Parts
    BY DEF PutBy
  <2>2. compactor[d].begun <= now
    BY DEF RInv, Recent
  <2>3. CASE compactor[d].hour = h0 /\ t = t0
    <3>1. partial'[compactor'[d].hour][t] = new
      BY <1>1, <1>4, <1>5, <2>1, <2>3
    <3>2. Cap(now + PartialLife) >= Cap(compactor[d].begun + PartialLife)
      BY <1>1, <2>2 DEF Cap
    <3> QED
      BY <1>3, <1>5, <3>1, <3>2 DEF Stands
  <2>4. CASE ~(compactor[d].hour = h0 /\ t = t0)
    <3>1. partial'[compactor'[d].hour][t] = partial[compactor[d].hour][t]
      BY <1>1, <1>4, <1>5, <2>1, <2>4
    <3>2. t \in PutBy(compactor[d].at)
      BY <1>5, <2>4
    <3>3. Stands(partial[compactor[d].hour][t], compactor[d].begun)
      BY <3>2 DEF RInv, Standing
    <3> QED
      BY <1>5, <3>1, <3>3 DEF Stands
  <2> QED
    BY <2>3, <2>4
<1>8. NoPromise'
  BY DEF RInv, NoPromise
<1>9. Backed'
  <2> SUFFICES ASSUME NEW h \in Hours, now < recorded[h], NEW t \in Parts
               PROVE  partial'[h][t] # Absent /\ partial'[h][t].until >= recorded[h]
    BY DEF Backed
  <2>1. partial[h][t] # Absent /\ partial[h][t].until >= recorded[h]
    BY DEF RInv, Backed
  <2>2. recorded[h] <= Cap(now + PartialLife)
    BY <1>1 DEF RInv, NoPromise, Cap, Expiries, Never
  <2> QED
    BY <1>3, <1>4, <2>1, <2>2
<1> QED
  BY <1>6, <1>7, <1>8, <1>9

(* A step that ends or begins a run, or moves it on without a put.         *)
LEMMA QuietKeeps ==
  ASSUME RInv, UNCHANGED <<now, partial, recorded>>,
         \A d \in Compactors : Compacting(d)' =>
           \/ compactor'[d].begun = now /\ PutBy(compactor'[d].at) = {}
           \/ /\ Compacting(d)
              /\ compactor'[d].hour = compactor[d].hour
              /\ compactor'[d].begun = compactor[d].begun
              /\ PutBy(compactor'[d].at) \subseteq PutBy(compactor[d].at)
  PROVE  Recent' /\ Standing' /\ NoPromise' /\ Backed'
<1>1. now \in 0..Horizon
  BY DEF RInv, TypeOK, Ticks
<1>2. Recent'
  BY <1>1, Constants DEF RInv, Recent
<1>3. Standing'
  <2> SUFFICES ASSUME NEW d \in Compactors, Compacting(d)', NEW t \in PutBy(compactor'[d].at)
               PROVE  Stands(partial[compactor[d].hour][t], compactor[d].begun)'
    BY DEF Standing
  <2>1. /\ Compacting(d)
        /\ compactor'[d].hour = compactor[d].hour
        /\ compactor'[d].begun = compactor[d].begun
        /\ t \in PutBy(compactor[d].at)
    OBVIOUS
  <2>2. Stands(partial[compactor[d].hour][t], compactor[d].begun)
    BY <2>1 DEF RInv, Standing
  <2> QED
    BY <2>1, <2>2 DEF Stands
<1> QED
  BY <1>2, <1>3 DEF RInv, NoPromise, Backed

LEMMA RecordedInit == Init => RInv
  BY InitType, Constants
     DEF Init, RInv, Recent, Standing, NoPromise, Backed, Compacting,
         IdleCompactor, Never, Cap

LEMMA RecordedBucket ==
  ASSUME RInv, Tick \/ BucketStep \/ Rest \/ UNCHANGED vars
  PROVE  RInv'
<1> USE Constants
<1>0. TypeOK'
  BY BucketType DEF RInv
<1>1. now \in 0..Horizon /\ \A d \in Compactors : compactor[d].begun \in 0..Horizon
  BY DEF RInv, TypeOK, Ticks
<1>2. CASE Tick
  <2>1. /\ now' = now + 1
        /\ UNCHANGED <<partial, recorded, compactor>>
        /\ \A d \in Compactors : Compacting(d) => compactor[d].begun = now
    BY <1>2 DEF Tick, bucket
  <2>2. Recent'
    BY <1>1, <2>1 DEF Recent, Compacting
  <2>3. Standing'
    BY <1>1, <2>1 DEF RInv, Standing, Stands, Compacting
  <2>4. NoPromise'
    <3>1. Cap(now + PartialLife - 1) <= Cap(now + 1 + PartialLife - 1)
      BY <1>1 DEF Cap
    <3>2. \A h \in Hours : recorded[h] \in Int
      BY DEF RInv, TypeOK, Expiries, Never
    <3> QED
      BY <1>1, <2>1, <3>1, <3>2 DEF RInv, NoPromise, Cap
  <2>5. Backed'
    <3>1. \A h \in Hours : recorded[h] \in Int
      BY DEF RInv, TypeOK, Expiries, Never
    <3> QED
      BY <1>1, <2>1, <3>1 DEF RInv, Backed
  <2> QED
    BY <1>0, <2>2, <2>3, <2>4, <2>5 DEF RInv
<1>3. CASE BucketStep
  <2>1. PICK h0 \in Hours :
          \/ \E f \in Feeds : \E p \in Polls[f] :
               Collect(h0, f, p) \/ ExpireRaw(h0, f, p)
          \/ \E t \in Parts : ExpirePartial(h0, t)
    BY <1>3 DEF BucketStep
  <2>2. CASE \E f \in Feeds : \E p \in Polls[f] :
               Collect(h0, f, p) \/ ExpireRaw(h0, f, p)
    <3>1. UNCHANGED <<now, partial, recorded, compactor>>
      BY <2>2 DEF Collect, ExpireRaw
    <3> QED
      BY <1>0, <3>1, QuietKeeps DEF RInv, Compacting
  <2>3. ASSUME NEW t0 \in Parts, ExpirePartial(h0, t0)
        PROVE  RInv'
    <3>1. /\ UNCHANGED <<now, recorded, compactor>>
          /\ partial[h0][t0] # Absent
          /\ now >= partial[h0][t0].until
          /\ partial' = [partial EXCEPT ![h0][t0] = Absent]
      BY <2>3 DEF ExpirePartial
    <3>2. \A h \in Hours, t \in Parts :
            partial'[h][t] = IF h = h0 /\ t = t0 THEN Absent ELSE partial[h][t]
      BY <3>1 DEF RInv, TypeOK
    <3>3. partial[h0][t0].until \in Int
      BY DEF RInv, TypeOK, Expiries, Never
    <3>4. Recent' /\ NoPromise'
      BY <3>1 DEF RInv, Recent, NoPromise, Compacting
    <3>5. Backed'
      <4> SUFFICES ASSUME NEW h \in Hours, now < recorded[h], NEW t \in Parts
                   PROVE  partial'[h][t] # Absent /\ partial'[h][t].until >= recorded[h]
        BY <3>1 DEF Backed
      <4>1. partial[h][t] # Absent /\ partial[h][t].until >= recorded[h]
        BY DEF RInv, Backed
      <4>2. recorded[h] \in Int
        BY DEF RInv, TypeOK, Expiries, Never
      <4>3. ~(h = h0 /\ t = t0)
        BY <1>1, <3>1, <3>3, <4>1, <4>2
      <4> QED
        BY <3>2, <4>1, <4>3
    <3>6. Standing'
      <4> SUFFICES ASSUME NEW d \in Compactors, Compacting(d),
                          NEW t \in PutBy(compactor[d].at)
                   PROVE  Stands(partial[compactor[d].hour][t], compactor[d].begun)'
        BY <3>1 DEF Standing, Compacting
      <4>1. t \in Parts /\ compactor[d].hour \in Hours
        BY DEF PutBy, RInv, TypeOK
      <4>2. Stands(partial[compactor[d].hour][t], compactor[d].begun)
        BY DEF RInv, Standing
      <4>3. CASE compactor[d].hour = h0 /\ t = t0
        <5>1. now >= Cap(compactor[d].begun + PartialLife)
          BY <1>1, <3>1, <3>3, <4>2, <4>3 DEF Stands, Cap
        <5>2. now >= compactor[d].begun + PartialLife
          BY <1>1, <5>1 DEF Cap
        <5> QED
          BY <3>1, <3>2, <4>1, <4>3, <5>2 DEF Stands
      <4>4. CASE ~(compactor[d].hour = h0 /\ t = t0)
        BY <3>1, <3>2, <4>1, <4>2, <4>4 DEF Stands
      <4> QED
        BY <4>3, <4>4
    <3> QED
      BY <1>0, <3>4, <3>5, <3>6 DEF RInv
  <2> QED
    BY <2>1, <2>2, <2>3
<1>4. CASE Rest \/ UNCHANGED vars
  <2>1. UNCHANGED <<now, partial, recorded, compactor>>
    BY <1>4 DEF Rest, vars, bucket
  <2> QED
    BY <1>0, <2>1, QuietKeeps DEF RInv, Compacting
<1> QED
  BY <1>2, <1>3, <1>4

LEMMA RecordedMerger ==
  ASSUME RInv, NEW m \in Mergers, MergerStep(m)
  PROVE  RInv'
<1>1. TypeOK'
  BY MergerType DEF RInv
<1>2. UNCHANGED <<now, partial, recorded, compactor>>
  BY DEF MergerStep, Merge, SkipTable, ReadTable, WriteTable, RecordMerge,
         FailMerge, bucket
<1> QED
  BY <1>1, <1>2, QuietKeeps DEF RInv, Compacting

LEMMA RecordedCompactor ==
  ASSUME RInv, NEW c \in Compactors, CompactorStep(c)
  PROVE  RInv'
<1> USE Constants
<1>0. TypeOK'
  BY CompactorType DEF RInv
<1>1. /\ compactor \in [Compactors -> CompactorState]
      /\ compactor[c] \in CompactorState
      /\ now \in 0..Horizon
  BY DEF RInv, TypeOK, CompactorState, Ticks
<1>2. PutBy("trip_stop") = {} /\ PutBy("trip") = {"trip_stop"}
      /\ PutBy("positions") = {"trip_stop", "trip"}
      /\ PutBy("vehicle_position") = {"trip_stop", "trip"}
      /\ PutBy("record") = Parts
  BY DEF PutBy, Parts
<1>3. ASSUME NEW h \in Hours, Compact(c, h)
      PROVE  RInv'
  <2>1. /\ UNCHANGED <<now, partial, recorded>>
        /\ \A d \in Compactors : d # c => compactor'[d] = compactor[d]
        /\ compactor'[c].at = "trip_stop"
        /\ compactor'[c].begun = now
    BY <1>1, <1>3 DEF Compact, bucket
  <2> QED
    BY <1>0, <1>2, <2>1, QuietKeeps DEF RInv, Compacting
<1>4. CASE PutTripStop(c)
  <2>1. compactor[c].trips \in SUBSET AnyPoll
    BY <1>1 DEF CompactorState
  <2> QED
    BY <1>0, <1>2, <1>4, <2>1, PutKeeps DEF PutTripStop, At, Compacting, RInv, Parts
<1>5. CASE PutTrip(c)
  <2>1. compactor[c].trips \in SUBSET AnyPoll
    BY <1>1 DEF CompactorState
  <2>2. PutBy("positions") = PutBy("trip") \union {"trip"}
    BY <1>2
  <2> QED
    BY <1>0, <1>5, <2>1, <2>2, PutKeeps DEF PutTrip, At, Compacting, RInv, Parts
<1>6. CASE PutPositions(c)
  <2>1. compactor[c].positions \in SUBSET AnyPoll
    BY <1>1 DEF CompactorState
  <2>2. PutBy("record") = PutBy("vehicle_position") \union {"vehicle_position"}
    BY <1>2 DEF Parts
  <2> QED
    BY <1>0, <1>6, <2>1, <2>2, PutKeeps DEF PutPositions, At, Compacting, RInv, Parts
<1>7. CASE ReadPositions(c)
  <2>1. /\ UNCHANGED <<now, partial, recorded>>
        /\ \A d \in Compactors : d # c => compactor'[d] = compactor[d]
        /\ compactor[c].at = "positions" /\ compactor'[c].at = "vehicle_position"
        /\ compactor'[c].begun = compactor[c].begun
        /\ compactor'[c].hour = compactor[c].hour
    BY <1>1, <1>7 DEF ReadPositions, At, bucket, CompactorState
  <2> QED
    BY <1>0, <1>2, <2>1, QuietKeeps DEF RInv, Compacting
<1>8. CASE FailCompaction(c)
  <2>1. /\ UNCHANGED <<now, partial, recorded>>
        /\ \A d \in Compactors : d # c => compactor'[d] = compactor[d]
        /\ compactor'[c].at = "idle"
    BY <1>1, <1>8 DEF FailCompaction, bucket, IdleCompactor
  <2> QED
    BY <1>0, <2>1, QuietKeeps DEF RInv, Compacting
<1>9. CASE RecordCompaction(c)
  <2> DEFINE h0 == compactor[c].hour
             b  == compactor[c].begun
             vouched == Cap(now + PartialLife - 1)
  <2>1. /\ UNCHANGED <<now, partial>>
        /\ compactor[c].at = "record"
        /\ \A d \in Compactors : d # c => compactor'[d] = compactor[d]
        /\ compactor'[c].at = "idle"
    BY <1>1, <1>9 DEF RecordCompaction, At, IdleCompactor
  <2>2. h0 \in Hours /\ b \in 0..Horizon
    BY <1>1 DEF CompactorState, Ticks
  <2>3. \A h \in Hours : recorded'[h] = IF h = h0 THEN vouched ELSE recorded[h]
    <3>1. Past(PartialLife - 1) = Cap(now + (PartialLife - 1))
      BY PastIsCap
    <3> QED
      BY <1>1, <1>9, <2>2, <3>1 DEF RecordCompaction, RInv, TypeOK
  <2>4. b <= now /\ now <= b + 1
    BY <2>1 DEF RInv, Recent, Compacting
  <2>5. \A t \in Parts : Stands(partial[h0][t], b)
    BY <1>2, <2>1 DEF RInv, Standing, Compacting
  <2>6. Recent'
    BY <2>1 DEF RInv, Recent, Compacting
  <2>7. Standing'
    BY <2>1 DEF RInv, Standing, Compacting, Stands
  <2>8. NoPromise'
    BY <1>1, <2>1, <2>3 DEF RInv, NoPromise, Cap
  <2>9. Backed'
    <3> SUFFICES ASSUME NEW h \in Hours, now < recorded'[h], NEW t \in Parts
                 PROVE  partial[h][t] # Absent /\ partial[h][t].until >= recorded'[h]
      BY <2>1 DEF Backed
    <3>1. CASE h = h0
      <4>1. now < vouched
        BY <2>3, <3>1
      <4>2. now < b + PartialLife /\ vouched <= Cap(b + PartialLife)
        BY <1>1, <2>2, <2>4, <4>1 DEF Cap
      <4>3. partial[h0][t] # Absent /\ partial[h0][t].until >= Cap(b + PartialLife)
        BY <1>1, <2>2, <2>5, <4>2 DEF Stands
      <4>4. partial[h0][t].until \in Int /\ vouched \in Int /\ Cap(b + PartialLife) \in Int
        BY <1>1, <2>2 DEF RInv, TypeOK, Expiries, Never, Cap
      <4> QED
        BY <2>3, <3>1, <4>2, <4>3, <4>4
    <3>2. CASE h # h0
      BY <2>3, <3>2 DEF RInv, Backed
    <3> QED
      BY <3>1, <3>2
  <2> QED
    BY <1>0, <2>6, <2>7, <2>8, <2>9 DEF RInv
<1> QED
  BY <1>3, <1>4, <1>5, <1>6, <1>7, <1>8, <1>9 DEF CompactorStep, Scheduled, Backfill

LEMMA RecordedNext == RInv /\ [Next]_vars => RInv'
<1> SUFFICES ASSUME RInv, [Next]_vars
             PROVE  RInv'
  OBVIOUS
<1> QED
  BY RecordedBucket, RecordedCompactor, RecordedMerger DEF Next

(* A compaction on record has left all three partials, until the last of   *)
(* them may expire, for any number of runs that overlap and fail.          *)
THEOREM RecordsAreBacked == Spec => []RecordedHourHasPartials
<1>1. RInv => RecordedHourHasPartials
  BY DEF RInv, Backed, RecordedHourHasPartials
<1> QED
  BY <1>1, RecordedInit, RecordedNext, PTL DEF Spec

-----------------------------------------------------------------------------
(* In time, what is compacted is whole.                                    *)

(* No object of the hour arrives any more.                                 *)
HourIsOver(h) == now >= (h + 1) * PerHour + Lag

Built ==
  \A h \in Hours, t \in Parts :
    partial[h][t] # Absent =>
      HourIsOver(h) /\ partial[h][t].of = taken[h][FeedOf(t)]

HasRead(c) ==
  /\ HourIsOver(compactor[c].hour)
  /\ compactor[c].trips = taken[compactor[c].hour]["tripupdates"]
  /\ compactor[c].at \in {"vehicle_position", "record"} =>
       compactor[c].positions = taken[compactor[c].hour]["vehiclepos"]

WInv == TypeOK /\ Built /\ (\A c \in Compactors : Compacting(c) => HasRead(c))

(* The hour before the one it is now is over once Lag has gone by.         *)
LEMMA TargetIsOver ==
  ASSUME TypeOK, now % PerHour >= Lag
  PROVE  HourIsOver(now \div PerHour - 1)
<1> DEFINE q == now \div PerHour
           r == now % PerHour
<1>1. now \in Nat /\ PerHour \in Nat /\ PerHour > 0 /\ Lag \in Nat
  BY Constants DEF TypeOK, Ticks
<1>2. now = PerHour * q + r /\ q \in Int /\ r \in Int
  BY <1>1
<1>3. (q - 1 + 1) * PerHour = PerHour * q
  BY <1>1, <1>2
<1> HIDE DEF q, r
<1>4. PerHour * q \in Int
  BY <1>1, <1>2
<1>5. now >= (q - 1 + 1) * PerHour + Lag
  <2> DEFINE z == PerHour * q
  <2>1. r >= Lag
    BY DEF r
  <2> HIDE DEF z
  <2>2. now = z + r /\ z \in Int
    BY <1>2, <1>4 DEF z
  <2>3. now >= z + Lag
    BY <1>1, <1>2, <2>1, <2>2
  <2> QED
    BY <1>3, <2>3 DEF z
<1> QED
  BY <1>5 DEF HourIsOver, q

(* An hour that is over stays over, and what it held is settled.           *)
LEMMA OverStays ==
  ASSUME TypeOK, Next \/ UNCHANGED vars, NEW h \in Hours, HourIsOver(h)
  PROVE  HourIsOver(h)' /\ taken'[h] = taken[h]
<1>0. now \in Int /\ (h + 1) * PerHour + Lag \in Int
  BY Constants DEF TypeOK, Ticks, Hours
<1> DEFINE over == (h + 1) * PerHour + Lag
<1>1. ASSUME UNCHANGED <<now, taken>>
      PROVE  HourIsOver(h)' /\ taken'[h] = taken[h]
  BY <1>1 DEF HourIsOver
<1>2. CASE Tick
  <2>1. now' = now + 1 /\ taken' = taken
    BY <1>2 DEF Tick, bucket
  <2>2. now >= over
    BY DEF HourIsOver
  <2> HIDE DEF over
  <2>3. now' >= over
    BY <1>0, <2>1, <2>2 DEF over
  <2> QED
    BY <2>1, <2>3 DEF HourIsOver, over
<1>3. CASE BucketStep
  <2>1. PICK h0 \in Hours :
          \/ \E f \in Feeds : \E p \in Polls[f] :
               Collect(h0, f, p) \/ ExpireRaw(h0, f, p)
          \/ \E t \in Parts : ExpirePartial(h0, t)
    BY <1>3 DEF BucketStep
  <2>2. ASSUME NEW f \in Feeds, NEW p \in Polls[f], Collect(h0, f, p)
        PROVE  HourIsOver(h)' /\ taken'[h] = taken[h]
    <3>1. /\ now' = now
          /\ taken' = [taken EXCEPT ![h0][f] = @ \union {p}]
      BY <2>2 DEF Collect
    <3>2. h # h0
      <4> SUFFICES ASSUME h = h0 PROVE FALSE
        OBVIOUS
      <4> DEFINE open == (h + 1) * PerHour
      <4>1. now >= open + Lag
        BY DEF HourIsOver
      <4>2. now \in (h * PerHour)..(open + (Lag - 1))
        BY <2>2 DEF Collect
      <4>3. open + Lag \in Int /\ open \in Int /\ Lag \in Nat
        BY <1>0, Constants DEF Hours
      <4> HIDE DEF open
      <4> QED
        BY <1>0, <4>1, <4>2, <4>3
    <3>3. taken'[h] = taken[h]
      BY <3>1, <3>2 DEF TypeOK
    <3> QED
      BY <3>1, <3>3 DEF HourIsOver
  <2>3. ASSUME NEW f \in Feeds, NEW p \in Polls[f], ExpireRaw(h0, f, p)
        PROVE  UNCHANGED <<now, taken>>
    BY <2>3 DEF ExpireRaw
  <2>4. ASSUME NEW t \in Parts, ExpirePartial(h0, t)
        PROVE  UNCHANGED <<now, taken>>
    BY <2>4 DEF ExpirePartial
  <2> QED
    BY <1>1, <2>1, <2>2, <2>3, <2>4
<1>4. ASSUME NEW c \in Compactors, CompactorStep(c)
      PROVE  UNCHANGED <<now, taken>>
  BY <1>4 DEF CompactorStep, Scheduled, Backfill, Compact, PutTripStop, PutTrip,
     ReadPositions, PutPositions, RecordCompaction, FailCompaction, bucket
<1>5. ASSUME NEW m \in Mergers, MergerStep(m)
      PROVE  UNCHANGED <<now, taken>>
  BY <1>5 DEF MergerStep, Merge, SkipTable, ReadTable, WriteTable, RecordMerge,
     FailMerge, bucket
<1> QED
  BY <1>1, <1>2, <1>3, <1>4, <1>5 DEF Next, Rest, vars, bucket

(* A put of what a run has read.                                           *)
LEMMA PutWhole ==
  ASSUME WInv, NEW c \in Compactors, NEW t0 \in Parts,
         NEW at \in {"trip", "positions", "record"},
         Compacting(c), NEW polls,
         polls = taken[compactor[c].hour][FeedOf(t0)],
         at = "record" => compactor[c].at = "vehicle_position",
         PutPartial(c, t0, polls), GoTo(c, at),
         UNCHANGED <<now, taken>>
  PROVE  Built' /\ (\A d \in Compactors : Compacting(d)' => HasRead(d)')
<1> DEFINE h0 == compactor[c].hour
<1>1. /\ h0 \in Hours
      /\ \A d \in Compactors : compactor[d].hour \in Hours
  BY DEF WInv, TypeOK
<1>2. HourIsOver(h0)
  BY DEF WInv, HasRead
<1>3. \A h \in Hours, t \in Parts :
        partial'[h][t] = IF h = h0 /\ t = t0
                         THEN [of |-> polls, until |-> Past(PartialLife)]
                         ELSE partial[h][t]
  BY <1>1 DEF PutPartial, WInv, TypeOK
<1>4. Built'
  BY <1>1, <1>2, <1>3 DEF WInv, Built, HourIsOver
<1>5. /\ \A d \in Compactors : /\ compactor'[d].hour = compactor[d].hour
                               /\ compactor'[d].trips = compactor[d].trips
                               /\ compactor'[d].positions = compactor[d].positions
                               /\ d # c => compactor'[d] = compactor[d]
      /\ compactor'[c].at = at
  BY DEF GoTo, WInv, TypeOK
<1>6. ASSUME NEW d \in Compactors, Compacting(d)'
      PROVE  HasRead(d)'
  <2>1. Compacting(d)
    BY <1>5, <1>6 DEF Compacting
  <2>2. HasRead(d)
    BY <2>1 DEF WInv
  <2> QED
    BY <1>5, <2>2 DEF HasRead, HourIsOver
<1> QED
  BY <1>4, <1>6

LEMMA WholeCompactor ==
  ASSUME WInv, NEW c \in Compactors, CompactorStep(c), InTime
  PROVE  WInv'
<1> USE Constants
<1>0. TypeOK'
  BY CompactorType DEF WInv
<1>1. /\ compactor \in [Compactors -> CompactorState]
      /\ compactor[c] \in CompactorState
      /\ raw \in [Hours -> [Feeds -> SUBSET AnyPoll]]
      /\ taken \in [Hours -> [Feeds -> SUBSET AnyPoll]]
  BY DEF WInv, TypeOK, CompactorState
<1>2. ASSUME NEW h \in Hours, Compact(c, h), HourIsOver(h)
      PROVE  WInv'
  <2>1. /\ UNCHANGED <<now, raw, taken, partial>>
        /\ \A d \in Compactors : d # c => compactor'[d] = compactor[d]
        /\ compactor'[c].at = "trip_stop"
        /\ compactor'[c].hour = h
        /\ compactor'[c].trips = raw[h]["tripupdates"]
    BY <1>1, <1>2 DEF Compact, bucket
  <2>2. raw[h] = taken[h]
    BY <2>1 DEF InTime, Compacting
  <2>3. ASSUME NEW d \in Compactors, Compacting(d)'
        PROVE  HasRead(d)'
    BY <1>2, <2>1, <2>2, <2>3 DEF WInv, HasRead, HourIsOver, Compacting
  <2> QED
    BY <1>0, <2>1, <2>3 DEF WInv, Built, HourIsOver
<1>3. CASE Scheduled(c)
  BY <1>2, <1>3, TargetIsOver DEF Scheduled, WInv
<1>4. ASSUME NEW h \in Hours, Backfill(c, h)
      PROVE  WInv'
  BY <1>2, <1>4 DEF Backfill, HourIsOver
<1>5. CASE PutTripStop(c)
  <2>1. HasRead(c) /\ Compacting(c)
    BY <1>5 DEF PutTripStop, At, Compacting, WInv
  <2>2. compactor[c].trips = taken[compactor[c].hour][FeedOf("trip_stop")]
    BY <2>1 DEF HasRead, FeedOf
  <2> QED
    BY <1>0, <1>5, <2>1, <2>2, PutWhole DEF PutTripStop, WInv, Parts
<1>6. CASE PutTrip(c)
  <2>1. HasRead(c) /\ Compacting(c)
    BY <1>6 DEF PutTrip, At, Compacting, WInv
  <2>2. compactor[c].trips = taken[compactor[c].hour][FeedOf("trip")]
    BY <2>1 DEF HasRead, FeedOf
  <2> QED
    BY <1>0, <1>6, <2>1, <2>2, PutWhole DEF PutTrip, WInv, Parts
<1>7. CASE PutPositions(c)
  <2>1. HasRead(c) /\ Compacting(c) /\ compactor[c].at = "vehicle_position"
    BY <1>7 DEF PutPositions, At, Compacting, WInv
  <2>2. compactor[c].positions = taken[compactor[c].hour][FeedOf("vehicle_position")]
    BY <2>1 DEF HasRead, FeedOf
  <2> QED
    BY <1>0, <1>7, <2>1, <2>2, PutWhole DEF PutPositions, WInv, Parts
<1>8. CASE ReadPositions(c)
  <2>1. /\ UNCHANGED <<now, raw, taken, partial>>
        /\ \A d \in Compactors : d # c => compactor'[d] = compactor[d]
        /\ compactor[c].at = "positions" /\ compactor'[c].at = "vehicle_position"
        /\ compactor'[c].hour = compactor[c].hour
        /\ compactor'[c].trips = compactor[c].trips
        /\ compactor'[c].positions = raw[compactor[c].hour]["vehiclepos"]
    BY <1>1, <1>8 DEF ReadPositions, At, bucket, CompactorState
  <2>2. raw[compactor[c].hour] = taken[compactor[c].hour]
    BY <2>1 DEF InTime, Compacting
  <2>3. HasRead(c)
    BY <2>1 DEF WInv, Compacting
  <2>4. ASSUME NEW d \in Compactors, Compacting(d)'
        PROVE  HasRead(d)'
    BY <2>1, <2>2, <2>3, <2>4 DEF WInv, HasRead, HourIsOver, Compacting
  <2> QED
    BY <1>0, <2>1, <2>4 DEF WInv, Built, HourIsOver
<1>9. CASE RecordCompaction(c) \/ FailCompaction(c)
  <2>1. /\ UNCHANGED <<now, taken, partial>>
        /\ \A d \in Compactors : d # c => compactor'[d] = compactor[d]
        /\ ~Compacting(c)'
    BY <1>1, <1>9 DEF RecordCompaction, FailCompaction, bucket, IdleCompactor, Compacting
  <2> QED
    BY <1>0, <2>1 DEF WInv, Built, HasRead, HourIsOver, Compacting
<1> QED
  BY <1>3, <1>4, <1>5, <1>6, <1>7, <1>8, <1>9 DEF CompactorStep

(* Every other step leaves the runs alone, and partials are only taken     *)
(* away.                                                                   *)
LEMMA WholeElsewhere ==
  ASSUME WInv, Next \/ UNCHANGED vars, TypeOK',
         compactor' = compactor,
         \A h \in Hours, t \in Parts : partial'[h][t] \in {partial[h][t], Absent}
  PROVE  WInv'
<1>1. TypeOK
  BY DEF WInv
<1>2. \A h \in Hours : HourIsOver(h) => HourIsOver(h)' /\ taken'[h] = taken[h]
  BY <1>1, OverStays
<1>3. Built'
  BY <1>2 DEF WInv, Built
<1>4. ASSUME NEW c \in Compactors, Compacting(c)'
      PROVE  HasRead(c)'
  <2>1. HasRead(c) /\ compactor[c].hour \in Hours
    BY <1>4 DEF WInv, Compacting, TypeOK
  <2> QED
    BY <1>2, <2>1 DEF HasRead, HourIsOver
<1> QED
  BY <1>3, <1>4 DEF WInv

LEMMA WholeNext == WInv /\ [Next /\ InTime]_vars => WInv'
<1> SUFFICES ASSUME WInv, [Next /\ InTime]_vars
             PROVE  WInv'
  OBVIOUS
<1>1. CASE Tick \/ BucketStep \/ Rest \/ UNCHANGED vars
  <2>1. TypeOK'
    BY <1>1, BucketType DEF WInv
  <2>2. compactor' = compactor
    BY <1>1 DEF Tick, BucketStep, Collect, ExpireRaw, ExpirePartial, Rest, vars
  <2>3. \A h \in Hours, t \in Parts : partial'[h][t] \in {partial[h][t], Absent}
    <3>1. ASSUME NEW h0 \in Hours, NEW t0 \in Parts, ExpirePartial(h0, t0)
          PROVE  \A h \in Hours, t \in Parts : partial'[h][t] \in {partial[h][t], Absent}
      <4>1. partial' = [partial EXCEPT ![h0][t0] = Absent]
        BY <3>1 DEF ExpirePartial
      <4> QED
        BY <4>1 DEF WInv, TypeOK
    <3>2. CASE partial' = partial
      BY <3>2
    <3> QED
      BY <1>1, <3>1, <3>2 DEF Tick, BucketStep, Collect, ExpireRaw, Rest, vars, bucket
  <2> QED
    BY <1>1, <2>1, <2>2, <2>3, WholeElsewhere DEF Next
<1>2. ASSUME NEW m \in Mergers, MergerStep(m)
      PROVE  WInv'
  <2>1. TypeOK'
    BY <1>2, MergerType DEF WInv
  <2>2. UNCHANGED <<compactor, partial>>
    BY <1>2 DEF MergerStep, Merge, SkipTable, ReadTable, WriteTable, RecordMerge,
       FailMerge, bucket
  <2> QED
    BY <1>2, <2>1, <2>2, WholeElsewhere DEF Next
<1>3. ASSUME NEW c \in Compactors, CompactorStep(c), InTime
      PROVE  WInv'
  BY <1>3, WholeCompactor
<1> QED
  BY <1>1, <1>2, <1>3 DEF Next

LEMMA WholeInit == Init => WInv
<1> SUFFICES ASSUME Init PROVE WInv
  OBVIOUS
<1>1. TypeOK
  BY InitType
<1>2. Built
  BY DEF Init, Built
<1>3. \A c \in Compactors : ~Compacting(c)
  BY DEF Init, Compacting, IdleCompactor
<1> QED
  BY <1>1, <1>2, <1>3 DEF WInv

(* In time, a partial holds every poll its hour ever had, however the runs *)
(* for that hour overlap, fail and are run again.                          *)
THEOREM WholeInTime == InTimeSpec => []PartialsWhole
<1>1. WInv => PartialsWhole
  BY DEF WInv, Built, PartialsWhole
<1> QED
  BY <1>1, WholeInit, WholeNext, PTL DEF InTimeSpec

-----------------------------------------------------------------------------
(* In time, a merge that saw every partial has every poll.                 *)

(* Merges of one day take turns: two at once may each write half a fact.   *)
OneMerge == \A m1, m2 \in Mergers : m1 = m2

Full(m) == Merging(m) /\ merger[m].read = Expected(merger[m].day)

\* Every poll of a day's window is in rows, for a table.
Holds(rows, d, t) ==
  \A h \in Window[d] : {h} \X taken[h][FeedOf(t)] \subseteq rows

HasSeen(m) ==
  /\ \A h \in Window[merger[m].day], t \in Parts : partial[h][t] # Absent
  /\ merger[m].rows # NotRead =>
       \A t \in Parts : ToMerge(m, t) => Holds(merger[m].rows, merger[m].day, t)
  /\ \A t \in (merger[m].tables \intersect Parts) \ merger[m].todo :
       Holds(fact[merger[m].day][t], merger[m].day, t)

CInv == WInv /\ \A m \in Mergers : Full(m) => HasSeen(m)

(* A day's partials are all present when as many are counted as expected.  *)
LEMMA AllCounted ==
  ASSUME NEW d \in Days, Cardinality(Counted(d)) = Expected(d)
  PROVE  \A h \in Window[d], t \in Parts : partial[h][t] # Absent
<1>1. Counted(d) \subseteq Window[d] \X Parts
  BY DEF Counted
<1>2. Counted(d) = Window[d] \X Parts
  BY <1>1, CountedIsCounted, FS_Subset
<1>3. ASSUME NEW h \in Window[d], NEW t \in Parts
      PROVE  partial[h][t] # Absent
  <2>1. <<h, t>> \in Counted(d)
    BY <1>2
  <2> QED
    BY <2>1 DEF Counted
<1> QED
  BY <1>3

(* Only one table is a merger's next.                                      *)
LEMMA OneTurn ==
  ASSUME NEW m \in Mergers, NEW t \in Tables, NEW u \in Tables,
         ToMerge(m, t), ToMerge(m, u)
  PROVE  t = u
<1>1. Turn[t] <= Turn[u] /\ Turn[u] <= Turn[t]
  BY DEF ToMerge
<1>2. /\ Turn["collector_run"] = 1 /\ Turn["trip_stop"] = 2
      /\ Turn["vehicle_position"] = 3 /\ Turn["trip"] = 4
  BY DEF Turn
<1>3. Turn[t] \in Int /\ Turn[u] \in Int
  BY <1>2 DEF Tables, Parts
<1>4. Turn[t] = Turn[u]
  BY <1>1, <1>3
<1> QED
  BY <1>2, <1>4 DEF Tables, Parts

(* What was read of a window all of whose partials are there.              *)
LEMMA ReadHolds ==
  ASSUME WInv, NEW d \in Days, NEW t \in Parts,
         \A h \in Window[d] : partial[h][t] # Absent
  PROVE  Holds(RowsOf(d, t), d, t)
<1> SUFFICES ASSUME NEW h \in Window[d]
             PROVE  {h} \X taken[h][FeedOf(t)] \subseteq RowsOf(d, t)
  BY DEF Holds
<1>1. h \in Hours /\ h \in Bounds[d]
  BY Constants
<1>2. partial[h][t].of = taken[h][FeedOf(t)]
  BY <1>1 DEF WInv, Built
<1>3. h \in Listed(d, t)
  BY <1>1 DEF Listed
<1> QED
  BY <1>2, <1>3 DEF RowsOf

(* What a merger has seen keeps while it does nothing itself.              *)
LEMMA SeenKeeps ==
  ASSUME CInv, [Next]_vars, InTime \/ UNCHANGED vars, NEW m \in Mergers,
         Full(m), UNCHANGED <<merger, fact>>
  PROVE  HasSeen(m)'
<1> DEFINE d == merger[m].day
<1>1. HasSeen(m) /\ Merging(m)
  BY DEF CInv, Full
<1>2. d \in Days /\ Window[d] \subseteq Hours
  BY Constants DEF CInv, WInv, TypeOK
<1>3. \A h \in Window[d], t \in Parts : partial'[h][t] # Absent
  BY <1>1 DEF HasSeen, InTime, vars, bucket
<1>4. \A h \in Window[d] : HourIsOver(h)
  BY <1>1, <1>2 DEF HasSeen, CInv, WInv, Built, Parts
<1>5. \A h \in Window[d] : taken'[h] = taken[h]
  BY <1>2, <1>4, OverStays DEF CInv, WInv
<1>6. \A rows, t : Holds(rows, d, t) => Holds(rows, d, t)'
  BY <1>5 DEF Holds
<1>7. \A t \in Parts : ToMerge(m, t)' => ToMerge(m, t)
  BY DEF ToMerge, Merging
<1> QED
  BY <1>1, <1>3, <1>6, <1>7 DEF HasSeen

LEMMA SeenMerger ==
  ASSUME OneMerge, CInv, WInv', NEW m \in Mergers, MergerStep(m), InTime,
         Full(m)'
  PROVE  HasSeen(m)'
<1> DEFINE s == merger[m]
<1>0. TypeOK /\ WInv
  BY DEF CInv, WInv
<1>1. UNCHANGED <<taken, partial>>
  BY DEF MergerStep, Merge, SkipTable, ReadTable, WriteTable, RecordMerge,
     FailMerge, bucket
<1>2. /\ merger \in [Mergers -> MergerState]
      /\ s \in MergerState
      /\ s.day \in Days /\ s.tables \subseteq Tables /\ s.todo \subseteq s.tables
  BY <1>0 DEF TypeOK, MergerState
<1>3. \A rows, d, t : Holds(rows, d, t)' <=> Holds(rows, d, t)
  BY <1>1 DEF Holds
<1>4. CASE \E d \in Days, tables \in Selections : Merge(m, d, tables)
  <2>1. PICK d \in Days, tables \in Selections : Merge(m, d, tables)
    BY <1>4
  <2>2. /\ merger'[m].day = d /\ merger'[m].rows = NotRead
        /\ merger'[m].tables = tables /\ merger'[m].todo = tables
        /\ merger'[m].read = Cardinality(Counted(d))
    BY <1>2, <2>1 DEF Merge
  <2>3. \A h \in Window[d], t \in Parts : partial[h][t] # Absent
    BY <2>2, AllCounted DEF Full, Expected
  <2> QED
    BY <1>1, <2>2, <2>3 DEF HasSeen
<1>5. ASSUME NEW t \in Tables, ToMerge(m, t),
             \/ SkipTable(m, t) \/ ReadTable(m, t) \/ WriteTable(m, t)
      PROVE  HasSeen(m)'
  <2>1. /\ merger'[m].day = s.day /\ merger'[m].tables = s.tables
        /\ merger'[m].read = s.read /\ merger'[m].on = s.on
    BY <1>2, <1>5 DEF SkipTable, ReadTable, WriteTable, MergerState
  <2>2. HasSeen(m)
    BY <2>1 DEF Full, Merging, CInv, Expected
  <2>3. \A h \in Window[s.day], u \in Parts : partial'[h][u] # Absent
    BY <1>1, <2>2 DEF HasSeen
  <2>4. CASE SkipTable(m, t)
    <3>1. /\ merger'[m].rows = NotRead /\ merger'[m].todo = s.todo \ {t}
          /\ fact' = fact /\ Listed(s.day, t) = {}
      BY <1>2, <2>4 DEF SkipTable, bucket, MergerState
    <3>2. t \in Parts => Window[s.day] = {}
      BY <1>2, <2>2, <3>1, Constants DEF HasSeen, Listed
    <3>3. \A u \in (s.tables \intersect Parts) \ (s.todo \ {t}) : Holds(fact[s.day][u], s.day, u)
      BY <2>2, <3>2 DEF HasSeen, Holds
    <3> QED
      BY <1>3, <2>1, <2>3, <3>1, <3>3 DEF HasSeen
  <2>5. CASE ReadTable(m, t)
    <3>1. /\ merger'[m].rows = RowsOf(s.day, t) /\ merger'[m].todo = s.todo
          /\ fact' = fact
      BY <1>2, <2>5 DEF ReadTable, bucket, MergerState
    <3>2. ASSUME NEW u \in Parts, ToMerge(m, u)'
          PROVE  Holds(RowsOf(s.day, t), s.day, u)
      <4>1. ToMerge(m, u) /\ u \in Tables
        BY <1>5, <2>1, <3>1, <3>2 DEF ToMerge, Merging, Tables
      <4>2. u = t
        BY <1>5, <4>1, OneTurn
      <4> QED
        BY <1>0, <1>2, <2>2, <4>2, ReadHolds DEF HasSeen
    <3> QED
      BY <1>3, <2>1, <2>2, <2>3, <3>1, <3>2 DEF HasSeen
  <2>6. CASE WriteTable(m, t)
    <3>1. /\ merger'[m].rows = NotRead /\ merger'[m].todo = s.todo \ {t}
          /\ s.rows # NotRead
          /\ fact' = [fact EXCEPT ![s.day][t] = s.rows]
      BY <1>2, <2>6 DEF WriteTable, MergerState
    <3>2. \A u \in Tables : fact'[s.day][u] = IF u = t THEN s.rows ELSE fact[s.day][u]
      BY <1>0, <1>2, <3>1 DEF TypeOK
    <3>3. t \in Parts => Holds(s.rows, s.day, t)
      BY <1>5, <2>2, <3>1 DEF HasSeen
    <3>4. \A u \in (s.tables \intersect Parts) \ (s.todo \ {t}) : Holds(fact'[s.day][u], s.day, u)
      BY <1>2, <2>2, <3>2, <3>3 DEF HasSeen
    <3> QED
      BY <1>3, <2>1, <2>3, <3>1, <3>4 DEF HasSeen
  <2> QED
    BY <1>5, <2>4, <2>5, <2>6
<1>6. CASE RecordMerge(m) \/ FailMerge(m)
  <2>1. ~Merging(m)'
    BY <1>2, <1>6 DEF RecordMerge, FailMerge, Merging, IdleMerger
  <2> QED
    BY <2>1 DEF Full
<1> QED
  BY <1>4, <1>5, <1>6 DEF MergerStep, SkipTable, ReadTable, WriteTable

LEMMA SeenNext == OneMerge /\ CInv /\ [Next /\ InTime]_vars => CInv'
<1> SUFFICES ASSUME OneMerge, CInv, [Next /\ InTime]_vars
             PROVE  CInv'
  OBVIOUS
<1>1. WInv'
  BY WholeNext DEF CInv
<1>2. ASSUME NEW k \in Mergers, MergerStep(k), InTime, NEW m \in Mergers, Full(m)'
      PROVE  HasSeen(m)'
  <2>1. k = m
    BY DEF OneMerge
  <2> QED
    BY <1>1, <1>2, <2>1, SeenMerger
<1>3. ASSUME UNCHANGED <<merger, fact>>, NEW m \in Mergers, Full(m)'
      PROVE  HasSeen(m)'
  <2>1. Full(m)
    BY <1>3 DEF Full, Merging, Expected
  <2> QED
    BY <1>3, <2>1, SeenKeeps
<1>4. ASSUME Tick \/ BucketStep \/ Rest \/ UNCHANGED vars
      PROVE  UNCHANGED <<merger, fact>>
  BY <1>4 DEF Tick, BucketStep, Collect, ExpireRaw, ExpirePartial, Rest, vars, bucket
<1>5. ASSUME NEW c \in Compactors, CompactorStep(c)
      PROVE  UNCHANGED <<merger, fact>>
  BY <1>5 DEF CompactorStep, Scheduled, Backfill, Compact, PutTripStop, PutTrip,
     ReadPositions, PutPositions, RecordCompaction, FailCompaction, bucket
<1> QED
  BY <1>1, <1>2, <1>3, <1>4, <1>5 DEF Next, CInv

(* In time, a merge that is to report every partial of its window present  *)
(* has built each fact from every poll of that window, when no other merge *)
(* is under way beside it.                                                 *)
THEOREM FullCoverageIsComplete ==
  ASSUME OneMerge
  PROVE  InTimeSpec => []CoverageComplete
<1>1. Init => CInv
  <2> SUFFICES ASSUME Init PROVE CInv
    OBVIOUS
  <2>1. \A m \in Mergers : ~Merging(m)
    BY DEF Init, Merging, IdleMerger
  <2> QED
    BY <2>1, WholeInit DEF CInv, Full
<1>2. CInv /\ [Next /\ InTime]_vars => CInv'
  BY SeenNext
<1>3. CInv => CoverageComplete
  <2> SUFFICES ASSUME CInv, NEW m \in Mergers, Merged(m),
                      merger[m].read = Expected(merger[m].day),
                      NEW t \in merger[m].tables \intersect Parts,
                      NEW h \in Window[merger[m].day]
               PROVE  {h} \X taken[h][FeedOf(t)] \subseteq fact[merger[m].day][t]
    BY DEF CoverageComplete
  <2>1. HasSeen(m) /\ merger[m].todo = {}
    BY DEF CInv, Full, Merged
  <2> QED
    BY <2>1 DEF HasSeen, Holds
<1> QED
  BY <1>1, <1>2, <1>3, PTL DEF InTimeSpec

=============================================================================
