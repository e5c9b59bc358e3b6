------------------------- MODULE ReductionsProofs -------------------------
(***************************************************************************)
(* Proofs about Reductions, for any updates and samples, hours of any      *)
(* length and any number of them.  Each reducer is followed by what it     *)
(* owes to the entities it has read: a row, or a set of rows, is that of a *)
(* set I of positions in the day's log H (PositionsAre, TripIs, StopIs).   *)
(* Reading an entity keeps the relation for the hour at hand, putting an   *)
(* hour leaves it with the partial, and merging takes it from the hours to *)
(* the day; there it says what the properties say.  Last comes that, read  *)
(* in order, the day so reduced is the day told in one pass.               *)
(***************************************************************************)
EXTENDS Reductions, FiniteLemmas

(* What was fetched in an hour, and when.                                  *)
HourOf(H, h) == {i \in DOMAIN H : H[i].at \div HourLength = h}
AtIn(H, I)   == {H[i].at : i \in I}

(* The log of a day so far: fetched in order, in one of the hours 0..n.    *)
LogOf(H, Entities, n) ==
  /\ H \in Seq(Entities)
  /\ \A i \in DOMAIN H : H[i].at \in Nat /\ H[i].at \div HourLength \in 0..n
  /\ \A i, j \in DOMAIN H : i <= j => H[i].at <= H[j].at

Least(x, S)    == x \in S /\ \A y \in S : x <= y
Greatest(x, S) == x \in S /\ \A y \in S : y <= x

(* A time that is unset when there was none.                               *)
EarliestOf(x, S) == IF S = {} THEN x = Trip!Unset ELSE Least(x, S)
LatestOf(x, S)   == IF S = {} THEN x = Trip!Unset ELSE Greatest(x, S)

LEMMA Lengths == HourLength \in Nat \ {0} /\ Hours \in Nat \ {0}
BY ReductionsAssumption DEF ReductionsAssumption

(* The hours share no entity, and between them they hold the log.          *)
LEMMA HoursAre ==
  ASSUME NEW n \in Nat, NEW Entities, NEW H, LogOf(H, Entities, n)
  PROVE  /\ DOMAIN H = 1..Len(H) /\ Len(H) \in Nat
         /\ IsFiniteSet(DOMAIN H)
         /\ Cardinality(DOMAIN H) = Len(H)
         /\ \A h : HourOf(H, h) \subseteq DOMAIN H /\ IsFiniteSet(HourOf(H, h))
         /\ \A i \in DOMAIN H : \E h \in 0..n : i \in HourOf(H, h)
<1>1. DOMAIN H = 1..Len(H) /\ Len(H) \in Nat
  BY DEF LogOf
<1>2. IsFiniteSet(DOMAIN H) /\ Cardinality(DOMAIN H) = Len(H)
  <2>1. IsFiniteSet(1..Len(H)) /\ Cardinality(1..Len(H)) = Len(H)
    <3>1. \A m \in Nat : IsFiniteSet(1..m) /\ Cardinality(1..m) = m
      BY FS_Interval
    <3> QED
      BY <1>1, <3>1
  <2> QED
    BY <1>1, <2>1
<1>3. \A h : HourOf(H, h) \subseteq DOMAIN H
  BY DEF HourOf
<1>4. \A i \in DOMAIN H : \E h \in 0..n : i \in HourOf(H, h)
  BY DEF HourOf, LogOf
<1> QED
  BY <1>1, <1>2, <1>3, <1>4, FS_Subset

(* What one more entity, fetched in the hour at hand, adds.                *)
LEMMA HourGrows ==
  ASSUME NEW n \in Nat, NEW Entities, NEW H, LogOf(H, Entities, n),
         NEW e \in Entities, e.at \in Nat, e.at \div HourLength = n,
         \A i \in DOMAIN H : H[i].at <= e.at
  PROVE  LET K == Append(H, e) IN
         /\ LogOf(K, Entities, n)
         /\ HourOf(K, n) = HourOf(H, n) \union {Len(H) + 1}
         /\ Len(H) + 1 \notin HourOf(H, n)
         /\ \A h : h # n => HourOf(K, h) = HourOf(H, h)
         /\ \A i \in DOMAIN H : K[i] = H[i] /\ i <= Len(H)
         /\ K[Len(H) + 1] = e
         /\ Len(K) = Len(H) + 1
<1> DEFINE K == Append(H, e)
<1>1. /\ Len(H) \in Nat /\ DOMAIN H = 1..Len(H) /\ H \in Seq(Entities)
  BY DEF LogOf
<1>2. /\ K \in Seq(Entities) /\ Len(K) = Len(H) + 1
      /\ DOMAIN K = DOMAIN H \union {Len(H) + 1}
      /\ Len(H) + 1 \notin DOMAIN H
      /\ \A i \in DOMAIN H : K[i] = H[i] /\ i <= Len(H)
      /\ K[Len(H) + 1] = e
  BY <1>1
<1> HIDE DEF K
<1>3. \A i \in DOMAIN K : K[i].at \in Nat /\ K[i].at \div HourLength \in 0..n
  BY <1>2 DEF LogOf
<1>4. \A i, j \in DOMAIN K : i <= j => K[i].at <= K[j].at
  BY <1>1, <1>2 DEF LogOf
<1>5. LogOf(K, Entities, n)
  BY <1>2, <1>3, <1>4 DEF LogOf
<1>6. /\ HourOf(K, n) = HourOf(H, n) \union {Len(H) + 1}
      /\ Len(H) + 1 \notin HourOf(H, n)
      /\ \A h : h # n => HourOf(K, h) = HourOf(H, h)
  BY <1>2 DEF HourOf
<1> QED
  BY <1>2, <1>5, <1>6 DEF K

-----------------------------------------------------------------------------
(* Positions.                                                              *)

(* The rows p, and what was counted, are those of the samples at I in H:   *)
(* each sample once, as it was first fetched.                              *)
PositionsAre(p, H, I) ==
  /\ IsFiniteSet(p.rows)
  /\ \A r \in p.rows : \E i \in I :
       /\ r = Position!Record(H[i].sample, H[i].at)
       /\ \A j \in I : H[j].sample = H[i].sample => H[i].at <= H[j].at
  /\ \A i \in I : \E r \in p.rows : r.sample = H[i].sample
  /\ p.collapsed + Cardinality(p.rows) = Cardinality(I)
  /\ p.differing = Cardinality(p.rows)
                     - Cardinality({r.sample.observed : r \in p.rows})

Dedupers ==
  [seen : SUBSET Samples, rows : SUBSET [sample : Samples, fetched : Nat],
   collapsed : Nat, differing : Int]

DedupeIs(d, H, I) ==
  /\ d \in Dedupers
  /\ d.seen = {H[i].sample : i \in I}
  /\ PositionsAre(d, H, I)

LEMMA NoPositions ==
  ASSUME NEW H PROVE DedupeIs(Position!Fresh, H, {})
<1> DEFINE d == Position!Fresh
<1>1. d = [seen |-> {}, rows |-> {}, collapsed |-> 0, differing |-> 0]
  BY DEF Position!Fresh
<1>2. {r.sample.observed : r \in d.rows} = {}
  BY <1>1
<1> QED
  BY <1>1, <1>2, FS_EmptySet DEF DedupeIs, Dedupers, PositionsAre

LEMMA PositionsAgree ==
  ASSUME NEW p, NEW H, NEW K, NEW I, \A i \in I : H[i] = K[i]
  PROVE  PositionsAre(p, H, I) <=> PositionsAre(p, K, I)
BY DEF PositionsAre

(* The next sample of the hour.                                            *)
LEMMA DedupeKeeps ==
  ASSUME NEW d, NEW H, NEW K, NEW I, IsFiniteSet(I), DedupeIs(d, H, I),
         NEW n, n \notin I, NEW s \in Samples, NEW t \in Nat,
         \A i \in I : K[i] = H[i] /\ H[i].at <= t,
         K[n].sample = s, K[n].at = t
  PROVE  DedupeIs(Position!Dedupe(d, s, t), K, I \union {n})
<1> DEFINE e == Position!Dedupe(d, s, t)
           J == I \union {n}
           Observed(p) == {r.sample.observed : r \in p.rows}
<1>1. /\ d \in Dedupers /\ d.seen = {K[i].sample : i \in I}
      /\ PositionsAre(d, K, I)
  BY PositionsAgree DEF DedupeIs
<1>2. {K[i].sample : i \in J} = d.seen \union {s}
  BY <1>1
<1>3. Cardinality(J) = Cardinality(I) + 1 /\ Cardinality(I) \in Nat
  BY FS_AddElement, FS_CardinalityType
<1>4. /\ IsFiniteSet(d.rows) /\ Cardinality(d.rows) \in Nat
      /\ IsFiniteSet(Observed(d)) /\ Cardinality(Observed(d)) \in Nat
  <2>1. IsFiniteSet(d.rows)
    BY <1>1 DEF PositionsAre
  <2> DEFINE f == [r \in d.rows |-> r.sample.observed]
  <2>2. Observed(d) = {f[r] : r \in d.rows}
    OBVIOUS
  <2>3. IsFiniteSet({f[r] : r \in d.rows})
    <3> HIDE DEF f
    <3> QED
      BY <2>1, ImageFinite, Zenon
  <2> HIDE DEF f, Observed
  <2> QED
    BY <2>1, <2>2, <2>3, FS_CardinalityType
<1>5. CASE s \in d.seen
  <2>1. e = [d EXCEPT !.collapsed = @ + 1]
    BY <1>5 DEF Position!Dedupe, Position!Repeats
  <2>2. /\ e \in Dedupers /\ e.seen = d.seen /\ e.rows = d.rows
        /\ e.collapsed = d.collapsed + 1 /\ e.differing = d.differing
    <3> HIDE DEF e
    <3> QED
      BY <1>1, <2>1 DEF Dedupers
  <2> HIDE DEF e
  <2>3. PICK i0 \in I : K[i0].sample = s
    BY <1>1, <1>5
  <2>4. \A r \in d.rows : \E i \in J :
          /\ r = Position!Record(K[i].sample, K[i].at)
          /\ \A j \in J : K[j].sample = K[i].sample => K[i].at <= K[j].at
    BY <1>1 DEF PositionsAre
  <2>5. \A i \in J : \E r \in d.rows : r.sample = K[i].sample
    BY <1>1, <2>3 DEF PositionsAre
  <2>6. e.collapsed + Cardinality(e.rows) = Cardinality(J)
    BY <1>1, <1>3, <1>4, <2>2 DEF PositionsAre, Dedupers
  <2>7. Observed(e) = Observed(d)
    BY <2>2
  <2>8. e.differing = Cardinality(e.rows) - Cardinality(Observed(e))
    BY <1>1, <2>2, <2>7 DEF PositionsAre
  <2>9. PositionsAre(e, K, J)
    BY <1>4, <2>2, <2>4, <2>5, <2>6, <2>8 DEF PositionsAre
  <2>10. e.seen = {K[i].sample : i \in J}
    BY <1>2, <1>5, <2>2
  <2> QED
    BY <2>2, <2>9, <2>10 DEF DedupeIs, e
<1>6. CASE s \notin d.seen
  <2> DEFINE new == Position!Record(s, t)
  <2>1. e = [d EXCEPT
               !.seen = @ \union {s}, !.rows = @ \union {new},
               !.differing = IF Position!Conflicts(d, s) THEN @ + 1 ELSE @]
    BY <1>6 DEF Position!Dedupe, Position!Repeats
  <2>2. new = [sample |-> s, fetched |-> t]
    BY DEF Position!Record
  <2>3. /\ e \in Dedupers /\ e.seen = d.seen \union {s}
        /\ e.rows = d.rows \union {new} /\ e.collapsed = d.collapsed
        /\ e.differing = IF Position!Conflicts(d, s) THEN d.differing + 1
                         ELSE d.differing
    <3>1. new \in [sample : Samples, fetched : Nat]
      BY <2>2
    <3> HIDE DEF new, e
    <3>2. CASE Position!Conflicts(d, s)
      <4>1. e = [d EXCEPT !.seen = @ \union {s}, !.rows = @ \union {new},
                          !.differing = @ + 1]
        BY <2>1, <3>2
      <4>2. /\ d.seen \union {s} \in SUBSET Samples
            /\ d.rows \union {new} \in SUBSET [sample : Samples, fetched : Nat]
            /\ d.differing + 1 \in Int
        BY <1>1, <3>1 DEF Dedupers
      <4>3. /\ e \in Dedupers /\ e.seen = d.seen \union {s}
            /\ e.rows = d.rows \union {new} /\ e.collapsed = d.collapsed
            /\ e.differing = d.differing + 1
        BY <1>1, <4>1, <4>2 DEF Dedupers
      <4> QED
        BY <3>2, <4>3
    <3>3. CASE ~Position!Conflicts(d, s)
      <4>1. e = [d EXCEPT !.seen = @ \union {s}, !.rows = @ \union {new},
                          !.differing = @]
        BY <2>1, <3>3
      <4> QED
        BY <1>1, <3>1, <3>3, <4>1 DEF Dedupers
    <3> QED
      BY <3>2, <3>3
  <2> HIDE DEF e
  <2>4. \A r \in d.rows : r.sample \in d.seen
    BY <1>1 DEF PositionsAre, Position!Record
  <2>5. new \notin d.rows /\ new.sample = s
    BY <1>6, <2>2, <2>4
  <2>6. /\ IsFiniteSet(e.rows)
        /\ Cardinality(e.rows) = Cardinality(d.rows) + 1
    <3> HIDE DEF new
    <3> QED  BY <1>4, <2>3, <2>5, FS_AddElement
  <2>7. \A r \in e.rows : \E i \in J :
          /\ r = Position!Record(K[i].sample, K[i].at)
          /\ \A j \in J : K[j].sample = K[i].sample => K[i].at <= K[j].at
    <3>1. ASSUME NEW r \in d.rows
          PROVE  \E i \in J :
                   /\ r = Position!Record(K[i].sample, K[i].at)
                   /\ \A j \in J : K[j].sample = K[i].sample => K[i].at <= K[j].at
      <4>1. PICK i \in I :
              /\ r = Position!Record(K[i].sample, K[i].at)
              /\ \A j \in I : K[j].sample = K[i].sample => K[i].at <= K[j].at
        BY <1>1, <3>1 DEF PositionsAre
      <4> QED
        BY <4>1
    <3>2. \A j \in J : K[j].sample = s => j = n
      BY <1>1, <1>6
    <3> QED
      BY <2>3, <3>1, <3>2
  <2>8. \A i \in J : \E r \in e.rows : r.sample = K[i].sample
    BY <1>1, <2>3, <2>5 DEF PositionsAre
  <2>9. e.collapsed + Cardinality(e.rows) = Cardinality(J)
    BY <1>1, <1>3, <1>4, <2>3, <2>6 DEF PositionsAre, Dedupers
  <2>10. Observed(e) = Observed(d) \union {s.observed}
    BY <2>3, <2>5
  <2>11. Position!Conflicts(d, s) <=> s.observed \in Observed(d)
    <3>1. \A x \in d.seen : \E r \in d.rows : r.sample = x
      BY <1>1 DEF PositionsAre
    <3> QED
      BY <2>4, <3>1 DEF Position!Conflicts
  <2>12. e.differing = Cardinality(e.rows) - Cardinality(Observed(e))
    <3>1. d.differing = Cardinality(d.rows) - Cardinality(Observed(d))
      BY <1>1 DEF PositionsAre
    <3>2. CASE s.observed \in Observed(d)
      <4>1. Observed(e) = Observed(d)
        BY <2>10, <3>2
      <4> HIDE DEF Observed
      <4> QED
        BY <1>4, <2>3, <2>6, <2>11, <3>1, <3>2, <4>1
    <3>3. CASE s.observed \notin Observed(d)
      <4> HIDE DEF Observed
      <4>1. Cardinality(Observed(e)) = Cardinality(Observed(d)) + 1
        BY <1>4, <2>10, <3>3, FS_AddElement
      <4> QED
        BY <1>4, <2>3, <2>6, <2>11, <3>1, <3>3, <4>1
    <3> QED
      BY <3>2, <3>3
  <2>13. PositionsAre(e, K, J)
    BY <2>6, <2>7, <2>8, <2>9, <2>12 DEF PositionsAre
  <2>14. e.seen = {K[i].sample : i \in J}
    BY <1>2, <2>3
  <2> QED
    BY <2>3, <2>13, <2>14 DEF DedupeIs, e
<1> QED
  BY <1>5, <1>6

Sightings == [at : Times, sample : Samples]
FetchesIn(H, s) == AtIn(H, {j \in DOMAIN H : H[j].sample = s})

LEMMA FetchesAre ==
  ASSUME NEW n \in Nat, NEW H, LogOf(H, Sightings, n), NEW s,
         FetchesIn(H, s) # {}
  PROVE  Least(Min(FetchesIn(H, s)), FetchesIn(H, s))
<1> DEFINE I == {j \in DOMAIN H : H[j].sample = s}
           f == [i \in I |-> H[i].at]
<1>1. IsFiniteSet(I)
  BY HoursAre, FS_Subset
<1>2. FetchesIn(H, s) = {f[i] : i \in I}
  BY DEF FetchesIn, AtIn
<1>3. IsFiniteSet(FetchesIn(H, s))
  <2>1. IsFiniteSet({f[i] : i \in I})
    <3> HIDE DEF f, I
    <3> QED  BY <1>1, ImageFinite, Zenon
  <2> QED
    BY <1>2, <2>1, Zenon
<1>4. FetchesIn(H, s) \in SUBSET Int
  BY DEF FetchesIn, AtIn, LogOf
<1> HIDE DEF I, f
<1> QED
  BY <1>3, <1>4, MinIs DEF Least

(* The day's rows are each of its samples once, as first fetched.          *)
LEMMA PositionsMerge ==
  ASSUME NEW n \in Nat, NEW H, LogOf(H, Sightings, n),
         NEW parts, DOMAIN parts = 0..n,
         \A h \in 0..n : PositionsAre(parts[h], H, HourOf(H, h))
  PROVE  Position!Merged(parts) =
           {Position!Record(s, Min(FetchesIn(H, s))) :
              s \in {q \in Samples : q.observed \in Window
                                       /\ FetchesIn(H, q) # {}}}
<1> DEFINE All == Position!RowsIn(parts)
           S == {q \in Samples : q.observed \in Window /\ FetchesIn(H, q) # {}}
<1>1. \A r : r \in All <=>
        (\E h \in 0..n : r \in parts[h].rows) /\ r.sample.observed \in Window
  BY DEF Position!RowsIn, Position!InWindow
<1>2. \A s, t : Position!Record(s, t) = [sample |-> s, fetched |-> t]
  BY DEF Position!Record
<1>3. ASSUME NEW h \in 0..n, NEW r \in parts[h].rows
      PROVE  /\ r = Position!Record(r.sample, r.fetched)
             /\ r.sample \in Samples
             /\ r.fetched \in FetchesIn(H, r.sample)
             /\ \A j \in HourOf(H, h) : H[j].sample = r.sample => r.fetched <= H[j].at
  <2>1. PICK i \in HourOf(H, h) :
          /\ r = Position!Record(H[i].sample, H[i].at)
          /\ \A j \in HourOf(H, h) : H[j].sample = H[i].sample => H[i].at <= H[j].at
    BY DEF PositionsAre
  <2>2. i \in DOMAIN H /\ r.sample = H[i].sample /\ r.fetched = H[i].at
    BY <1>2, <2>1 DEF HourOf
  <2>3. H[i].sample \in Samples
    <3>1. H[i] \in Sightings
      BY <2>2 DEF LogOf
    <3> QED
      BY <3>1 DEF Sightings
  <2> QED
    BY <1>2, <2>1, <2>2, <2>3 DEF FetchesIn, AtIn
<1>4. ASSUME NEW s \in S, NEW t \in FetchesIn(H, s)
      PROVE  \E q \in All : /\ q = Position!Record(s, q.fetched)
                            /\ q.fetched <= t
                            /\ q.fetched \in FetchesIn(H, s)
  <2>1. PICK i \in DOMAIN H : H[i].sample = s /\ H[i].at = t
    BY DEF FetchesIn, AtIn
  <2>2. PICK h \in 0..n : i \in HourOf(H, h)
    BY HoursAre
  <2>3. PICK q \in parts[h].rows : q.sample = s
    BY <2>1, <2>2 DEF PositionsAre
  <2> QED
    BY <1>1, <1>3, <2>1, <2>2, <2>3
<1>5. \A s \in S : Least(Min(FetchesIn(H, s)), FetchesIn(H, s))
  BY FetchesAre
<1>6. \A s : FetchesIn(H, s) \subseteq Nat
  BY DEF FetchesIn, AtIn, LogOf
<1>7. ASSUME NEW r \in Position!Merged(parts)
      PROVE  r.sample \in S /\ r = Position!Record(r.sample, Min(FetchesIn(H, r.sample)))
  <2>1. /\ r \in All
        /\ \A q \in All : q.sample = r.sample => r.fetched <= q.fetched
    BY DEF Position!Merged
  <2>2. /\ r = Position!Record(r.sample, r.fetched) /\ r.sample \in S
        /\ r.fetched \in FetchesIn(H, r.sample)
    BY <1>1, <1>3, <2>1
  <2> DEFINE m == Min(FetchesIn(H, r.sample))
  <2>3. m \in FetchesIn(H, r.sample) /\ m <= r.fetched
    BY <1>5, <2>2 DEF Least
  <2>4. PICK q \in All : q = Position!Record(r.sample, q.fetched) /\ q.fetched <= m
                         /\ q.fetched \in FetchesIn(H, r.sample)
    BY <1>4, <2>2, <2>3
  <2>5. q.sample = r.sample
    BY <1>2, <2>4
  <2>6. r.fetched <= q.fetched
    BY <2>1, <2>5
  <2> HIDE DEF m
  <2>7. r.fetched = m
    BY <1>6, <2>2, <2>3, <2>4, <2>6
  <2> QED
    BY <2>2, <2>7 DEF m
<1>8. ASSUME NEW s \in S
      PROVE  Position!Record(s, Min(FetchesIn(H, s))) \in Position!Merged(parts)
  <2> DEFINE m == Min(FetchesIn(H, s))
  <2>1. m \in FetchesIn(H, s) /\ \A t \in FetchesIn(H, s) : m <= t
    BY <1>5 DEF Least
  <2>2. PICK q \in All : q = Position!Record(s, q.fetched) /\ q.fetched <= m
                         /\ q.fetched \in FetchesIn(H, s)
    BY <1>4, <2>1
  <2>3. q.fetched = m
    <3> HIDE DEF m
    <3> QED  BY <1>6, <2>1, <2>2
  <2>4. \A p \in All : p.sample = s => m <= p.fetched
    BY <1>1, <1>3, <2>1
  <2>5. q = Position!Record(s, m) /\ q.sample = s
    BY <1>2, <2>2, <2>3
  <2> QED
    BY <2>2, <2>3, <2>4, <2>5 DEF Position!Merged
<1> QED
  BY <1>7, <1>8

-----------------------------------------------------------------------------
(* Trips.                                                                  *)

Starts   == {u.start : u \in Updates}
Statuses == {u.status : u \in Updates} \union {Trip!Unsent}

TripRows ==
  [start : Starts, final_status : Statuses, final_status_at : Int,
   polls : [Trip!POLL_COLUMNS -> Nat], first_seen : Nat, last_seen : Nat,
   first_canceled : Int, last_canceled : Int, had_vehicle : BOOLEAN]

(* The updates among I that send a status, and those that send s.          *)
SentIn(H, I)       == {i \in I : H[i].update.status # Trip!Unsent}
TellingIn(H, I, s) == {i \in I : H[i].update.status = s}
PollsIn(H, I, s)   == AtIn(H, TellingIn(H, I, s))

SpanIs(r, H, I) ==
  /\ Least(r.first_seen, AtIn(H, I))
  /\ Greatest(r.last_seen, AtIn(H, I))
  /\ \E l \in I : Greatest(l, I) /\ r.start = H[l].update.start

FinalIs(r, H, I) ==
  /\ LatestOf(r.final_status_at, AtIn(H, SentIn(H, I)))
  /\ IF SentIn(H, I) = {} THEN r.final_status = Trip!Unsent
     ELSE /\ \E i \in SentIn(H, I) : /\ H[i].at = r.final_status_at
                                     /\ H[i].update.status = r.final_status
          /\ \A j \in SentIn(H, I) : H[j].at = r.final_status_at =>
               Trip!Rank(r.final_status) <= Trip!Rank(H[j].update.status)

TallyIs(r, H, I) ==
  /\ \A s \in Trip!POLL_COLUMNS : r.polls[s] = Cardinality(PollsIn(H, I, s))
  /\ EarliestOf(r.first_canceled, PollsIn(H, I, "CANCELED"))
  /\ LatestOf(r.last_canceled, PollsIn(H, I, "CANCELED"))
  /\ r.had_vehicle = \E i \in I : H[i].update.vehicle

(* The row r is that of the updates at I in H, of which there is one.      *)
TripIs(r, H, I) ==
  r \in TripRows /\ SpanIs(r, H, I) /\ FinalIs(r, H, I) /\ TallyIs(r, H, I)

TripPartIs(r, H, I) == IF I = {} THEN r = Trip!Nothing ELSE TripIs(r, H, I)

TripReducerIs(red, H, I) ==
  /\ red = [row |-> red.row, counted |-> red.counted]
  /\ TripPartIs(red.row, H, I)
  /\ \A s \in Trip!POLL_COLUMNS, t \in Nat :
       <<s, t>> \in red.counted <=> t \in PollsIn(H, I, s)

LEMMA RowIsSomething ==
  ASSUME NEW r \in TripRows PROVE r # Trip!Nothing
<1>1. "start" \in DOMAIN r
  BY DEF TripRows
<1>2. DOMAIN Trip!Nothing = {}
  BY DEF Trip!Nothing
<1> QED
  BY <1>1, <1>2

LEMMA RankType == ASSUME NEW s PROVE Trip!Rank(s) \in Int
BY DEF Trip!Rank, Trip!STATUS_PRECEDENCE

LEMMA Columns ==
  /\ Trip!Unsent \notin Trip!POLL_COLUMNS
  /\ "CANCELED" \in Trip!POLL_COLUMNS
  /\ "CANCELED" # Trip!Unsent
  /\ Trip!Unset \in Int /\ \A t \in Nat : t > Trip!Unset /\ t # Trip!Unset
BY DEF Trip!Unsent, Trip!POLL_COLUMNS, Trip!Unset

LEMMA NoTrip ==
  ASSUME NEW H PROVE TripReducerIs(Trip!Fresh, H, {})
BY DEF TripReducerIs, TripPartIs, Trip!Fresh, PollsIn, AtIn, TellingIn

LEMMA TripAgrees ==
  ASSUME NEW r, NEW H, NEW K, NEW I, \A i \in I : H[i] = K[i]
  PROVE  /\ \A s : PollsIn(H, I, s) = PollsIn(K, I, s)
         /\ SpanIs(r, H, I) <=> SpanIs(r, K, I)
         /\ FinalIs(r, H, I) <=> FinalIs(r, K, I)
         /\ TallyIs(r, H, I) <=> TallyIs(r, K, I)
         /\ TripPartIs(r, H, I) <=> TripPartIs(r, K, I)
<1>1. AtIn(H, I) = AtIn(K, I)
  BY DEF AtIn
<1>2. /\ SentIn(H, I) = SentIn(K, I) /\ SentIn(H, I) \subseteq I
      /\ \A s : TellingIn(H, I, s) = TellingIn(K, I, s)
      /\ \A s : TellingIn(H, I, s) \subseteq I
  BY DEF SentIn, TellingIn
<1>3. AtIn(H, SentIn(H, I)) = AtIn(K, SentIn(K, I))
  BY <1>2 DEF AtIn
<1>4. \A s : PollsIn(H, I, s) = PollsIn(K, I, s)
  BY <1>2 DEF AtIn, PollsIn
<1>5. SpanIs(r, H, I) <=> SpanIs(r, K, I)
  BY <1>1 DEF SpanIs, Greatest
<1>6. FinalIs(r, H, I) <=> FinalIs(r, K, I)
  BY <1>2, <1>3 DEF FinalIs
<1>7. TallyIs(r, H, I) <=> TallyIs(r, K, I)
  BY <1>4 DEF TallyIs
<1> QED
  BY <1>4, <1>5, <1>6, <1>7 DEF TripPartIs, TripIs

(* What each step of absorbing an update does to the columns.              *)
LEMMA NoteSeenIs ==
  ASSUME NEW b \in TripRows, NEW u \in Updates, NEW t \in Nat, t >= b.last_seen,
         t >= b.first_seen
  PROVE  LET r == [Trip!NoteSeen(b, u, t) EXCEPT !.had_vehicle = @ \/ u.vehicle] IN
         /\ r \in TripRows
         /\ r.first_seen = b.first_seen /\ r.last_seen = t /\ r.start = u.start
         /\ r.had_vehicle = (b.had_vehicle \/ u.vehicle)
         /\ r.polls = b.polls /\ r.final_status = b.final_status
         /\ r.final_status_at = b.final_status_at
         /\ r.first_canceled = b.first_canceled
         /\ r.last_canceled = b.last_canceled
<1> DEFINE w == [b EXCEPT !.first_seen = Trip!Earlier(@, t)]
           v == [w EXCEPT !.last_seen = t, !.start = u.start]
           r == [v EXCEPT !.had_vehicle = @ \/ u.vehicle]
<1>1. b.first_seen \in Nat /\ b.last_seen \in Nat /\ b.had_vehicle \in BOOLEAN
  BY DEF TripRows
<1>2. Trip!Earlier(b.first_seen, t) = b.first_seen
  BY <1>1, Columns DEF Trip!Earlier
<1>3. w = b
  BY <1>2 DEF TripRows
<1>4. Trip!NoteSeen(b, u, t) = v
  BY <1>3 DEF Trip!NoteSeen
<1>5. u.start \in Starts /\ (b.had_vehicle \/ u.vehicle) \in BOOLEAN
  BY DEF Starts
<1>6. /\ v \in TripRows /\ v.last_seen = t /\ v.start = u.start
      /\ v.first_seen = b.first_seen /\ v.had_vehicle = b.had_vehicle
      /\ v.polls = b.polls /\ v.final_status = b.final_status
      /\ v.final_status_at = b.final_status_at
      /\ v.first_canceled = b.first_canceled
      /\ v.last_canceled = b.last_canceled
  <2>1. v = [b EXCEPT !.last_seen = t, !.start = u.start]
    BY <1>3
  <2> HIDE DEF v, w
  <2> QED
    BY <1>5, <2>1 DEF TripRows
<1> HIDE DEF v
<1>7. /\ r \in TripRows /\ r.had_vehicle = (b.had_vehicle \/ u.vehicle)
      /\ r.last_seen = v.last_seen /\ r.start = v.start
      /\ r.first_seen = v.first_seen
      /\ r.polls = v.polls /\ r.final_status = v.final_status
      /\ r.final_status_at = v.final_status_at
      /\ r.first_canceled = v.first_canceled
      /\ r.last_canceled = v.last_canceled
  <2> DEFINE x == v.had_vehicle \/ u.vehicle
  <2>1. r = [v EXCEPT !.had_vehicle = x] /\ x \in BOOLEAN
    OBVIOUS
  <2>2. x = (b.had_vehicle \/ u.vehicle)
    BY <1>6
  <2> HIDE DEF x, r
  <2> QED
    BY <1>6, <2>1, <2>2 DEF TripRows
<1> QED
  BY <1>4, <1>6, <1>7

(* What absorbing a status does to the columns of a row b.                 *)
StatusAbsorbed(a, b, counted, u, t) ==
  LET r == a.row
      won == \/ t > b.final_status_at
             \/ /\ t = b.final_status_at
                /\ Trip!Rank(u.status) < Trip!Rank(b.final_status)
      counts == Trip!Counts(counted, u.status, t) IN
  /\ a = [row |-> r, counted |-> a.counted]
  /\ r \in TripRows
  /\ r.first_seen = b.first_seen /\ r.last_seen = b.last_seen
  /\ r.start = b.start /\ r.had_vehicle = b.had_vehicle
  /\ r.final_status = IF won THEN u.status ELSE b.final_status
  /\ r.final_status_at = IF won THEN t ELSE b.final_status_at
  /\ r.first_canceled = IF u.status = "CANCELED"
                        THEN Trip!Earlier(b.first_canceled, t)
                        ELSE b.first_canceled
  /\ r.last_canceled = IF u.status = "CANCELED"
                       THEN Trip!Later(b.last_canceled, t)
                       ELSE b.last_canceled
  /\ r.polls = IF counts THEN [b.polls EXCEPT ![u.status] = @ + 1]
               ELSE b.polls
  /\ a.counted = IF counts THEN counted \union {<<u.status, t>>}
                 ELSE counted

LEMMA AbsorbStatusIs ==
  ASSUME NEW b \in TripRows, NEW counted, NEW u \in Updates, NEW t \in Nat,
         u.status # Trip!Unsent
  PROVE  StatusAbsorbed(Trip!AbsorbStatus(b, counted, u.status, t),
                        b, counted, u, t)
<1> DEFINE won == \/ t > b.final_status_at
                  \/ /\ t = b.final_status_at
                     /\ Trip!Rank(u.status) < Trip!Rank(b.final_status)
           counts == Trip!Counts(counted, u.status, t)
           n == Trip!NoteStatus(b, u.status, t)
           g == IF u.status = "CANCELED" THEN Trip!NoteCanceled(n, t) ELSE n
           r == IF counts THEN [g EXCEPT !.polls[u.status] = @ + 1] ELSE g
           SameSpan(x, y) ==
             /\ x.first_seen = y.first_seen /\ x.last_seen = y.last_seen
             /\ x.start = y.start /\ x.had_vehicle = y.had_vehicle
<1>1. /\ n \in TripRows /\ SameSpan(n, b)
      /\ n.final_status = IF won THEN u.status ELSE b.final_status
      /\ n.final_status_at = IF won THEN t ELSE b.final_status_at
      /\ n.first_canceled = b.first_canceled
      /\ n.last_canceled = b.last_canceled /\ n.polls = b.polls
  <2>1. n = IF won THEN [b EXCEPT !.final_status = u.status, !.final_status_at = t]
            ELSE b
    BY DEF Trip!NoteStatus
  <2>2. u.status \in Statuses
    BY DEF Statuses
  <2> HIDE DEF n, won
  <2>3. CASE won
    <3>1. n = [b EXCEPT !.final_status = u.status, !.final_status_at = t]
      BY <2>1, <2>3
    <3>2. /\ n \in TripRows /\ SameSpan(n, b)
          /\ n.final_status = u.status /\ n.final_status_at = t
          /\ n.first_canceled = b.first_canceled
          /\ n.last_canceled = b.last_canceled /\ n.polls = b.polls
      <4> DEFINE s == u.status
      <4>1. n = [b EXCEPT !.final_status = s, !.final_status_at = t]
        BY <3>1
      <4>2. s \in Statuses /\ t \in Int
        BY <2>2
      <4> HIDE DEF s
      <4>3. n \in TripRows
        BY <4>1, <4>2 DEF TripRows
      <4>4. n.final_status = s /\ n.final_status_at = t
        BY <4>1, <4>2 DEF TripRows
      <4>5. /\ SameSpan(n, b) /\ n.first_canceled = b.first_canceled
            /\ n.last_canceled = b.last_canceled /\ n.polls = b.polls
        BY <4>1, <4>2 DEF TripRows
      <4> QED
        BY <4>3, <4>4, <4>5 DEF s
    <3> QED
      BY <2>3, <3>2
  <2>4. CASE ~won
    BY <2>1, <2>4
  <2> QED
    BY <2>3, <2>4
<1>2. /\ g \in TripRows /\ SameSpan(g, n)
      /\ g.final_status = n.final_status
      /\ g.final_status_at = n.final_status_at /\ g.polls = n.polls
      /\ g.first_canceled = IF u.status = "CANCELED"
                            THEN Trip!Earlier(n.first_canceled, t)
                            ELSE n.first_canceled
      /\ g.last_canceled = IF u.status = "CANCELED"
                           THEN Trip!Later(n.last_canceled, t)
                           ELSE n.last_canceled
  <2> DEFINE x == Trip!Earlier(n.first_canceled, t)
             y == Trip!Later(n.last_canceled, t)
  <2>1. g = IF u.status = "CANCELED"
            THEN [n EXCEPT !.first_canceled = x, !.last_canceled = y] ELSE n
    BY DEF Trip!NoteCanceled
  <2>2. x \in Int /\ y \in Int
    BY <1>1 DEF TripRows, Trip!Earlier, Trip!Later
  <2>3. n \in TripRows
    BY <1>1
  <2> HIDE DEF g, n, x, y
  <2>4. /\ g \in TripRows /\ SameSpan(g, n)
        /\ g.final_status = n.final_status
        /\ g.final_status_at = n.final_status_at /\ g.polls = n.polls
        /\ g.first_canceled = IF u.status = "CANCELED" THEN x ELSE n.first_canceled
        /\ g.last_canceled = IF u.status = "CANCELED" THEN y ELSE n.last_canceled
    BY <2>1, <2>2, <2>3 DEF TripRows
  <2> QED
    BY <2>4 DEF x, y
<1>3. /\ r \in TripRows /\ SameSpan(r, g)
      /\ r.final_status = g.final_status
      /\ r.final_status_at = g.final_status_at
      /\ r.first_canceled = g.first_canceled /\ r.last_canceled = g.last_canceled
      /\ r.polls = IF counts THEN [g.polls EXCEPT ![u.status] = @ + 1]
                   ELSE g.polls
  <2>1. g \in TripRows
    BY <1>2
  <2>2. counts => u.status \in Trip!POLL_COLUMNS
    BY DEF Trip!Counts
  <2> HIDE DEF g, counts
  <2> DEFINE p == [g.polls EXCEPT ![u.status] = @ + 1]
  <2>3. counts => p \in [Trip!POLL_COLUMNS -> Nat]
    BY <2>1, <2>2 DEF TripRows
  <2>4. counts => r = [g EXCEPT !.polls = p]
    BY <2>1, <2>2 DEF TripRows
  <2>5. ~counts => r = g
    OBVIOUS
  <2> HIDE DEF r, p
  <2>6. /\ r \in TripRows /\ SameSpan(r, g)
        /\ r.final_status = g.final_status
        /\ r.final_status_at = g.final_status_at
        /\ r.first_canceled = g.first_canceled
        /\ r.last_canceled = g.last_canceled
        /\ r.polls = IF counts THEN p ELSE g.polls
    BY <2>1, <2>3, <2>4, <2>5 DEF TripRows
  <2> QED
    BY <2>6 DEF p
<1>4. Trip!AbsorbStatus(b, counted, u.status, t) =
        [row |-> r, counted |-> IF counts THEN counted \union {<<u.status, t>>}
                                ELSE counted]
  BY DEF Trip!AbsorbStatus
<1> HIDE DEF n, g, r, counts, won
<1>5. /\ r.first_seen = b.first_seen /\ r.last_seen = b.last_seen
      /\ r.start = b.start /\ r.had_vehicle = b.had_vehicle
      /\ r.final_status = IF won THEN u.status ELSE b.final_status
      /\ r.final_status_at = IF won THEN t ELSE b.final_status_at
      /\ r.first_canceled = IF u.status = "CANCELED"
                            THEN Trip!Earlier(b.first_canceled, t)
                            ELSE b.first_canceled
      /\ r.last_canceled = IF u.status = "CANCELED"
                           THEN Trip!Later(b.last_canceled, t)
                           ELSE b.last_canceled
      /\ r.polls = IF counts THEN [b.polls EXCEPT ![u.status] = @ + 1]
                   ELSE b.polls
  BY <1>1, <1>2, <1>3
<1> QED
  BY <1>3, <1>4, <1>5 DEF counts, won, StatusAbsorbed

(* One more update, the last fetched so far.                               *)
NextAfter(K, I, n, u, t) ==
  /\ u \in Updates /\ t \in Nat
  /\ IsFiniteSet(I) /\ I \subseteq Nat /\ n \in Nat
  /\ \A i \in I : /\ i < n /\ K[i].at \in Nat /\ K[i].at <= t
                 /\ K[i].update \in Updates
  /\ K[n].at = t /\ K[n].update = u

(* What it adds to the sets that a row is of.                              *)
Grown(K, I, n, u, t) ==
  /\ n \notin I
  /\ AtIn(K, I \union {n}) = AtIn(K, I) \union {t}
  /\ \A x \in AtIn(K, I) : x \in Nat /\ x <= t
  /\ \A s : PollsIn(K, I \union {n}, s) =
              IF u.status = s THEN PollsIn(K, I, s) \union {t}
              ELSE PollsIn(K, I, s)
  /\ \A s : /\ IsFiniteSet(PollsIn(K, I, s))
            /\ \A x \in PollsIn(K, I, s) : x \in Nat /\ x <= t
  /\ u.status # Trip!Unsent =>
       /\ SentIn(K, I \union {n}) = SentIn(K, I) \union {n}
       /\ AtIn(K, SentIn(K, I \union {n}))
            = AtIn(K, SentIn(K, I)) \union {t}
  /\ u.status = Trip!Unsent => SentIn(K, I \union {n}) = SentIn(K, I)
  /\ SentIn(K, I) \subseteq I
  /\ \A x \in AtIn(K, SentIn(K, I)) : x \in Nat /\ x <= t

LEMMA SetsGrow ==
  ASSUME NEW K, NEW I, NEW n, NEW u, NEW t, NextAfter(K, I, n, u, t)
  PROVE  Grown(K, I, n, u, t)
<1> DEFINE J == I \union {n}
<1>1. n \notin I
  BY DEF NextAfter
<1>2. AtIn(K, J) = AtIn(K, I) \union {t}
  BY DEF NextAfter, AtIn
<1>3. \A x \in AtIn(K, I) : x \in Nat /\ x <= t
  BY DEF NextAfter, AtIn
<1>4. \A s : PollsIn(K, J, s) = IF u.status = s
                                THEN PollsIn(K, I, s) \union {t}
                                ELSE PollsIn(K, I, s)
  BY DEF NextAfter, AtIn, PollsIn, TellingIn
<1>5. ASSUME NEW s PROVE IsFiniteSet(PollsIn(K, I, s))
  <2> DEFINE f == [i \in TellingIn(K, I, s) |-> K[i].at]
  <2>1. IsFiniteSet(TellingIn(K, I, s))
    BY FS_Subset DEF NextAfter, TellingIn
  <2>2. PollsIn(K, I, s) = {f[i] : i \in TellingIn(K, I, s)}
    BY DEF PollsIn, AtIn
  <2> HIDE DEF f
  <2> QED
    BY <2>1, <2>2, ImageFinite
<1>6. \A s : \A x \in PollsIn(K, I, s) : x \in Nat /\ x <= t
  BY DEF NextAfter, AtIn, PollsIn, TellingIn
<1>7. u.status # Trip!Unsent =>
        /\ SentIn(K, J) = SentIn(K, I) \union {n}
        /\ AtIn(K, SentIn(K, J)) = AtIn(K, SentIn(K, I)) \union {t}
  BY DEF NextAfter, AtIn, SentIn
<1>8. u.status = Trip!Unsent => SentIn(K, J) = SentIn(K, I)
  BY DEF NextAfter, SentIn
<1>9. SentIn(K, I) \subseteq I
  BY DEF SentIn
<1>10. \A x \in AtIn(K, SentIn(K, I)) : x \in Nat /\ x <= t
  BY DEF NextAfter, AtIn, SentIn
<1> QED
  BY <1>1, <1>2, <1>3, <1>4, <1>5, <1>6, <1>7, <1>8, <1>9, <1>10 DEF Grown

(* A trip's first row, before its first update is noted.                   *)
LEMMA BlankIs ==
  ASSUME NEW u \in Updates, NEW t \in Nat, NEW K
  PROVE  LET b == Trip!Blank(u, t) IN
         /\ b \in TripRows /\ b.first_seen = t /\ b.last_seen = t
         /\ FinalIs(b, K, {}) /\ TallyIs(b, K, {})
<1> DEFINE b == Trip!Blank(u, t)
           p == [s \in Trip!POLL_COLUMNS |-> 0]
<1>1. b = [start |-> u.start, final_status |-> Trip!Unsent,
           final_status_at |-> Trip!Unset, polls |-> p,
           first_seen |-> t, last_seen |-> t,
           first_canceled |-> Trip!Unset, last_canceled |-> Trip!Unset,
           had_vehicle |-> FALSE]
  BY DEF Trip!Blank
<1>2. /\ u.start \in Starts /\ Trip!Unsent \in Statuses /\ Trip!Unset \in Int
      /\ p \in [Trip!POLL_COLUMNS -> Nat]
  BY Columns DEF Starts, Statuses
<1>3. /\ \A s : PollsIn(K, {}, s) = {}
      /\ SentIn(K, {}) = {} /\ AtIn(K, {}) = {}
  BY DEF PollsIn, AtIn, TellingIn, SentIn
<1>4. \A s \in Trip!POLL_COLUMNS : p[s] = 0
  OBVIOUS
<1> HIDE DEF b, p
<1>5. b \in TripRows /\ b.first_seen = t /\ b.last_seen = t
  BY <1>1, <1>2 DEF TripRows
<1>6. FinalIs(b, K, {})
  BY <1>1, <1>3 DEF FinalIs, LatestOf
<1>7. TallyIs(b, K, {})
  BY <1>1, <1>3, <1>4, FS_EmptySet DEF TallyIs, EarliestOf, LatestOf
<1> QED
  BY <1>5, <1>6, <1>7 DEF b

(* The final status after an update that sends one.                        *)
LEMMA FinalGrows ==
  ASSUME NEW K, NEW I, NEW n, NEW u, NEW t, NextAfter(K, I, n, u, t),
         u.status # Trip!Unsent,
         NEW b \in TripRows, FinalIs(b, K, I), NEW r,
         LET won == \/ t > b.final_status_at
                    \/ /\ t = b.final_status_at
                       /\ Trip!Rank(u.status) < Trip!Rank(b.final_status) IN
         /\ r.final_status = IF won THEN u.status ELSE b.final_status
         /\ r.final_status_at = IF won THEN t ELSE b.final_status_at
  PROVE  FinalIs(r, K, I \union {n})
<1> DEFINE J == I \union {n}
           won == \/ t > b.final_status_at
                  \/ /\ t = b.final_status_at
                     /\ Trip!Rank(u.status) < Trip!Rank(b.final_status)
<1>0. Grown(K, I, n, u, t)
  BY SetsGrow, Zenon
<1>1. /\ SentIn(K, J) = SentIn(K, I) \union {n}
      /\ AtIn(K, SentIn(K, J)) = AtIn(K, SentIn(K, I)) \union {t}
      /\ \A x \in AtIn(K, SentIn(K, I)) : x \in Nat /\ x <= t
  BY <1>0 DEF Grown
<1>2. K[n].at = t /\ K[n].update.status = u.status /\ t \in Nat
  BY DEF NextAfter
<1>3. \A i \in SentIn(K, I) : K[i].at \in AtIn(K, SentIn(K, I))
  BY DEF AtIn
<1>4. b.final_status_at \in Int
  BY DEF TripRows
<1>5. CASE SentIn(K, I) = {}
  <2>1. b.final_status_at = Trip!Unset /\ AtIn(K, SentIn(K, I)) = {}
    BY <1>5 DEF FinalIs, LatestOf, AtIn
  <2>2. won /\ r.final_status = u.status /\ r.final_status_at = t
    BY <1>2, <2>1, Columns
  <2> QED
    BY <1>1, <1>2, <1>5, <2>1, <2>2, RankType DEF FinalIs, LatestOf, Greatest
<1>6. CASE SentIn(K, I) # {}
  <2>1. /\ Greatest(b.final_status_at, AtIn(K, SentIn(K, I)))
        /\ b.final_status_at <= t
    BY <1>1, <1>3, <1>6 DEF FinalIs, LatestOf, Greatest
  <2>2. /\ \E i \in SentIn(K, I) : /\ K[i].at = b.final_status_at
                                   /\ K[i].update.status = b.final_status
        /\ \A j \in SentIn(K, I) : K[j].at = b.final_status_at =>
             Trip!Rank(b.final_status) <= Trip!Rank(K[j].update.status)
    BY <1>6 DEF FinalIs
  <2>3. CASE won
    <3>1. r.final_status = u.status /\ r.final_status_at = t
      BY <2>3
    <3>2. LatestOf(t, AtIn(K, SentIn(K, J)))
      BY <1>1, <1>2 DEF LatestOf, Greatest
    <3>3. \A j \in SentIn(K, I) : K[j].at = t =>
            Trip!Rank(u.status) <= Trip!Rank(K[j].update.status)
      <4> SUFFICES ASSUME NEW j \in SentIn(K, I), K[j].at = t
                   PROVE  Trip!Rank(u.status) <= Trip!Rank(K[j].update.status)
        OBVIOUS
      <4>1. t = b.final_status_at
        BY <1>2, <1>3, <1>4, <2>1 DEF Greatest
      <4>2. Trip!Rank(b.final_status) <= Trip!Rank(K[j].update.status)
        BY <2>2, <4>1
      <4>3. Trip!Rank(u.status) < Trip!Rank(b.final_status)
        BY <1>2, <2>3, <4>1
      <4> QED
        BY <4>2, <4>3, RankType
    <3> QED
      BY <1>1, <1>2, <3>1, <3>2, <3>3, RankType DEF FinalIs
  <2>4. CASE ~won
    <3>1. /\ r.final_status = b.final_status
          /\ r.final_status_at = b.final_status_at
      BY <2>4
    <3>2. b.final_status_at = t /\ Trip!Rank(b.final_status) <= Trip!Rank(u.status)
      BY <1>2, <1>4, <2>1, <2>4, RankType
    <3>3. LatestOf(t, AtIn(K, SentIn(K, J)))
      BY <1>1, <1>2 DEF LatestOf, Greatest
    <3> QED
      BY <1>1, <1>2, <2>2, <3>1, <3>2, <3>3 DEF FinalIs
  <2> QED
    BY <2>3, <2>4
<1> QED
  BY <1>5, <1>6

(* The counts and the times after one.                                     *)
LEMMA TallyGrows ==
  ASSUME NEW K, NEW I, NEW n, NEW u, NEW t, NextAfter(K, I, n, u, t),
         NEW b \in TripRows, TallyIs(b, K, I), NEW r \in TripRows, NEW counts,
         counts \in BOOLEAN,
         counts <=> /\ u.status \in Trip!POLL_COLUMNS
                    /\ t \notin PollsIn(K, I, u.status),
         r.had_vehicle = (b.had_vehicle \/ u.vehicle),
         r.first_canceled = IF u.status = "CANCELED"
                            THEN Trip!Earlier(b.first_canceled, t)
                            ELSE b.first_canceled,
         r.last_canceled = IF u.status = "CANCELED"
                           THEN Trip!Later(b.last_canceled, t)
                           ELSE b.last_canceled,
         r.polls = IF counts THEN [b.polls EXCEPT ![u.status] = @ + 1]
                   ELSE b.polls
  PROVE  TallyIs(r, K, I \union {n})
<1> DEFINE J == I \union {n}
           P == PollsIn(K, I, "CANCELED")
           Q == PollsIn(K, J, "CANCELED")
<1>0. Grown(K, I, n, u, t)
  BY SetsGrow, Zenon
<1>1. /\ \A s : PollsIn(K, J, s) = IF u.status = s
                                   THEN PollsIn(K, I, s) \union {t}
                                   ELSE PollsIn(K, I, s)
      /\ \A s : IsFiniteSet(PollsIn(K, I, s))
      /\ \A x \in P : x \in Nat /\ x <= t
  BY <1>0 DEF Grown
<1>2. t \in Nat /\ K[n].update = u
  BY DEF NextAfter
<1>3. ASSUME NEW s \in Trip!POLL_COLUMNS
      PROVE  r.polls[s] = Cardinality(PollsIn(K, J, s))
  <2>1. b.polls[s] = Cardinality(PollsIn(K, I, s)) /\ b.polls[s] \in Nat
    BY DEF TallyIs, TripRows
  <2>2. CASE counts /\ s = u.status
    <3>1. r.polls[s] = b.polls[s] + 1
      BY <2>2 DEF TripRows
    <3>2. /\ PollsIn(K, J, s) = PollsIn(K, I, s) \union {t}
          /\ t \notin PollsIn(K, I, s) /\ IsFiniteSet(PollsIn(K, I, s))
      BY <1>1, <2>2
    <3>3. Cardinality(PollsIn(K, J, s)) = Cardinality(PollsIn(K, I, s)) + 1
      BY <3>2, FS_AddElement, Zenon
    <3> QED
      BY <2>1, <3>1, <3>3
  <2>3. CASE ~(counts /\ s = u.status)
    <3>1. r.polls[s] = b.polls[s]
      BY <2>3 DEF TripRows
    <3>2. PollsIn(K, J, s) = PollsIn(K, I, s)
      BY <1>1, <2>3
    <3> QED
      BY <2>1, <3>1, <3>2
  <2> QED
    BY <2>2, <2>3
<1>4. EarliestOf(r.first_canceled, Q) /\ LatestOf(r.last_canceled, Q)
  <2>1. EarliestOf(b.first_canceled, P) /\ LatestOf(b.last_canceled, P)
    BY DEF TallyIs
  <2>2. CASE u.status # "CANCELED"
    BY <1>1, <2>1, <2>2
  <2>3. CASE u.status = "CANCELED"
    <3>1. Q = P \union {t}
      BY <1>1, <2>3
    <3>2. /\ r.first_canceled = Trip!Earlier(b.first_canceled, t)
          /\ r.last_canceled = Trip!Later(b.last_canceled, t)
      BY <2>3
    <3> HIDE DEF P, Q
    <3> QED
      BY <1>1, <1>2, <2>1, <3>1, <3>2, Columns
         DEF EarliestOf, LatestOf, Least, Greatest, Trip!Earlier, Trip!Later
  <2> QED
    BY <2>2, <2>3
<1>5. r.had_vehicle = \E i \in J : K[i].update.vehicle
  <2>1. b.had_vehicle = \E i \in I : K[i].update.vehicle
    BY DEF TallyIs
  <2> QED
    BY <1>2, <2>1
<1> QED
  BY <1>3, <1>4, <1>5 DEF TallyIs

(* The next update of the hour.                                            *)
LEMMA TripKeeps ==
  ASSUME NEW red, NEW H, NEW I, TripReducerIs(red, H, I),
         NEW K, \A i \in I : K[i] = H[i],
         NEW n, NEW u, NEW t, NextAfter(K, I, n, u, t)
  PROVE  TripReducerIs(Trip!Absorb(red, u, t), K, I \union {n})
<1> DEFINE J == I \union {n}
           known == IF red.row = Trip!Nothing THEN Trip!Blank(u, t) ELSE red.row
           seen == [Trip!NoteSeen(known, u, t) EXCEPT
                      !.had_vehicle = @ \/ u.vehicle]
<1>0. Grown(K, I, n, u, t)
  BY SetsGrow, Zenon
<1>1. /\ u \in Updates /\ t \in Nat /\ K[n].at = t /\ K[n].update = u
      /\ \A i \in I : i < n
  BY DEF NextAfter
<1>2. TripPartIs(red.row, K, I)
  BY TripAgrees DEF TripReducerIs
<1>3. \A s \in Trip!POLL_COLUMNS, x \in Nat :
        <<s, x>> \in red.counted <=> x \in PollsIn(K, I, s)
  <2>1. \A s : PollsIn(H, I, s) = PollsIn(K, I, s)
    BY TripAgrees
  <2> QED
    BY <2>1 DEF TripReducerIs
<1>4. /\ known \in TripRows /\ known.first_seen <= t /\ known.last_seen <= t
      /\ FinalIs(known, K, I) /\ TallyIs(known, K, I)
      /\ I = {} => known.first_seen = t
      /\ I # {} => SpanIs(known, K, I)
  <2>1. CASE I = {}
    <3>1. known = Trip!Blank(u, t)
      BY <1>2, <2>1 DEF TripPartIs
    <3> QED
      BY <1>1, <2>1, <3>1, BlankIs
  <2>2. CASE I # {}
    <3>1. TripIs(red.row, K, I)
      BY <1>2, <2>2 DEF TripPartIs
    <3>2. known = red.row
      BY <3>1, RowIsSomething DEF TripIs
    <3>3. known \in TripRows /\ SpanIs(known, K, I) /\ FinalIs(known, K, I)
          /\ TallyIs(known, K, I)
      BY <3>1, <3>2 DEF TripIs
    <3>4. \A x \in AtIn(K, I) : x \in Nat /\ x <= t
      BY <1>0 DEF Grown
    <3> HIDE DEF known
    <3> QED
      BY <2>2, <3>3, <3>4 DEF SpanIs, Least, Greatest
  <2> QED
    BY <2>1, <2>2
<1> HIDE DEF known
<1>5. /\ seen \in TripRows
      /\ seen.first_seen = known.first_seen /\ seen.last_seen = t
      /\ seen.start = u.start
      /\ seen.had_vehicle = (known.had_vehicle \/ u.vehicle)
      /\ seen.polls = known.polls /\ seen.final_status = known.final_status
      /\ seen.final_status_at = known.final_status_at
      /\ seen.first_canceled = known.first_canceled
      /\ seen.last_canceled = known.last_canceled
  BY <1>1, <1>4, NoteSeenIs
<1> HIDE DEF seen
<1>6. ASSUME NEW r, r.first_seen = seen.first_seen,
             r.last_seen = seen.last_seen, r.start = seen.start
      PROVE  SpanIs(r, K, J)
  <2>1. AtIn(K, J) = AtIn(K, I) \union {t}
        /\ \A x \in AtIn(K, I) : x \in Nat /\ x <= t
    BY <1>0 DEF Grown
  <2>2. Least(r.first_seen, AtIn(K, J))
    <3>1. CASE I = {}
      <4>1. AtIn(K, I) = {}
        BY <3>1 DEF AtIn
      <4> QED
        BY <1>1, <1>4, <1>5, <1>6, <2>1, <3>1, <4>1 DEF Least
    <3>2. CASE I # {}
      <4>1. Least(known.first_seen, AtIn(K, I))
        BY <1>4, <3>2 DEF SpanIs
      <4>2. r.first_seen = known.first_seen
        BY <1>5, <1>6
      <4> QED
        BY <2>1, <4>1, <4>2 DEF Least
    <3> QED
      BY <3>1, <3>2
  <2>3. Greatest(r.last_seen, AtIn(K, J))
    BY <1>1, <1>5, <1>6, <2>1 DEF Greatest
  <2>4. Greatest(n, J) /\ r.start = K[n].update.start
    BY <1>1, <1>5, <1>6 DEF Greatest, NextAfter
  <2> QED
    BY <2>2, <2>3, <2>4 DEF SpanIs
<1>7. CASE u.status = Trip!Unsent
  <2>1. Trip!Absorb(red, u, t) = [red EXCEPT !.row = seen]
    BY <1>7 DEF Trip!Absorb, known, seen
  <2>2. Trip!Absorb(red, u, t) = [row |-> seen, counted |-> red.counted]
    BY <2>1 DEF TripReducerIs
  <2>3. FinalIs(seen, K, J)
    BY <1>0, <1>4, <1>5, <1>7 DEF Grown, FinalIs
  <2>4. TallyIs(seen, K, J)
    <3> DEFINE counts == FALSE
    <3>1. /\ counts \in BOOLEAN
          /\ counts <=> /\ u.status \in Trip!POLL_COLUMNS
                        /\ t \notin PollsIn(K, I, u.status)
          /\ seen.first_canceled = IF u.status = "CANCELED"
                                   THEN Trip!Earlier(known.first_canceled, t)
                                   ELSE known.first_canceled
          /\ seen.last_canceled = IF u.status = "CANCELED"
                                  THEN Trip!Later(known.last_canceled, t)
                                  ELSE known.last_canceled
          /\ seen.polls = IF counts THEN [known.polls EXCEPT ![u.status] = @ + 1]
                          ELSE known.polls
      BY <1>5, <1>7, Columns
    <3> HIDE DEF counts
    <3> QED
      BY <1>4, <1>5, <3>1, TallyGrows, Zenon
  <2>5. SpanIs(seen, K, J)
    BY <1>6
  <2>6. \A s \in Trip!POLL_COLUMNS : PollsIn(K, J, s) = PollsIn(K, I, s)
    BY <1>0, <1>7, Columns DEF Grown
  <2>7. TripPartIs(seen, K, J)
    BY <1>5, <2>3, <2>4, <2>5 DEF TripPartIs, TripIs
  <2>8. \A s \in Trip!POLL_COLUMNS, x \in Nat :
          <<s, x>> \in red.counted <=> x \in PollsIn(K, J, s)
    BY <1>3, <2>6
  <2> DEFINE a == Trip!Absorb(red, u, t)
  <2>9. a = [row |-> a.row, counted |-> a.counted] /\ a.row = seen
        /\ a.counted = red.counted
    BY <2>2
  <2> HIDE DEF a
  <2>10. TripReducerIs(a, K, J)
    BY <2>7, <2>8, <2>9 DEF TripReducerIs
  <2> QED
    BY <2>10 DEF a
<1>8. CASE u.status # Trip!Unsent
  <2> DEFINE a == Trip!AbsorbStatus(seen, red.counted, u.status, t)
             r == a.row
             won == \/ t > known.final_status_at
                    \/ /\ t = known.final_status_at
                       /\ Trip!Rank(u.status) < Trip!Rank(known.final_status)
             counts == Trip!Counts(red.counted, u.status, t)
  <2>1. Trip!Absorb(red, u, t) = a
    BY <1>8 DEF Trip!Absorb, known, seen
  <2>2. /\ a = [row |-> r, counted |-> a.counted]
        /\ r \in TripRows
        /\ r.first_seen = seen.first_seen /\ r.last_seen = seen.last_seen
        /\ r.start = seen.start /\ r.had_vehicle = seen.had_vehicle
        /\ r.final_status = IF won THEN u.status ELSE known.final_status
        /\ r.final_status_at = IF won THEN t ELSE known.final_status_at
        /\ r.first_canceled = IF u.status = "CANCELED"
                              THEN Trip!Earlier(known.first_canceled, t)
                              ELSE known.first_canceled
        /\ r.last_canceled = IF u.status = "CANCELED"
                             THEN Trip!Later(known.last_canceled, t)
                             ELSE known.last_canceled
        /\ r.polls = IF counts THEN [known.polls EXCEPT ![u.status] = @ + 1]
                     ELSE known.polls
        /\ a.counted = IF counts THEN red.counted \union {<<u.status, t>>}
                       ELSE red.counted
    <3>1. StatusAbsorbed(a, seen, red.counted, u, t)
      BY <1>1, <1>5, <1>8, AbsorbStatusIs
    <3> HIDE DEF a
    <3> QED
      BY <1>5, <3>1 DEF StatusAbsorbed
  <2>3. counts <=> /\ u.status \in Trip!POLL_COLUMNS
                   /\ t \notin PollsIn(K, I, u.status)
    BY <1>1, <1>3 DEF Trip!Counts
  <2>4. counts \in BOOLEAN
    BY DEF Trip!Counts
  <2> HIDE DEF a, counts
  <2>5. FinalIs(r, K, J)
    BY <1>4, <1>8, <2>2, FinalGrows
  <2>6. TallyIs(r, K, J)
    <3>1. r.had_vehicle = (known.had_vehicle \/ u.vehicle)
      BY <1>5, <2>2
    <3> HIDE DEF r, won
    <3> QED
      BY <1>4, <2>2, <2>3, <2>4, <3>1, TallyGrows, Zenon
  <2>7. SpanIs(r, K, J)
    BY <1>6, <2>2
  <2>8. \A s \in Trip!POLL_COLUMNS, x \in Nat :
          <<s, x>> \in a.counted <=> x \in PollsIn(K, J, s)
    <3> SUFFICES ASSUME NEW s \in Trip!POLL_COLUMNS, NEW x \in Nat
                 PROVE  <<s, x>> \in a.counted <=> x \in PollsIn(K, J, s)
      OBVIOUS
    <3>1. <<s, x>> = <<u.status, t>> <=> s = u.status /\ x = t
      OBVIOUS
    <3>2. <<s, x>> \in a.counted <=>
            \/ <<s, x>> \in red.counted
            \/ counts /\ s = u.status /\ x = t
      BY <2>2, <3>1
    <3>3. x \in PollsIn(K, J, s) <=>
            x \in PollsIn(K, I, s) \/ (s = u.status /\ x = t)
      BY <1>0 DEF Grown
    <3> QED
      BY <1>3, <2>3, <3>2, <3>3
  <2> QED
    BY <2>1, <2>2, <2>5, <2>6, <2>7, <2>8
       DEF TripReducerIs, TripPartIs, TripIs
<1> QED
  BY <1>7, <1>8

-----------------------------------------------------------------------------
(* From the hours to the day: S[h], of which x[h] is known, is what an     *)
(* hour h in A has of T.                                                   *)
Cut(A, S, T) ==
  /\ IsFiniteSet(A) /\ A # {}
  /\ T \subseteq Nat
  /\ \A h \in A : S[h] \subseteq T
  /\ \A t \in T : \E h \in A : t \in S[h]

Values(A, x) == {x[h] : h \in A}

LEMMA ValuesAre ==
  ASSUME NEW A, NEW x, IsFiniteSet(A), A # {}, \A h \in A : x[h] \in Int
  PROVE  /\ IsFiniteSet(Values(A, x)) /\ Values(A, x) \in SUBSET Int
         /\ Values(A, x) # {}
         /\ \A h \in A : x[h] \in Values(A, x)
         /\ \A y \in Values(A, x) : \E h \in A : y = x[h]
<1>1. IsFiniteSet({x[h] : h \in A})
  BY ImageFinite, Zenon
<1> QED
  BY <1>1 DEF Values

LEMMA GreatestJoins ==
  ASSUME NEW A, NEW S, NEW x, NEW T, Cut(A, S, T),
         \A h \in A : Greatest(x[h], S[h])
  PROVE  Greatest(Max(Values(A, x)), T)
<1> DEFINE X == Values(A, x)
<1>0. /\ T \subseteq Nat
      /\ \A t \in T : \E h \in A : t \in S[h]
      /\ \A h \in A : S[h] \subseteq T
      /\ IsFiniteSet(A) /\ A # {}
  BY DEF Cut
<1>1. \A h \in A : x[h] \in T /\ x[h] \in Int
  <2>1. \A h \in A : x[h] \in T
    BY <1>0 DEF Greatest
  <2>2. \A y \in T : y \in Int
    BY <1>0
  <2> QED
    BY <2>1, <2>2
<1>2. /\ IsFiniteSet(X) /\ X \in SUBSET Int /\ X # {}
      /\ \A h \in A : x[h] \in X
      /\ \A y \in X : \E h \in A : y = x[h]
  BY <1>0, <1>1, ValuesAre
<1>3. Max(X) \in X /\ \A m \in X : m <= Max(X)
  BY <1>2, MaxIs
<1>4. \A h \in A : x[h] \in X /\ x[h] \in T
  BY <1>0, <1>2 DEF Greatest
<1>5. Max(X) \in T
  BY <1>2, <1>3, <1>4
<1>6. ASSUME NEW t \in T PROVE t <= Max(X)
  <2>1. PICK h \in A : t \in S[h]
    BY <1>0
  <2>2. t <= x[h]
    BY <2>1 DEF Greatest
  <2>3. t \in Int /\ x[h] \in X /\ x[h] \in Int /\ \A y \in X : y \in Int
    BY <1>0, <1>1, <1>2
  <2>4. PICK z : z = Max(X)
    OBVIOUS
  <2>5. z \in X /\ \A m \in X : m <= z
    BY <1>3, <2>4
  <2> HIDE DEF X
  <2>6. t <= z
    BY <2>2, <2>3, <2>5
  <2> QED
    BY <2>4, <2>6
<1> QED
  BY <1>5, <1>6 DEF Greatest

LEMMA LeastJoins ==
  ASSUME NEW A, NEW S, NEW x, NEW T, Cut(A, S, T),
         \A h \in A : Least(x[h], S[h])
  PROVE  Least(Min(Values(A, x)), T)
<1> DEFINE X == Values(A, x)
<1>0. /\ T \subseteq Nat
      /\ \A t \in T : \E h \in A : t \in S[h]
      /\ \A h \in A : S[h] \subseteq T
      /\ IsFiniteSet(A) /\ A # {}
  BY DEF Cut
<1>1. \A h \in A : x[h] \in T /\ x[h] \in Int
  <2>1. \A h \in A : x[h] \in T
    BY <1>0 DEF Least
  <2>2. \A y \in T : y \in Int
    BY <1>0
  <2> QED
    BY <2>1, <2>2
<1>2. /\ IsFiniteSet(X) /\ X \in SUBSET Int /\ X # {}
      /\ \A h \in A : x[h] \in X
      /\ \A y \in X : \E h \in A : y = x[h]
  BY <1>0, <1>1, ValuesAre
<1>3. Min(X) \in X /\ \A m \in X : Min(X) <= m
  BY <1>2, MinIs
<1>4. \A h \in A : x[h] \in X /\ x[h] \in T
  BY <1>0, <1>2 DEF Least
<1>5. Min(X) \in T
  BY <1>2, <1>3, <1>4
<1>6. ASSUME NEW t \in T PROVE Min(X) <= t
  <2>1. PICK h \in A : t \in S[h]
    BY <1>0
  <2>2. x[h] <= t
    BY <2>1 DEF Least
  <2>3. t \in Int /\ x[h] \in X /\ x[h] \in Int /\ \A y \in X : y \in Int
    BY <1>0, <1>1, <1>2
  <2>4. PICK z : z = Min(X)
    OBVIOUS
  <2>5. z \in X /\ \A m \in X : z <= m
    BY <1>3, <2>4
  <2> HIDE DEF X
  <2>6. z <= t
    BY <2>2, <2>3, <2>5
  <2> QED
    BY <2>4, <2>6
<1> QED
  BY <1>5, <1>6 DEF Least

(* Times that are unset where a slice is empty.                            *)
LEMMA LatestJoins ==
  ASSUME NEW A, NEW S, NEW x, NEW T, Cut(A, S, T),
         \A h \in A : LatestOf(x[h], S[h])
  PROVE  LatestOf(Max(Values(A, x)), T)
<1> DEFINE X == Values(A, x)
<1>0. /\ T \subseteq Nat
      /\ \A t \in T : \E h \in A : t \in S[h]
      /\ \A h \in A : S[h] \subseteq T
      /\ IsFiniteSet(A) /\ A # {}
  BY DEF Cut
<1>1. \A h \in A : x[h] \in Int
  <2>1. \A h \in A : x[h] = Trip!Unset \/ x[h] \in T
    BY <1>0 DEF LatestOf, Greatest
  <2>2. \A y \in T : y \in Int
    BY <1>0
  <2> QED
    BY <2>1, <2>2, Columns
<1>2. /\ IsFiniteSet(X) /\ X \in SUBSET Int /\ X # {}
      /\ \A h \in A : x[h] \in X
      /\ \A y \in X : \E h \in A : y = x[h]
  BY <1>0, <1>1, ValuesAre
<1>3. Max(X) \in X /\ \A m \in X : m <= Max(X)
  BY <1>2, MaxIs
<1>4. \A h \in A : x[h] \in X /\ (x[h] = Trip!Unset \/ x[h] \in T)
  BY <1>0, <1>2 DEF LatestOf, Greatest
<1>5. ASSUME NEW t \in T PROVE t <= Max(X)
  <2>1. PICK h \in A : t \in S[h]
    BY <1>0
  <2>2. t <= x[h]
    BY <2>1 DEF LatestOf, Greatest
  <2>3. t \in Int /\ x[h] \in X /\ x[h] \in Int /\ \A y \in X : y \in Int
    BY <1>0, <1>1, <1>2
  <2>4. PICK z : z = Max(X)
    OBVIOUS
  <2>5. z \in X /\ \A m \in X : m <= z
    BY <1>3, <2>4
  <2> HIDE DEF X
  <2>6. t <= z
    BY <2>2, <2>3, <2>5
  <2> QED
    BY <2>4, <2>6
<1>6. CASE T = {}
  BY <1>2, <1>3, <1>4, <1>6 DEF LatestOf
<1>7. CASE T # {}
  <2>1. PICK t \in T : t \in Nat /\ t <= Max(X)
    BY <1>0, <1>5, <1>7
  <2>2. Max(X) # Trip!Unset
    BY <2>1, Columns DEF Trip!Unset
  <2>3. Max(X) \in T
    BY <1>2, <1>3, <1>4, <2>2
  <2> QED
    BY <1>5, <1>7, <2>3 DEF LatestOf, Greatest
<1> QED
  BY <1>6, <1>7

LEMMA EarliestJoins ==
  ASSUME NEW A, NEW S, NEW x, NEW T, Cut(A, S, T),
         \A h \in A : EarliestOf(x[h], S[h])
  PROVE  EarliestOf(Trip!MinKnown(Values(A, x)), T)
<1> DEFINE X == Values(A, x)
           Y == X \ {Trip!Unset}
<1>0. /\ T \subseteq Nat
      /\ \A t \in T : \E h \in A : t \in S[h]
      /\ \A h \in A : S[h] \subseteq T
      /\ IsFiniteSet(A) /\ A # {}
  BY DEF Cut
<1>1. \A h \in A : x[h] \in Int
  <2>1. \A h \in A : x[h] = Trip!Unset \/ x[h] \in T
    BY <1>0 DEF EarliestOf, Least
  <2>2. \A y \in T : y \in Int
    BY <1>0
  <2> QED
    BY <2>1, <2>2, Columns
<1>2. /\ IsFiniteSet(X) /\ X \in SUBSET Int /\ X # {}
      /\ \A h \in A : x[h] \in X
      /\ \A y \in X : \E h \in A : y = x[h]
  BY <1>0, <1>1, ValuesAre
<1>3. Trip!MinKnown(X) = IF Y = {} THEN Trip!Unset ELSE Min(Y)
  BY DEF Trip!MinKnown, Trip!Known, Trip!Min, Min
<1>4. \A h \in A : x[h] \in X /\ (x[h] = Trip!Unset \/ x[h] \in T)
  BY <1>0, <1>2 DEF EarliestOf, Least
<1>5. ASSUME NEW t \in T
      PROVE  \E y \in Y : y <= t
  <2>1. PICK h \in A : t \in S[h]
    BY <1>0
  <2>2. x[h] <= t /\ x[h] \in T
    BY <1>0, <2>1 DEF EarliestOf, Least
  <2> QED
    BY <1>0, <1>2, <2>2, Columns
<1>6. CASE T = {}
  BY <1>2, <1>3, <1>4, <1>6 DEF EarliestOf
<1>7. CASE T # {}
  <2>1. Y # {} /\ IsFiniteSet(Y) /\ Y \in SUBSET Int
    BY <1>2, <1>5, <1>7, FS_Subset
  <2>2. Min(Y) \in Y /\ \A m \in Y : Min(Y) <= m
    BY <2>1, MinIs
  <2>3. Min(Y) \in T
    BY <1>2, <1>4, <2>2
  <2>4. ASSUME NEW t \in T PROVE Min(Y) <= t
    <3>1. PICK y \in Y : y <= t
      BY <1>5
    <3>2. t \in Int /\ \A z \in Y : z \in Int
      BY <1>0, <2>1
    <3>3. PICK z : z = Min(Y)
      OBVIOUS
    <3>4. z \in Y /\ \A m \in Y : z <= m
      BY <2>2, <3>3
    <3> HIDE DEF X, Y
    <3>5. z <= t
      BY <3>1, <3>2, <3>4
    <3> QED
      BY <3>3, <3>5
  <2> QED
    BY <1>3, <1>7, <2>1, <2>3, <2>4 DEF EarliestOf, Least
<1> QED
  BY <1>6, <1>7

(* The fields of the merged row.                                           *)
LEMMA MergedTripIs ==
  ASSUME NEW parts
  PROVE  LET R == Trip!HoursOf(parts)
             F == Trip!Merged(parts) IN
         /\ F.start = parts[CHOOSE h \in R : \A g \in R :
                              parts[g].last_seen <= parts[h].last_seen].start
         /\ F.final_status = Trip!FinalStatus(parts)
         /\ F.final_status_at = Max(Values(R, [h \in R |-> parts[h].final_status_at]))
         /\ F.first_seen = Min(Values(R, [h \in R |-> parts[h].first_seen]))
         /\ F.last_seen = Max(Values(R, [h \in R |-> parts[h].last_seen]))
         /\ F.first_canceled =
              Trip!MinKnown(Values(R, [h \in R |-> parts[h].first_canceled]))
         /\ F.last_canceled =
              Max(Values(R, [h \in R |-> parts[h].last_canceled]))
         /\ F.had_vehicle = \E h \in R : parts[h].had_vehicle
         /\ \A s \in Trip!POLL_COLUMNS :
              F.polls[s] = SumFunctionOnSet([h \in R |-> parts[h].polls[s]], R)
<1> DEFINE R == Trip!HoursOf(parts)
           F == Trip!Merged(parts)
<1>1. /\ Values(R, [h \in R |-> parts[h].final_status_at])
           = {parts[h].final_status_at : h \in R}
      /\ Values(R, [h \in R |-> parts[h].first_seen])
           = {parts[h].first_seen : h \in R}
      /\ Values(R, [h \in R |-> parts[h].last_seen])
           = {parts[h].last_seen : h \in R}
      /\ Values(R, [h \in R |-> parts[h].first_canceled])
           = {parts[h].first_canceled : h \in R}
      /\ Values(R, [h \in R |-> parts[h].last_canceled])
           = {parts[h].last_canceled : h \in R}
  <2> HIDE DEF R
  <2> QED  BY DEF Values
<1>2. /\ F.start = parts[CHOOSE h \in R : \A g \in R :
                           parts[g].last_seen <= parts[h].last_seen].start
      /\ F.final_status = Trip!FinalStatus(parts)
      /\ F.had_vehicle = \E h \in R : parts[h].had_vehicle
  BY Zenon DEF Trip!Merged
<1>3. F.final_status_at = Max({parts[h].final_status_at : h \in R})
  BY DEF Trip!Merged, Trip!Column, Trip!Max, Max
<1>4. F.first_seen = Min({parts[h].first_seen : h \in R})
  BY DEF Trip!Merged, Trip!Column, Trip!Min, Min
<1>5. F.last_seen = Max({parts[h].last_seen : h \in R})
  BY DEF Trip!Merged, Trip!Column, Trip!Max, Max
<1>6. F.first_canceled = Trip!MinKnown({parts[h].first_canceled : h \in R})
  BY DEF Trip!Merged, Trip!Column
<1>7. F.last_canceled = Max({parts[h].last_canceled : h \in R})
  BY DEF Trip!Merged, Trip!Column, Trip!Max, Max
<1>8. ASSUME NEW s \in Trip!POLL_COLUMNS
      PROVE  F.polls[s] = SumFunctionOnSet([h \in R |-> parts[h].polls[s]], R)
  <2> DEFINE f == [h \in R |-> parts[h].polls[s]]
  <2>1. F.polls[s] = Trip!SumFunction(f)
    BY DEF Trip!Merged
  <2>2. DOMAIN f = R
    OBVIOUS
  <2> HIDE DEF f, F
  <2>3. Trip!SumFunction(f) = SumFunctionOnSet(f, R)
    BY <2>2, Zenon DEF Trip!SumFunction, Trip!FoldFunction, Trip!SumFunctionOnSet,
       Trip!FoldFunctionOnSet, Trip!MapThenFoldSet, SumFunctionOnSet,
       FoldFunctionOnSet, MapThenFoldSet
  <2> QED
    BY <2>1, <2>3 DEF f
<1> HIDE DEF F, R
<1> QED
  BY <1>1, <1>2, <1>3, <1>4, <1>5, <1>6, <1>7, <1>8 DEF F, R

Hearings == [at : Times, update : Updates]

(* The times of T in an hour.                                              *)
Slice(T, h)  == {t \in T : t \div HourLength = h}
Slices(A, T) == [h \in A |-> Slice(T, h)]

LEMMA SlicesCut ==
  ASSUME NEW A, NEW T, IsFiniteSet(A), A # {}, T \subseteq Nat,
         \A t \in T : t \div HourLength \in A
  PROVE  Cut(A, Slices(A, T), T)
BY DEF Cut, Slices, Slice

(* What an hour holds is the day's slice.                                  *)
LEMMA SlicesAre ==
  ASSUME NEW n \in Nat, NEW Entities, NEW H, LogOf(H, Entities, n), NEW h
  PROVE  LET I == HourOf(H, h)
             D == DOMAIN H IN
         /\ AtIn(H, I) = Slice(AtIn(H, D), h)
         /\ \A s : PollsIn(H, I, s) = Slice(PollsIn(H, D, s), h)
         /\ AtIn(H, SentIn(H, I)) = Slice(AtIn(H, SentIn(H, D)), h)
<1>1. AtIn(H, HourOf(H, h)) = Slice(AtIn(H, DOMAIN H), h)
  BY DEF AtIn, HourOf, Slice
<1>2. \A s : PollsIn(H, HourOf(H, h), s) = Slice(PollsIn(H, DOMAIN H, s), h)
  BY DEF AtIn, HourOf, Slice, PollsIn, TellingIn
<1>3. AtIn(H, SentIn(H, HourOf(H, h))) = Slice(AtIn(H, SentIn(H, DOMAIN H)), h)
  BY DEF AtIn, HourOf, Slice, SentIn
<1> QED
  BY <1>1, <1>2, <1>3

(* The day so far, with something in it, as partials.                      *)
TripDay(H, n, parts) ==
  /\ n \in Nat /\ LogOf(H, Hearings, n) /\ DOMAIN H # {}
  /\ DOMAIN parts = 0..n
  /\ \A h \in 0..n : TripPartIs(parts[h], H, HourOf(H, h))

LEMMA TripHours ==
  ASSUME NEW H, NEW n, NEW parts, TripDay(H, n, parts)
  PROVE  LET R == Trip!HoursOf(parts) IN
         /\ IsFiniteSet(R) /\ R # {} /\ R \subseteq 0..n
         /\ \A h \in 0..n : h \in R <=> HourOf(H, h) # {}
         /\ \A h \in R : TripIs(parts[h], H, HourOf(H, h))
         /\ \A i \in DOMAIN H : \E h \in R : i \in HourOf(H, h)
         /\ \A I : I \subseteq DOMAIN H => Cut(R, Slices(R, AtIn(H, I)), AtIn(H, I))
<1> DEFINE R == Trip!HoursOf(parts)
<1>1. /\ n \in Nat /\ LogOf(H, Hearings, n) /\ DOMAIN H # {}
      /\ DOMAIN parts = 0..n
      /\ \A h \in 0..n : TripPartIs(parts[h], H, HourOf(H, h))
  BY DEF TripDay
<1>2. R = {h \in 0..n : parts[h] # Trip!Nothing}
  BY <1>1 DEF Trip!HoursOf
<1>3. \A h \in 0..n : h \in R <=> HourOf(H, h) # {}
  BY <1>1, <1>2, RowIsSomething DEF TripPartIs, TripIs
<1>4. \A h \in R : TripIs(parts[h], H, HourOf(H, h))
  BY <1>1, <1>2, <1>3 DEF TripPartIs
<1>5. \A i \in DOMAIN H : \E h \in R : i \in HourOf(H, h)
  BY <1>1, <1>3, HoursAre
<1>6. IsFiniteSet(R)
  <2>1. IsFiniteSet(0..n)
    BY <1>1, FS_Interval
  <2> QED
    BY <1>2, <2>1, FS_Subset
<1>7. R # {}
  BY <1>1, <1>5
<1>8. ASSUME NEW I, I \subseteq DOMAIN H PROVE Cut(R, Slices(R, AtIn(H, I)), AtIn(H, I))
  <2>1. AtIn(H, I) \subseteq Nat
    BY <1>1, <1>8 DEF AtIn, LogOf
  <2>2. \A t \in AtIn(H, I) : t \div HourLength \in R
    BY <1>5, <1>8 DEF AtIn, HourOf
  <2> QED
    BY <1>6, <1>7, <2>1, <2>2, SlicesCut
<1> QED
  BY <1>2, <1>3, <1>4, <1>5, <1>6, <1>7, <1>8

(* The merged row spans the day.                                           *)
LEMMA SpanMerges ==
  ASSUME NEW H, NEW n, NEW parts, TripDay(H, n, parts)
  PROVE  LET F == Trip!Merged(parts) IN
         /\ Least(F.first_seen, AtIn(H, DOMAIN H))
         /\ Greatest(F.last_seen, AtIn(H, DOMAIN H))
         /\ F.start = H[Len(H)].update.start
<1> DEFINE R == Trip!HoursOf(parts)
           F == Trip!Merged(parts)
           T == AtIn(H, DOMAIN H)
           x == [h \in R |-> parts[h].first_seen]
           y == [h \in R |-> parts[h].last_seen]
<1>1. /\ R # {} /\ Cut(R, Slices(R, T), T)
      /\ \A h \in R : TripIs(parts[h], H, HourOf(H, h))
      /\ \A i \in DOMAIN H : \E h \in R : i \in HourOf(H, h)
  BY TripHours
<1>2. n \in Nat /\ LogOf(H, Hearings, n) /\ DOMAIN H # {}
  BY DEF TripDay
<1>3. \A h : AtIn(H, HourOf(H, h)) = Slice(T, h)
  BY <1>2, SlicesAre
<1>4. \A h \in R : Least(x[h], Slice(T, h)) /\ Greatest(y[h], Slice(T, h))
  BY <1>1, <1>3 DEF TripIs, SpanIs
<1>5. /\ F.first_seen = Min(Values(R, x)) /\ F.last_seen = Max(Values(R, y))
      /\ F.start = parts[CHOOSE h \in R : \A g \in R :
                           parts[g].last_seen <= parts[h].last_seen].start
  BY MergedTripIs
<1> HIDE DEF F, R, T, x, y
<1>6. Least(F.first_seen, T) /\ Greatest(F.last_seen, T)
  <2>1. \A h \in R : /\ Least(x[h], Slices(R, T)[h])
                    /\ Greatest(y[h], Slices(R, T)[h])
    BY <1>4 DEF Slices
  <2> QED
    BY <1>1, <1>5, <2>1, LeastJoins, GreatestJoins
<1>7. F.start = H[Len(H)].update.start
  <2>1. \A h \in R : y[h] = parts[h].last_seen
    BY DEF y
  <2>2. \A h \in R : y[h] \in T /\ y[h] <= F.last_seen
    BY <1>4, <1>6 DEF Greatest, Slice
  <2>3. \E h \in R : y[h] = F.last_seen
    <3>1. PICK i \in DOMAIN H : H[i].at = F.last_seen
      BY <1>6 DEF Greatest, T, AtIn
    <3>2. PICK h \in R : i \in HourOf(H, h)
      BY <1>1
    <3>3. F.last_seen \in Slice(T, h)
      BY <3>1, <3>2 DEF HourOf, Slice, T, AtIn
    <3>4. F.last_seen <= y[h]
      BY <1>4, <3>3 DEF Greatest
    <3>5. T \subseteq Nat
      BY <1>1 DEF Cut
    <3>6. y[h] \in Nat /\ F.last_seen \in Nat
      BY <1>6, <2>2, <3>5 DEF Greatest
    <3> QED
      BY <2>2, <3>4, <3>6
  <2> DEFINE top == CHOOSE h \in R : \A g \in R :
                      parts[g].last_seen <= parts[h].last_seen
  <2>4. top \in R /\ \A g \in R : parts[g].last_seen <= parts[top].last_seen
    <3>1. \E h \in R : \A g \in R : parts[g].last_seen <= parts[h].last_seen
      BY <2>1, <2>2, <2>3
    <3> QED
      BY <3>1
  <2>5. F.start = parts[top].start
    BY <1>5
  <2> HIDE DEF top
  <2>6. y[top] = F.last_seen
    <3>1. PICK h \in R : y[h] = F.last_seen
      BY <2>3
    <3>2. F.last_seen <= y[top] /\ y[top] <= F.last_seen
      BY <2>1, <2>2, <2>4, <3>1
    <3>3. T \subseteq Nat
      BY <1>1 DEF Cut
    <3>4. y[top] \in Nat /\ F.last_seen \in Nat
      BY <1>6, <2>2, <2>4, <3>3 DEF Greatest
    <3> QED
      BY <3>2, <3>4
  <2> DEFINE L == Len(H)
  <2>7. L \in DOMAIN H /\ L \in Nat /\ \A i \in DOMAIN H : i <= L /\ i \in Nat
    BY <1>2, HoursAre
  <2>8. H[L].at = F.last_seen
    <3>1. PICK i \in DOMAIN H : H[i].at = F.last_seen
      BY <1>6 DEF Greatest, T, AtIn
    <3>2. H[i].at <= H[L].at /\ H[i].at \in Nat /\ H[L].at \in Nat
      BY <1>2, <2>7 DEF LogOf
    <3>3. H[L].at <= F.last_seen
      BY <1>6, <2>7 DEF Greatest, T, AtIn
    <3> QED
      BY <3>1, <3>2, <3>3
  <2>9. L \in HourOf(H, top)
    <3>1. y[top] \in Slice(T, top)
      BY <1>4, <2>4 DEF Greatest
    <3> QED
      BY <2>6, <2>7, <2>8, <3>1 DEF Slice, HourOf
  <2>10. PICK l \in HourOf(H, top) : /\ Greatest(l, HourOf(H, top))
                                     /\ parts[top].start = H[l].update.start
    BY <1>1, <2>4 DEF TripIs, SpanIs
  <2>11. l = L
    BY <2>7, <2>9, <2>10 DEF Greatest, HourOf
  <2> QED
    BY <2>5, <2>10, <2>11
<1> QED
  BY <1>6, <1>7 DEF F, T

(* Its final status is the day's.                                          *)
LEMMA FinalMerges ==
  ASSUME NEW H, NEW n, NEW parts, TripDay(H, n, parts)
  PROVE  FinalIs(Trip!Merged(parts), H, DOMAIN H)
<1> DEFINE R == Trip!HoursOf(parts)
           F == Trip!Merged(parts)
           D == DOMAIN H
           T == AtIn(H, SentIn(H, D))
           z == [h \in R |-> parts[h].final_status_at]
           sent == {h \in R : parts[h].final_status_at # Trip!Unset}
           top == CHOOSE h \in sent : \A g \in sent :
                    parts[g].final_status_at <= parts[h].final_status_at
<1>0. n \in Nat /\ LogOf(H, Hearings, n) /\ SentIn(H, D) \subseteq D
  BY DEF TripDay, SentIn
<1>1. /\ Cut(R, Slices(R, T), T)
      /\ \A h \in R : FinalIs(parts[h], H, HourOf(H, h))
      /\ \A i \in D : \E h \in R : i \in HourOf(H, h)
  BY <1>0, TripHours DEF TripIs
<1>2. \A h : AtIn(H, SentIn(H, HourOf(H, h))) = Slice(T, h)
  BY <1>0, SlicesAre
<1>3. \A h \in R : z[h] = parts[h].final_status_at
  OBVIOUS
<1>4. /\ F.final_status_at = Max(Values(R, z))
      /\ F.final_status = Trip!FinalStatus(parts)
  BY MergedTripIs
<1>5. Trip!FinalStatus(parts) =
        IF sent = {} THEN Trip!Unsent ELSE parts[top].final_status
  BY DEF Trip!FinalStatus
<1> HIDE DEF F, R, z, top
<1>6. \A h \in R : LatestOf(z[h], Slice(T, h))
  BY <1>1, <1>2, <1>3 DEF FinalIs
<1> HIDE DEF T
<1>7. LatestOf(F.final_status_at, T)
  <2>1. \A h \in R : LatestOf(z[h], Slices(R, T)[h])
    BY <1>6 DEF Slices
  <2> QED
    BY <1>1, <1>4, <2>1, LatestJoins
<1>8. T \subseteq Nat
  BY <1>1 DEF Cut
<1>9. CASE SentIn(H, D) = {}
  <2>1. T = {}
    BY <1>9 DEF T, AtIn
  <2>2. \A h \in R : z[h] = Trip!Unset
    BY <1>6, <2>1 DEF LatestOf, Slice
  <2>3. F.final_status = Trip!Unsent
    BY <1>3, <1>4, <1>5, <2>2
  <2> QED
    BY <1>7, <1>9, <2>3 DEF FinalIs, T, F
<1>10. CASE SentIn(H, D) # {}
  <2>1. PICK i0 \in SentIn(H, D) : H[i0].at = F.final_status_at
    <3>1. T # {}
      BY <1>10 DEF T, AtIn
    <3>2. F.final_status_at \in T
      BY <1>7, <3>1 DEF LatestOf, Greatest
    <3> QED
      BY <3>2 DEF T, AtIn
  <2>2. F.final_status_at \in T /\ \A t \in T : t <= F.final_status_at
    BY <1>7, <2>1 DEF LatestOf, Greatest, T, AtIn
  <2>3. \A h \in R : z[h] = Trip!Unset \/ (z[h] \in T /\ z[h] <= F.final_status_at)
    BY <1>6, <2>2 DEF LatestOf, Greatest, Slice
  <2>4. \E h \in R : z[h] = F.final_status_at
    <3>1. PICK h \in R : i0 \in HourOf(H, h)
      BY <1>0, <1>1
    <3>2. F.final_status_at \in Slice(T, h)
      BY <2>1, <2>2, <3>1 DEF HourOf, Slice
    <3>3. z[h] \in Slice(T, h) /\ F.final_status_at <= z[h]
      BY <1>6, <3>2 DEF LatestOf, Greatest
    <3>4. z[h] \in T /\ z[h] <= F.final_status_at
      BY <2>2, <3>3 DEF Slice
    <3>5. z[h] \in Nat /\ F.final_status_at \in Nat
      BY <1>8, <2>2, <3>4
    <3> QED
      BY <3>3, <3>4, <3>5
  <2>5. F.final_status_at # Trip!Unset
    BY <1>8, <2>2, Columns
  <2>6. top \in sent /\ \A g \in sent :
          parts[g].final_status_at <= parts[top].final_status_at
    <3>1. \E h \in sent : \A g \in sent :
            parts[g].final_status_at <= parts[h].final_status_at
      BY <1>3, <2>3, <2>4, <2>5
    <3> QED
      BY <3>1 DEF top
  <2>7. top \in R /\ F.final_status = parts[top].final_status
    BY <1>4, <1>5, <2>6
  <2>8. z[top] = F.final_status_at
    <3>1. PICK h \in R : z[h] = F.final_status_at
      BY <2>4
    <3>2. F.final_status_at <= z[top]
      BY <1>3, <2>5, <2>6, <3>1
    <3>3. z[top] \in T /\ z[top] <= F.final_status_at
      BY <1>3, <2>3, <2>6
    <3>4. z[top] \in Nat /\ F.final_status_at \in Nat
      BY <1>8, <2>2, <3>3
    <3> QED
      BY <3>2, <3>3, <3>4
  <2>9. F.final_status_at \div HourLength = top
    BY <1>6, <2>3, <2>5, <2>7, <2>8 DEF LatestOf, Greatest, Slice
  <2>10. \A j \in SentIn(H, D) : H[j].at = F.final_status_at =>
           j \in SentIn(H, HourOf(H, top))
    BY <2>9 DEF SentIn, HourOf
  <2>11. SentIn(H, HourOf(H, top)) # {}
    BY <2>1, <2>10
  <2>12. /\ parts[top].final_status_at = F.final_status_at
         /\ parts[top].final_status = F.final_status
    BY <1>3, <2>7, <2>8
  <2>13. /\ \E i \in SentIn(H, HourOf(H, top)) :
              /\ H[i].at = F.final_status_at
              /\ H[i].update.status = F.final_status
         /\ \A j \in SentIn(H, HourOf(H, top)) : H[j].at = F.final_status_at =>
              Trip!Rank(F.final_status) <= Trip!Rank(H[j].update.status)
    BY <1>1, <2>7, <2>11, <2>12 DEF FinalIs
  <2>14. SentIn(H, HourOf(H, top)) \subseteq SentIn(H, D)
    BY DEF SentIn, HourOf
  <2>15. /\ \E i \in SentIn(H, D) : /\ H[i].at = F.final_status_at
                                    /\ H[i].update.status = F.final_status
         /\ \A j \in SentIn(H, D) : H[j].at = F.final_status_at =>
              Trip!Rank(F.final_status) <= Trip!Rank(H[j].update.status)
    BY <2>10, <2>13, <2>14
  <2> QED
    BY <1>7, <1>10, <2>15 DEF FinalIs, T, F
<1> QED
  BY <1>9, <1>10

(* Its counts are of the day's polls, each of which is in one hour.        *)
LEMMA TallyMerges ==
  ASSUME NEW H, NEW n, NEW parts, TripDay(H, n, parts)
  PROVE  TallyIs(Trip!Merged(parts), H, DOMAIN H)
<1> DEFINE R == Trip!HoursOf(parts)
           F == Trip!Merged(parts)
           D == DOMAIN H
           T(s) == PollsIn(H, D, s)
           x == [h \in R |-> parts[h].first_canceled]
           y == [h \in R |-> parts[h].last_canceled]
<1>0. n \in Nat /\ LogOf(H, Hearings, n) /\ \A s : TellingIn(H, D, s) \subseteq D
  BY DEF TripDay, TellingIn
<1>1. /\ \A s : Cut(R, Slices(R, T(s)), T(s))
      /\ IsFiniteSet(R)
      /\ \A h \in R : TallyIs(parts[h], H, HourOf(H, h))
      /\ \A i \in D : \E h \in R : i \in HourOf(H, h)
  BY <1>0, TripHours DEF TripIs, PollsIn
<1>2. \A h, s : PollsIn(H, HourOf(H, h), s) = Slice(T(s), h)
  BY <1>0, SlicesAre
<1>3. /\ F.first_canceled = Trip!MinKnown(Values(R, x))
      /\ F.last_canceled = Max(Values(R, y))
      /\ F.had_vehicle = \E h \in R : parts[h].had_vehicle
      /\ \A s \in Trip!POLL_COLUMNS :
           F.polls[s] = SumFunctionOnSet([h \in R |-> parts[h].polls[s]], R)
  BY MergedTripIs
<1> HIDE DEF F, R, x, y
<1>4. EarliestOf(F.first_canceled, T("CANCELED"))
  <2>1. \A h \in R : EarliestOf(x[h], Slices(R, T("CANCELED"))[h])
    BY <1>1, <1>2 DEF TallyIs, x, Slices
  <2> QED
    BY <1>1, <1>3, <2>1, EarliestJoins
<1>5. LatestOf(F.last_canceled, T("CANCELED"))
  <2>1. \A h \in R : LatestOf(y[h], Slices(R, T("CANCELED"))[h])
    BY <1>1, <1>2 DEF TallyIs, y, Slices
  <2> QED
    BY <1>1, <1>3, <2>1, LatestJoins
<1>6. F.had_vehicle = \E i \in D : H[i].update.vehicle
  <2>1. \A h \in R : parts[h].had_vehicle =
                       \E i \in HourOf(H, h) : H[i].update.vehicle
    BY <1>1 DEF TallyIs
  <2>2. \A h \in R : HourOf(H, h) \subseteq D
    BY DEF HourOf
  <2>3. (\E h \in R : parts[h].had_vehicle) <=> \E i \in D : H[i].update.vehicle
    BY <1>1, <2>1, <2>2
  <2> QED
    BY <1>3, <2>3
<1>7. ASSUME NEW s \in Trip!POLL_COLUMNS
      PROVE  F.polls[s] = Cardinality(T(s))
  <2> DEFINE f == [h \in R |-> parts[h].polls[s]]
             P == [h \in R |-> Slice(T(s), h)]
  <2>1. \A h \in R : IsFiniteSet(P[h]) /\ f[h] = Cardinality(P[h])
    <3> SUFFICES ASSUME NEW h \in R
                 PROVE  IsFiniteSet(P[h]) /\ f[h] = Cardinality(P[h])
      OBVIOUS
    <3> DEFINE g == [i \in TellingIn(H, HourOf(H, h), s) |-> H[i].at]
    <3>1. IsFiniteSet(TellingIn(H, HourOf(H, h), s))
      <4>1. IsFiniteSet(HourOf(H, h))
        BY <1>0, HoursAre
      <4> QED
        BY <4>1, FS_Subset DEF TellingIn
    <3>2. P[h] = PollsIn(H, HourOf(H, h), s)
      BY <1>2
    <3>3. P[h] = {g[i] : i \in TellingIn(H, HourOf(H, h), s)}
      BY <3>2 DEF PollsIn, AtIn
    <3>4. f[h] = Cardinality(P[h])
      BY <1>1, <3>2 DEF TallyIs
    <3> HIDE DEF g, f, P
    <3>5. IsFiniteSet({g[i] : i \in TellingIn(H, HourOf(H, h), s)})
      BY <3>1, ImageFinite, Zenon
    <3> QED
      BY <3>3, <3>4, <3>5
  <2>2. \A h, g \in R : h # g => P[h] \intersect P[g] = {}
    BY DEF Slice
  <2>3. UNION {P[h] : h \in R} = T(s)
    <3>1. Cut(R, Slices(R, T(s)), T(s))
      BY <1>1
    <3>2. /\ \A t \in T(s) : \E h \in R : t \in Slice(T(s), h)
          /\ \A h \in R : Slice(T(s), h) \subseteq T(s)
      BY <3>1 DEF Cut, Slices
    <3> HIDE DEF T
    <3> QED
      BY <3>2
  <2>4. F.polls[s] = SumFunctionOnSet(f, R)
    BY <1>3
  <2> HIDE DEF f, P, T
  <2>5. SumFunctionOnSet(f, R) = Cardinality(UNION {P[h] : h \in R})
    <3>1. IsFiniteSet(R)
      BY <1>1
    <3> QED
      BY <2>1, <2>2, <3>1, SumOfSizes
  <2> QED
    BY <2>3, <2>4, <2>5
<1> QED
  BY <1>4, <1>5, <1>6, <1>7 DEF TallyIs, F

-----------------------------------------------------------------------------
(* Stops.                                                                  *)

StopEvents ==
  {Stop!NoEvent}
    \union {Stop!StopEvent(u.stops[c].arrival) : u \in Updates, c \in Calls}
    \union {Stop!StopEvent(u.stops[c].departure) : u \in Updates, c \in Calls}

Relationships ==
  {"none"} \union {u.stops[c].relationship : u \in Updates, c \in Calls}

StopRows ==
  [arrival : StopEvents, arrival_updated : Int, departure : StopEvents,
   last_update : Int, n_updates : Nat, relationship : Relationships,
   had_vehicle : BOOLEAN, lost_tracking : BOOLEAN, last_observed : Int]

Observed ==
  [seen : Nat, vehicle : BOOLEAN, relationship : Relationships,
   arrival : StopEvents, departure : StopEvents]

LEMMA ObservationType ==
  ASSUME NEW u \in Updates, NEW c \in DOMAIN u.stops, NEW t \in Nat
  PROVE  Stop!Observation(u, c, t) \in Observed
<1>1. u.stamp \in Nat \union {Stop!Unset} /\ u.vehicle \in BOOLEAN /\ c \in Calls
  BY ReductionsAssumption DEF ReductionsAssumption
<1>2. Stop!ObservationTime(u, t) \in Nat
  BY <1>1 DEF Stop!ObservationTime
<1>3. /\ u.stops[c].relationship \in Relationships
      /\ Stop!StopEvent(u.stops[c].arrival) \in StopEvents
      /\ Stop!StopEvent(u.stops[c].departure) \in StopEvents
  BY <1>1 DEF Relationships, StopEvents
<1> QED
  BY <1>1, <1>2, <1>3 DEF Stop!Observation, Observed

(* What absorbing an observation o does to a row.                          *)
StopAbsorbed(r, row, o) ==
  LET real == o.relationship \in Stop!Real
      wins == real /\ ~(o.seen < row.last_update)
      told == wins /\ o.arrival # Stop!NoEvent IN
  /\ r \in StopRows
  /\ r.had_vehicle = (row.had_vehicle \/ o.vehicle)
  /\ r.last_observed = IF o.seen >= row.last_observed THEN o.seen
                       ELSE row.last_observed
  /\ r.n_updates = IF real THEN row.n_updates + 1 ELSE row.n_updates
  /\ r.last_update = IF wins THEN o.seen ELSE row.last_update
  /\ r.arrival = IF told THEN o.arrival ELSE row.arrival
  /\ r.arrival_updated = IF told THEN o.seen ELSE row.arrival_updated
  /\ r.departure = IF wins THEN o.departure ELSE row.departure
  /\ r.relationship = IF wins \/ row.last_update = Stop!Unset
                      THEN o.relationship ELSE row.relationship

LEMMA AbsorbStopIs ==
  ASSUME NEW row \in StopRows, NEW o \in Observed
  PROVE  StopAbsorbed(Stop!AbsorbStop(row, o), row, o)
<1> DEFINE real == o.relationship \in Stop!Real
           wins == real /\ ~(o.seen < row.last_update)
           told == wins /\ o.arrival # Stop!NoEvent
           saw == row.had_vehicle \/ o.vehicle
           v == [row EXCEPT !.had_vehicle = @ \/ o.vehicle]
           w == Stop!NoteObservation(v, o)
           x == [w EXCEPT !.n_updates = @ + 1]
           y == [x EXCEPT
                   !.arrival = IF o.arrival = Stop!NoEvent THEN @ ELSE o.arrival,
                   !.arrival_updated = IF o.arrival = Stop!NoEvent THEN @ ELSE o.seen,
                   !.departure = o.departure,
                   !.last_update = o.seen,
                   !.relationship = o.relationship]
           r == Stop!AbsorbStop(row, o)
<1>0. /\ o.seen \in Int /\ o.vehicle \in BOOLEAN
      /\ o.relationship \in Relationships
      /\ o.arrival \in StopEvents /\ o.departure \in StopEvents
  BY DEF Observed
<1>1. /\ v \in StopRows /\ v.had_vehicle = saw
      /\ v.last_observed = row.last_observed /\ v.n_updates = row.n_updates
      /\ v.last_update = row.last_update /\ v.arrival = row.arrival
      /\ v.arrival_updated = row.arrival_updated
      /\ v.departure = row.departure
      /\ v.relationship = row.relationship
  <2>1. v = [row EXCEPT !.had_vehicle = saw] /\ saw \in BOOLEAN
    BY <1>0 DEF StopRows
  <2> HIDE DEF v, saw
  <2> QED
    BY <2>1 DEF StopRows
<1> HIDE DEF v
<1>2. /\ w \in StopRows /\ w.had_vehicle = saw
      /\ w.last_observed = IF o.seen >= row.last_observed THEN o.seen
                           ELSE row.last_observed
      /\ w.n_updates = row.n_updates
      /\ w.last_update = row.last_update /\ w.arrival = row.arrival
      /\ w.arrival_updated = row.arrival_updated
      /\ w.departure = row.departure
      /\ w.relationship = IF row.last_update = Stop!Unset THEN o.relationship
                          ELSE row.relationship
  <2> DEFINE a == IF o.seen >= v.last_observed THEN o.seen ELSE v.last_observed
             b == IF v.last_update = Stop!Unset THEN o.relationship
                  ELSE v.relationship
  <2>1. w = [v EXCEPT !.last_observed = a, !.relationship = b]
    BY DEF Stop!NoteObservation
  <2>2. a \in Int /\ b \in Relationships
    BY <1>0, <1>1 DEF StopRows
  <2>3. a = IF o.seen >= row.last_observed THEN o.seen ELSE row.last_observed
    BY <1>1
  <2> HIDE DEF w, a, b
  <2>4. /\ w \in StopRows /\ w.had_vehicle = v.had_vehicle
        /\ w.last_observed = a /\ w.n_updates = v.n_updates
        /\ w.last_update = v.last_update /\ w.arrival = v.arrival
        /\ w.arrival_updated = v.arrival_updated
        /\ w.departure = v.departure /\ w.relationship = b
    BY <1>1, <2>1, <2>2 DEF StopRows
  <2>5. b = IF row.last_update = Stop!Unset THEN o.relationship
            ELSE row.relationship
    BY <1>1 DEF b
  <2> QED
    BY <1>1, <2>3, <2>4, <2>5
<1> HIDE DEF w, saw
<1>3. /\ x \in StopRows /\ x.had_vehicle = w.had_vehicle
      /\ x.last_observed = w.last_observed /\ x.n_updates = w.n_updates + 1
      /\ x.last_update = w.last_update /\ x.arrival = w.arrival
      /\ x.arrival_updated = w.arrival_updated
      /\ x.departure = w.departure /\ x.relationship = w.relationship
  BY <1>2 DEF StopRows
<1>4. r = IF real THEN (IF o.seen < w.last_update THEN x ELSE y) ELSE w
  BY DEF Stop!AbsorbStop, Stop!ApplyReal, v, w
<1> HIDE DEF r, x
<1>5. /\ y \in StopRows /\ y.had_vehicle = x.had_vehicle
      /\ y.last_observed = x.last_observed /\ y.n_updates = x.n_updates
      /\ y.last_update = o.seen
      /\ y.arrival = IF o.arrival = Stop!NoEvent THEN x.arrival ELSE o.arrival
      /\ y.arrival_updated = IF o.arrival = Stop!NoEvent THEN x.arrival_updated
                             ELSE o.seen
      /\ y.departure = o.departure /\ y.relationship = o.relationship
  <2> DEFINE a == IF o.arrival = Stop!NoEvent THEN x.arrival ELSE o.arrival
             b == IF o.arrival = Stop!NoEvent THEN x.arrival_updated ELSE o.seen
  <2>1. y = [x EXCEPT !.arrival = a, !.arrival_updated = b,
                      !.departure = o.departure, !.last_update = o.seen,
                      !.relationship = o.relationship]
    OBVIOUS
  <2>2. a \in StopEvents /\ b \in Int
    BY <1>0, <1>3 DEF StopRows
  <2> HIDE DEF y, a, b
  <2>3. /\ y \in StopRows /\ y.had_vehicle = x.had_vehicle
        /\ y.last_observed = x.last_observed /\ y.n_updates = x.n_updates
        /\ y.last_update = o.seen /\ y.arrival = a /\ y.arrival_updated = b
        /\ y.departure = o.departure /\ y.relationship = o.relationship
    BY <1>0, <1>3, <2>1, <2>2 DEF StopRows
  <2> QED
    BY <2>3 DEF a, b
<1> HIDE DEF y
<1>6. /\ r \in StopRows /\ r.had_vehicle = saw
      /\ r.last_observed = w.last_observed
      /\ r.n_updates = IF real THEN row.n_updates + 1 ELSE row.n_updates
  BY <1>2, <1>3, <1>4, <1>5
<1>7. /\ r.last_update = IF wins THEN o.seen ELSE row.last_update
      /\ r.arrival = IF told THEN o.arrival ELSE row.arrival
      /\ r.arrival_updated = IF told THEN o.seen ELSE row.arrival_updated
  BY <1>2, <1>3, <1>4, <1>5
<1>8. r.departure = IF wins THEN o.departure ELSE row.departure
  BY <1>2, <1>3, <1>4, <1>5
<1>9. r.relationship = IF wins \/ row.last_update = Stop!Unset
                       THEN o.relationship ELSE row.relationship
  <2>1. o.seen \in Nat
    BY DEF Observed
  <2>2. row.last_update = Stop!Unset => ~(o.seen < row.last_update)
    BY <2>1 DEF Stop!Unset
  <2> QED
    BY <1>2, <1>3, <1>4, <1>5, <2>2
<1> QED
  BY <1>2, <1>6, <1>7, <1>8, <1>9 DEF StopAbsorbed, r, saw

(* What the updates among I say of a call c, and when it was observed.     *)
SaidBy(H, i, c)      == Stop!Observation(H[i].update, c, H[i].at)
SayingIn(H, I, c)    == {i \in I : /\ c \in DOMAIN H[i].update.stops
                                   /\ ~Stop!DatedADayAhead(H[i].update)}
ReportingIn(H, I, c) ==
  {i \in SayingIn(H, I, c) : SaidBy(H, i, c).relationship \in Stop!Real}
SeenIn(H, I, c)      == {SaidBy(H, i, c).seen : i \in I}

(* The arrival and its time came together, from one that reports.          *)
ArrivalIs(arrival, updated, H, I, c) ==
  IF updated = Stop!Unset THEN arrival = Stop!NoEvent
  ELSE \E i \in ReportingIn(H, I, c) : /\ SaidBy(H, i, c).arrival = arrival
                                       /\ SaidBy(H, i, c).seen = updated

(* The row r is that of the updates at I in H, which may say nothing of c. *)
StopIs(r, H, I, c) ==
  /\ r \in StopRows
  /\ r.n_updates = Cardinality(ReportingIn(H, I, c))
  /\ r.had_vehicle = \E i \in SayingIn(H, I, c) : SaidBy(H, i, c).vehicle
  /\ LatestOf(r.last_observed, SeenIn(H, SayingIn(H, I, c), c))
  /\ LatestOf(r.last_update, SeenIn(H, ReportingIn(H, I, c), c))
  /\ ArrivalIs(r.arrival, r.arrival_updated, H, I, c)
  /\ r.last_update = Stop!Unset => r.departure = Stop!NoEvent

StopTableIs(table, H, I) ==
  /\ \A c : c \in DOMAIN table <=> SayingIn(H, I, c) # {}
  /\ \A c \in DOMAIN table : StopIs(table[c], H, I, c)

LEMMA StopSets ==
  ASSUME NEW H, NEW I, NEW c
  PROVE  /\ SayingIn(H, I, c) \subseteq I
         /\ ReportingIn(H, I, c) \subseteq SayingIn(H, I, c)
BY DEF SayingIn, ReportingIn

LEMMA SaidType ==
  ASSUME NEW H, NEW I, \A i \in I : H[i].at \in Nat /\ H[i].update \in Updates,
         NEW c
  PROVE  /\ \A i \in SayingIn(H, I, c) : /\ SaidBy(H, i, c) \in Observed
                                        /\ SaidBy(H, i, c).seen \in Nat
         /\ SeenIn(H, SayingIn(H, I, c), c) \subseteq Nat
         /\ SeenIn(H, ReportingIn(H, I, c), c) \subseteq Nat
<1>1. ASSUME NEW i \in SayingIn(H, I, c)
      PROVE  SaidBy(H, i, c) \in Observed /\ SaidBy(H, i, c).seen \in Nat
  <2>1. /\ H[i].update \in Updates /\ H[i].at \in Nat
        /\ c \in DOMAIN H[i].update.stops
    BY DEF SayingIn
  <2>2. SaidBy(H, i, c) \in Observed
    BY <2>1, ObservationType DEF SaidBy
  <2> QED
    BY <2>2 DEF Observed
<1> QED
  BY <1>1, StopSets DEF SeenIn

LEMMA StopsAgree ==
  ASSUME NEW H, NEW K, NEW I, \A i \in I : H[i] = K[i]
  PROVE  /\ \A c : SayingIn(H, I, c) = SayingIn(K, I, c)
         /\ \A r, c : StopIs(r, H, I, c) <=> StopIs(r, K, I, c)
         /\ \A table : StopTableIs(table, H, I) <=> StopTableIs(table, K, I)
<1>1. \A c : SayingIn(H, I, c) = SayingIn(K, I, c)
  BY DEF SayingIn
<1>2. \A i \in I : \A c : SaidBy(H, i, c) = SaidBy(K, i, c)
  BY DEF SaidBy
<1>3. \A c : ReportingIn(H, I, c) = ReportingIn(K, I, c)
  BY <1>1, <1>2, StopSets DEF ReportingIn
<1>4. \A c, L : L \subseteq I => SeenIn(H, L, c) = SeenIn(K, L, c)
  BY <1>2 DEF SeenIn
<1>5. ASSUME NEW r, NEW c PROVE StopIs(r, H, I, c) <=> StopIs(r, K, I, c)
  <2>1. /\ SeenIn(H, SayingIn(H, I, c), c) = SeenIn(K, SayingIn(K, I, c), c)
        /\ SeenIn(H, ReportingIn(H, I, c), c) = SeenIn(K, ReportingIn(K, I, c), c)
    BY <1>1, <1>3, <1>4, StopSets
  <2>2. ArrivalIs(r.arrival, r.arrival_updated, H, I, c)
          <=> ArrivalIs(r.arrival, r.arrival_updated, K, I, c)
    BY <1>2, <1>3, StopSets DEF ArrivalIs
  <2>3. (\E i \in SayingIn(H, I, c) : SaidBy(H, i, c).vehicle)
          = (\E i \in SayingIn(K, I, c) : SaidBy(K, i, c).vehicle)
    BY <1>1, <1>2, StopSets
  <2> QED
    BY <1>3, <2>1, <2>2, <2>3 DEF StopIs
<1> QED
  BY <1>1, <1>5 DEF StopTableIs

(* A stop that has not been heard of.                                      *)
LEMMA BlankStopIs ==
  ASSUME NEW H, NEW I, NEW c, SayingIn(H, I, c) = {}
  PROVE  StopIs(Stop!Blank, H, I, c)
<1>1. Stop!Blank \in StopRows
  BY DEF Stop!Blank, StopRows, StopEvents, Relationships, Stop!Unset
<1>2. ReportingIn(H, I, c) = {}
  BY StopSets
<1>3. SeenIn(H, {}, c) = {}
  BY DEF SeenIn
<1>4. Stop!Unset = Trip!Unset
  BY DEF Stop!Unset, Trip!Unset
<1> QED
  BY <1>1, <1>2, <1>3, <1>4, FS_EmptySet
     DEF StopIs, Stop!Blank, LatestOf, ArrivalIs

(* One more update, which says something of the stop.                      *)
LEMMA StopGrows ==
  ASSUME NEW K, NEW I, NEW n, NEW u, NEW t, NextAfter(K, I, n, u, t),
         NEW c \in DOMAIN u.stops, ~Stop!DatedADayAhead(u),
         NEW row, StopIs(row, K, I, c)
  PROVE  StopIs(Stop!AbsorbStop(row, Stop!Observation(u, c, t)),
                K, I \union {n}, c)
<1> DEFINE J == I \union {n}
           o == Stop!Observation(u, c, t)
           r == Stop!AbsorbStop(row, o)
           real == o.relationship \in Stop!Real
<1>0. /\ \A y \in SeenIn(K, SayingIn(K, I, c), c) : y \in Nat
      /\ \A y \in SeenIn(K, ReportingIn(K, I, c), c) : y \in Nat
  <2>1. \A i \in I : K[i].at \in Nat /\ K[i].update \in Updates
    BY DEF NextAfter
  <2> QED
    BY <2>1, SaidType
<1>1. /\ u \in Updates /\ t \in Nat /\ K[n].at = t /\ K[n].update = u
      /\ n \notin I /\ IsFiniteSet(I)
  BY DEF NextAfter
<1>2. row \in StopRows
  BY DEF StopIs
<1>3. o \in Observed /\ SaidBy(K, n, c) = o
  BY <1>1, ObservationType DEF SaidBy
<1>4. StopAbsorbed(r, row, o)
  BY <1>2, <1>3, AbsorbStopIs
<1> HIDE DEF o, r
<1>5. SayingIn(K, J, c) = SayingIn(K, I, c) \union {n}
  BY <1>1 DEF SayingIn
<1>6. ReportingIn(K, J, c) = IF real THEN ReportingIn(K, I, c) \union {n}
                             ELSE ReportingIn(K, I, c)
  BY <1>3, <1>5 DEF ReportingIn
<1>7. \A L : SeenIn(K, L \union {n}, c) = SeenIn(K, L, c) \union {o.seen}
  BY <1>3 DEF SeenIn
<1>8. o.seen \in Nat /\ row.last_observed \in Int /\ row.last_update \in Int
      /\ row.n_updates \in Nat
  BY <1>2, <1>3 DEF Observed, StopRows
<1>9. r.n_updates = Cardinality(ReportingIn(K, J, c))
  <2>1. row.n_updates = Cardinality(ReportingIn(K, I, c))
    BY DEF StopIs
  <2>2. CASE real
    <3>1. /\ ReportingIn(K, J, c) = ReportingIn(K, I, c) \union {n}
          /\ r.n_updates = row.n_updates + 1
      BY <1>4, <1>6, <2>2 DEF StopAbsorbed
    <3>2. n \notin ReportingIn(K, I, c) /\ IsFiniteSet(ReportingIn(K, I, c))
      BY <1>1, StopSets, FS_Subset
    <3>3. Cardinality(ReportingIn(K, J, c)) = Cardinality(ReportingIn(K, I, c)) + 1
      BY <3>1, <3>2, FS_AddElement
    <3> QED
      BY <2>1, <3>1, <3>3
  <2>3. CASE ~real
    BY <1>4, <1>6, <2>1, <2>3 DEF StopAbsorbed
  <2> QED
    BY <2>2, <2>3
<1>10. r.had_vehicle = \E i \in SayingIn(K, J, c) : SaidBy(K, i, c).vehicle
  <2>1. row.had_vehicle = \E i \in SayingIn(K, I, c) : SaidBy(K, i, c).vehicle
    BY DEF StopIs
  <2>2. r.had_vehicle = (row.had_vehicle \/ o.vehicle)
    BY <1>4 DEF StopAbsorbed
  <2>3. o.vehicle \in BOOLEAN
    BY <1>3 DEF Observed
  <2> QED
    BY <1>3, <1>5, <2>1, <2>2, <2>3
<1>11. LatestOf(r.last_observed, SeenIn(K, SayingIn(K, J, c), c))
  <2> DEFINE P == SeenIn(K, SayingIn(K, I, c), c)
  <2>1. SeenIn(K, SayingIn(K, J, c), c) = P \union {o.seen}
    BY <1>5, <1>7
  <2>2. LatestOf(row.last_observed, P)
    BY DEF StopIs
  <2>3. r.last_observed = IF o.seen >= row.last_observed THEN o.seen
                          ELSE row.last_observed
    BY <1>4 DEF StopAbsorbed
  <2>4. \A y \in P : y \in Nat
    BY <1>0
  <2> HIDE DEF P
  <2> QED
    BY <1>8, <2>1, <2>2, <2>3, <2>4, Columns DEF LatestOf, Greatest, Trip!Unset
<1>12. LatestOf(r.last_update, SeenIn(K, ReportingIn(K, J, c), c))
  <2> DEFINE P == SeenIn(K, ReportingIn(K, I, c), c)
  <2>1. SeenIn(K, ReportingIn(K, J, c), c) = IF real THEN P \union {o.seen} ELSE P
    BY <1>6, <1>7
  <2>2. LatestOf(row.last_update, P)
    BY DEF StopIs
  <2>3. r.last_update = IF real /\ ~(o.seen < row.last_update) THEN o.seen
                        ELSE row.last_update
    BY <1>4 DEF StopAbsorbed
  <2>4. \A y \in P : y \in Nat
    BY <1>0
  <2> HIDE DEF P
  <2> QED
    BY <1>8, <2>1, <2>2, <2>3, <2>4, Columns DEF LatestOf, Greatest, Trip!Unset
<1>13. ArrivalIs(r.arrival, r.arrival_updated, K, J, c)
  <2>1. ArrivalIs(row.arrival, row.arrival_updated, K, I, c)
    BY DEF StopIs
  <2> DEFINE told == /\ real /\ ~(o.seen < row.last_update)
                     /\ o.arrival # Stop!NoEvent
  <2>2. /\ r.arrival = IF told THEN o.arrival ELSE row.arrival
        /\ r.arrival_updated = IF told THEN o.seen ELSE row.arrival_updated
    BY <1>4 DEF StopAbsorbed
  <2>3. CASE told
    <3>1. n \in ReportingIn(K, J, c)
      BY <1>6, <2>3
    <3>2. o.seen # Stop!Unset
      BY <1>8 DEF Stop!Unset
    <3> QED
      BY <1>3, <2>2, <2>3, <3>1, <3>2 DEF ArrivalIs
  <2>4. CASE ~told
    <3>1. ReportingIn(K, I, c) \subseteq ReportingIn(K, J, c)
      BY <1>6
    <3>2. r.arrival = row.arrival /\ r.arrival_updated = row.arrival_updated
      BY <2>2, <2>4
    <3> QED
      BY <2>1, <3>1, <3>2 DEF ArrivalIs
  <2> QED
    BY <2>3, <2>4
<1>14. r.last_update = Stop!Unset => r.departure = Stop!NoEvent
  <2>1. row.last_update = Stop!Unset => row.departure = Stop!NoEvent
    BY DEF StopIs
  <2>2. o.seen # Stop!Unset
    BY <1>8 DEF Stop!Unset
  <2> QED
    BY <1>4, <2>1, <2>2 DEF StopAbsorbed
<1> QED
  BY <1>4, <1>9, <1>10, <1>11, <1>12, <1>13, <1>14
     DEF StopIs, StopAbsorbed, r, o

LEMMA NoStops ==
  ASSUME NEW H PROVE StopTableIs(<<>>, H, {})
<1>1. DOMAIN <<>> = {}
  OBVIOUS
<1> QED
  BY <1>1 DEF StopTableIs, SayingIn

(* The next update of the hour.                                            *)
LEMMA StopsKeep ==
  ASSUME NEW table, NEW H, NEW I, StopTableIs(table, H, I),
         NEW K, \A i \in I : K[i] = H[i],
         NEW n, NEW u, NEW t, NextAfter(K, I, n, u, t)
  PROVE  StopTableIs(Stop!AbsorbTrip(table, u, t), K, I \union {n})
<1> DEFINE J == I \union {n}
           new == Stop!AbsorbTrip(table, u, t)
<1>1. StopTableIs(table, K, I)
  BY StopsAgree
<1>2. K[n].at = t /\ K[n].update = u /\ n \notin I
  BY DEF NextAfter
<1>3. \A c : SayingIn(K, J, c) =
               IF c \in DOMAIN u.stops /\ ~Stop!DatedADayAhead(u)
               THEN SayingIn(K, I, c) \union {n} ELSE SayingIn(K, I, c)
  BY <1>2 DEF SayingIn
<1>4. ASSUME NEW c, NEW row, StopIs(row, K, I, c),
             SayingIn(K, J, c) = SayingIn(K, I, c)
      PROVE  StopIs(row, K, J, c)
  <2>1. ReportingIn(K, J, c) = ReportingIn(K, I, c)
    BY <1>4 DEF ReportingIn
  <2> QED
    BY <1>4, <2>1 DEF StopIs, ArrivalIs
<1>5. CASE Stop!DatedADayAhead(u)
  <2>1. new = table
    BY <1>5 DEF Stop!AbsorbTrip
  <2> QED
    BY <1>1, <1>3, <1>4, <1>5, <2>1 DEF StopTableIs
<1>6. CASE ~Stop!DatedADayAhead(u)
  <2>1. new = [c \in DOMAIN table \union DOMAIN u.stops |->
                 IF c \notin DOMAIN u.stops THEN table[c]
                 ELSE Stop!AbsorbStop(
                        IF c \in DOMAIN table THEN table[c] ELSE Stop!Blank,
                        Stop!Observation(u, c, t))]
    BY <1>6 DEF Stop!AbsorbTrip
  <2>2. DOMAIN new = DOMAIN table \union DOMAIN u.stops
    BY <2>1
  <2>3. ASSUME NEW c \in DOMAIN u.stops PROVE StopIs(new[c], K, J, c)
    <3> DEFINE row == IF c \in DOMAIN table THEN table[c] ELSE Stop!Blank
    <3>1. StopIs(row, K, I, c)
      <4>1. CASE c \in DOMAIN table
        BY <1>1, <4>1 DEF StopTableIs
      <4>2. CASE c \notin DOMAIN table
        BY <1>1, <4>2, BlankStopIs DEF StopTableIs
      <4> QED
        BY <4>1, <4>2
    <3>2. new[c] = Stop!AbsorbStop(row, Stop!Observation(u, c, t))
      BY <2>1
    <3> HIDE DEF row
    <3> QED
      BY <1>6, <3>1, <3>2, StopGrows
  <2>4. ASSUME NEW c \in DOMAIN table, c \notin DOMAIN u.stops
        PROVE  StopIs(new[c], K, J, c)
    <3>1. new[c] = table[c]
      BY <2>1, <2>4
    <3>2. StopIs(table[c], K, I, c)
      BY <1>1 DEF StopTableIs
    <3> QED
      BY <1>3, <1>4, <2>4, <3>1, <3>2
  <2>5. \A c : c \in DOMAIN new <=> SayingIn(K, J, c) # {}
    BY <1>1, <1>3, <1>6, <2>2 DEF StopTableIs
  <2> QED
    BY <2>2, <2>3, <2>4, <2>5 DEF StopTableIs
<1> QED
  BY <1>5, <1>6

(* Finalising an hour leaves what the merge reads of its rows.             *)
LEMMA FinaliseKeeps ==
  ASSUME NEW table, NEW H, NEW I, StopTableIs(table, H, I)
  PROVE  StopTableIs(Stop!Finalised(table), H, I)
<1> DEFINE new == Stop!Finalised(table)
<1>1. /\ DOMAIN new = DOMAIN table
      /\ \A c \in DOMAIN table : new[c] = Stop!Finalise(table[c])
  BY DEF Stop!Finalised
<1> HIDE DEF new
<1>2. ASSUME NEW c \in DOMAIN table PROVE StopIs(new[c], H, I, c)
  <2> DEFINE row == table[c]
             r == Stop!Finalise(row)
             lost == /\ row.last_update # Stop!Unset
                     /\ row.last_observed > row.last_update
  <2>1. StopIs(row, H, I, c)
    BY DEF StopTableIs
  <2>2. r = [row EXCEPT !.lost_tracking = lost] /\ lost \in BOOLEAN
    BY DEF Stop!Finalise
  <2> HIDE DEF row, r, lost
  <2>3. /\ r \in StopRows /\ r.n_updates = row.n_updates
        /\ r.had_vehicle = row.had_vehicle
        /\ r.last_observed = row.last_observed
        /\ r.last_update = row.last_update
        /\ r.arrival = row.arrival /\ r.arrival_updated = row.arrival_updated
        /\ r.departure = row.departure
    BY <2>1, <2>2 DEF StopRows, StopIs
  <2>4. StopIs(r, H, I, c)
    BY <2>1, <2>3 DEF StopIs
  <2>5. new[c] = r
    BY <1>1 DEF r, row
  <2> QED
    BY <2>4, <2>5
<1> QED
  BY <1>1, <1>2 DEF StopTableIs, new

-----------------------------------------------------------------------------
(* The order of ranks.                                                     *)
LEMMA BeatsIs ==
  ASSUME NEW a \in Int, NEW b \in Int, NEW c \in Int,
         NEW x \in Int, NEW y \in Int, NEW z \in Int
  PROVE  Stop!Beats(<<a, b, c>>, <<x, y, z>>) <=>
           \/ a > x
           \/ a = x /\ b > y
           \/ a = x /\ b = y /\ c > z
<1> DEFINE p == <<a, b, c>>
           q == <<x, y, z>>
<1>1. /\ DOMAIN p = {1, 2, 3}
      /\ p[1] = a /\ p[2] = b /\ p[3] = c
      /\ q[1] = x /\ q[2] = y /\ q[3] = z
  OBVIOUS
<1> HIDE DEF p, q
<1>2. 1..(1 - 1) = {} /\ 1..(2 - 1) = {1} /\ 1..(3 - 1) = {1, 2}
  OBVIOUS
<1>3. Stop!Beats(p, q) <=> \E i \in {1, 2, 3} :
                             p[i] > q[i] /\ \A j \in 1..(i - 1) : p[j] = q[j]
  BY <1>1 DEF Stop!Beats
<1>4. Stop!Beats(p, q) <=>
        \/ a > x
        \/ a = x /\ b > y
        \/ a = x /\ b = y /\ c > z
  <2>1. Stop!Beats(p, q) <=>
          \/ p[1] > q[1] /\ \A j \in 1..(1 - 1) : p[j] = q[j]
          \/ p[2] > q[2] /\ \A j \in 1..(2 - 1) : p[j] = q[j]
          \/ p[3] > q[3] /\ \A j \in 1..(3 - 1) : p[j] = q[j]
    BY <1>3
  <2> QED
    BY <1>1, <1>2, <2>1
<1> QED
  BY <1>4 DEF p, q

LEMMA BeatsFirst ==
  ASSUME NEW a \in Int, NEW b \in Int, NEW c \in Int,
         NEW x \in Int, NEW y \in Int, NEW z \in Int,
         Stop!Beats(<<a, b, c>>, <<x, y, z>>)
  PROVE  x <= a
BY BeatsIs

(* The first of finitely many hours has the greatest a.                    *)
LEMMA FirstExists ==
  ASSUME NEW A \in SUBSET Nat, IsFiniteSet(A), A # {},
         NEW a \in [A -> Int], NEW b \in [A -> Int]
  PROVE  \E h \in A : \A g \in A \ {h} :
           Stop!Beats(<<a[h], b[h], h>>, <<a[g], b[g], g>>)
<1> DEFINE m == Max(Values(A, a))
           B == {h \in A : a[h] = m}
           k == Max(Values(B, b))
           C == {h \in B : b[h] = k}
           top == Max(C)
<1>1. Values(A, a) \in SUBSET Int /\ m \in Values(A, a)
      /\ \A v \in Values(A, a) : v <= m
  <2>1. IsFiniteSet(Values(A, a)) /\ Values(A, a) \in SUBSET Int
        /\ Values(A, a) # {}
    BY ValuesAre
  <2> QED
    BY <2>1, MaxIs
<1>2. B # {} /\ B \subseteq A /\ IsFiniteSet(B) /\ m \in Int
      /\ \A h \in A : a[h] <= m
  BY <1>1, FS_Subset DEF Values
<1> HIDE DEF m
<1>3. Values(B, b) \in SUBSET Int /\ k \in Values(B, b)
      /\ \A v \in Values(B, b) : v <= k
  <2> HIDE DEF B
  <2>0. \A h \in B : b[h] \in Int
    BY <1>2
  <2>1. IsFiniteSet(Values(B, b)) /\ Values(B, b) \in SUBSET Int
        /\ Values(B, b) # {}
    BY <1>2, <2>0, ValuesAre
  <2> QED
    BY <2>1, MaxIs
<1>4. C # {} /\ C \subseteq A /\ IsFiniteSet(C) /\ k \in Int
      /\ \A h \in B : b[h] <= k
  BY <1>2, <1>3, FS_Subset DEF Values
<1> HIDE DEF k
<1>5. top \in C /\ \A h \in C : h <= top
  <2> HIDE DEF C
  <2>1. C \in SUBSET Int
    <3>1. \A h \in A : h \in Int
      OBVIOUS
    <3> QED
      BY <1>4, <3>1
  <2> QED
    BY <1>4, <2>1, MaxIs
<1> HIDE DEF top
<1>6. top \in A /\ a[top] = m /\ b[top] = k
  BY <1>5
<1>7. ASSUME NEW g \in A \ {top}
      PROVE  Stop!Beats(<<a[top], b[top], top>>, <<a[g], b[g], g>>)
  <2>1. /\ a[g] <= m
        /\ a[g] = m => b[g] <= k
        /\ a[g] = m /\ b[g] = k => g <= top
    BY <1>2, <1>4, <1>5
  <2>2. /\ a[top] \in Int /\ b[top] \in Int /\ top \in Int
        /\ a[g] \in Int /\ b[g] \in Int /\ g \in Int /\ g # top
    BY <1>6
  <2>3. \/ a[top] > a[g]
        \/ a[top] = a[g] /\ b[top] > b[g]
        \/ a[top] = a[g] /\ b[top] = b[g] /\ top > g
    BY <1>2, <1>4, <1>6, <2>1, <2>2
  <2> QED
    BY <2>2, <2>3, BeatsIs
<1> QED
  BY <1>6, <1>7

LEMMA GreatestIsMax ==
  ASSUME NEW S, NEW x, S \subseteq Int, Greatest(x, S)
  PROVE  Max(S) = x
<1>1. x \in S /\ \A y \in S : y <= x
  BY DEF Greatest
<1>2. x \in S /\ \A y \in S : x >= y
  BY <1>1
<1>3. ASSUME NEW z \in S, \A y \in S : z >= y PROVE z = x
  <2>1. z >= x /\ z <= x /\ z \in Int /\ x \in Int
    BY <1>1, <1>3
  <2> QED
    BY <2>1
<1> QED
  BY <1>2, <1>3 DEF Max

LEMMA LeastIsMin ==
  ASSUME NEW S, NEW x, S \subseteq Int, Least(x, S)
  PROVE  Min(S) = x
<1>1. x \in S /\ \A y \in S : x <= y
  BY DEF Least
<1>2. ASSUME NEW z \in S, \A y \in S : z <= y PROVE z = x
  <2>1. z <= x /\ x <= z /\ z \in Int /\ x \in Int
    BY <1>1, <1>2
  <2> QED
    BY <2>1
<1> QED
  BY <1>1, <1>2 DEF Min

(* The fields of a merged row.                                             *)

LEMMA MergedStopIs ==
  ASSUME NEW parts, NEW c \in DOMAIN Stop!Merged(parts)
  PROVE  LET R == Stop!HoursOf(parts, c)
             F == Stop!Merged(parts)[c] IN
         /\ F.arrival = Stop!ArrivalOf(parts, c)
         /\ F.arrival_updated = Max(Values(R, [h \in R |-> parts[h][c].arrival_updated]))
         /\ F.last_update = parts[Stop!Latest(parts, c)][c].last_update
         /\ F.departure = parts[Stop!Latest(parts, c)][c].departure
         /\ F.relationship = parts[Stop!Latest(parts, c)][c].relationship
         /\ F.n_updates = SumFunctionOnSet([h \in R |-> parts[h][c].n_updates], R)
         /\ F.had_vehicle = \E h \in R : parts[h][c].had_vehicle
         /\ F.lost_tracking <=>
              /\ F.last_update # Stop!Unset
              /\ Max(Values(R, [h \in R |-> parts[h][c].last_observed]))
                   > F.last_update
         /\ F.lost_tracking \in BOOLEAN
         /\ F = [arrival |-> F.arrival, arrival_updated |-> F.arrival_updated,
                 departure |-> F.departure, last_update |-> F.last_update,
                 n_updates |-> F.n_updates, relationship |-> F.relationship,
                 had_vehicle |-> F.had_vehicle,
                 lost_tracking |-> F.lost_tracking]
<1> DEFINE R == Stop!HoursOf(parts, c)
           F == Stop!Merged(parts)[c]
           row == parts[Stop!Latest(parts, c)][c]
           last == parts[Stop!Latest(parts, c)][c].last_update
           f == [h \in R |-> parts[h][c].n_updates]
<1>1. F = Stop!MergedRow(parts, c)
  BY DEF Stop!Merged
<1>2. /\ Values(R, [h \in R |-> parts[h][c].arrival_updated])
           = {parts[h][c].arrival_updated : h \in R}
      /\ Values(R, [h \in R |-> parts[h][c].last_observed])
           = {parts[h][c].last_observed : h \in R}
  <2> HIDE DEF R
  <2> QED  BY DEF Values
<1> HIDE DEF F
<1>3. /\ F.arrival = Stop!ArrivalOf(parts, c)
      /\ F.last_update = last
      /\ F.had_vehicle = \E h \in R : parts[h][c].had_vehicle
      /\ F.lost_tracking = Stop!LostTracking(parts, c)
  BY <1>1, Zenon DEF Stop!MergedRow
<1>4. F.arrival_updated = Max({parts[h][c].arrival_updated : h \in R})
  BY <1>1 DEF Stop!MergedRow, Stop!Max, Max
<1>5. Stop!LostTracking(parts, c) <=>
        /\ last # Stop!Unset
        /\ Max({parts[h][c].last_observed : h \in R}) > last
  BY DEF Stop!LostTracking, Stop!Max, Max
<1>6. F.n_updates = SumFunctionOnSet(f, R)
  <2>1. F.n_updates = Stop!SumFunction(f)
    BY <1>1 DEF Stop!MergedRow
  <2>2. DOMAIN f = R
    OBVIOUS
  <2> HIDE DEF f
  <2>3. Stop!SumFunction(f) = SumFunctionOnSet(f, R)
    BY <2>2, Zenon DEF Stop!SumFunction, Stop!FoldFunction, Stop!SumFunctionOnSet,
       Stop!FoldFunctionOnSet, Stop!MapThenFoldSet, SumFunctionOnSet,
       FoldFunctionOnSet, MapThenFoldSet
  <2> QED
    BY <2>1, <2>3
<1>7. F.departure = row.departure /\ F.relationship = row.relationship
  BY <1>1 DEF Stop!MergedRow
<1>8. F = [arrival |-> F.arrival, arrival_updated |-> F.arrival_updated,
           departure |-> F.departure, last_update |-> F.last_update,
           n_updates |-> F.n_updates, relationship |-> F.relationship,
           had_vehicle |-> F.had_vehicle, lost_tracking |-> F.lost_tracking]
  BY <1>1, Zenon DEF Stop!MergedRow
<1> HIDE DEF R, last, row
<1>9. F.lost_tracking <=>
        /\ last # Stop!Unset
        /\ Max({parts[h][c].last_observed : h \in R}) > last
  BY <1>3, <1>5
<1>10. F.lost_tracking \in BOOLEAN
  <2>1. Stop!LostTracking(parts, c) \in BOOLEAN
    BY DEF Stop!LostTracking
  <2> QED
    BY <1>3, <2>1
<1> QED
  BY <1>2, <1>3, <1>4, <1>6, <1>7, <1>8, <1>9, <1>10 DEF R, F, last, row

(* The day so far as partials, and the hours that say something of c.      *)
StopDay(H, n, parts) ==
  /\ n \in Nat /\ LogOf(H, Hearings, n)
  /\ DOMAIN parts = 0..n
  /\ \A h \in 0..n : StopTableIs(parts[h], H, HourOf(H, h))

SeenSaying(H, I, c)    == SeenIn(H, SayingIn(H, I, c), c)
SeenReporting(H, I, c) == SeenIn(H, ReportingIn(H, I, c), c)

LEMMA HearingsAre ==
  ASSUME NEW n \in Nat, NEW H, LogOf(H, Hearings, n)
  PROVE  \A i \in DOMAIN H : H[i].at \in Nat /\ H[i].update \in Updates
<1>1. \A i \in DOMAIN H : H[i] \in Hearings
  BY DEF LogOf
<1> QED
  BY <1>1 DEF LogOf, Hearings

LEMMA StopHours ==
  ASSUME NEW H, NEW n, NEW parts, StopDay(H, n, parts),
         NEW c \in DOMAIN Stop!Merged(parts)
  PROVE  LET R == Stop!HoursOf(parts, c)
             D == DOMAIN H IN
         /\ IsFiniteSet(R) /\ R # {} /\ R \subseteq 0..n
         /\ \A h \in R : StopIs(parts[h][c], H, HourOf(H, h), c)
         /\ \A i \in SayingIn(H, D, c) : \E h \in R : i \in HourOf(H, h)
         /\ Cut(R, [h \in R |-> SeenSaying(H, HourOf(H, h), c)],
                SeenSaying(H, D, c))
         /\ Cut(R, [h \in R |-> SeenReporting(H, HourOf(H, h), c)],
                SeenReporting(H, D, c))
<1> DEFINE R == Stop!HoursOf(parts, c)
           D == DOMAIN H
<1>1. /\ n \in Nat /\ LogOf(H, Hearings, n)
      /\ DOMAIN parts = 0..n
      /\ \A h \in 0..n : StopTableIs(parts[h], H, HourOf(H, h))
  BY DEF StopDay
<1>2. R = {h \in 0..n : c \in DOMAIN parts[h]}
  BY <1>1 DEF Stop!HoursOf
<1>3. IsFiniteSet(R)
  <2>1. IsFiniteSet(0..n)
    BY <1>1, FS_Interval
  <2> QED
    BY <1>2, <2>1, FS_Subset
<1>4. R # {}
  <2>1. c \in Stop!Joined(parts)
    BY DEF Stop!Merged
  <2> QED
    BY <1>1, <1>2, <2>1 DEF Stop!Joined
<1>5. /\ \A h \in R : StopIs(parts[h][c], H, HourOf(H, h), c)
      /\ \A h \in 0..n : h \in R <=> SayingIn(H, HourOf(H, h), c) # {}
  BY <1>1, <1>2 DEF StopTableIs
<1>6. /\ \A h : SayingIn(H, HourOf(H, h), c) \subseteq SayingIn(H, D, c)
      /\ \A h : ReportingIn(H, HourOf(H, h), c) \subseteq ReportingIn(H, D, c)
      /\ \A h, i : i \in SayingIn(H, D, c) /\ i \in HourOf(H, h) =>
                     i \in SayingIn(H, HourOf(H, h), c)
      /\ \A h, i : i \in ReportingIn(H, D, c) /\ i \in HourOf(H, h) =>
                     i \in ReportingIn(H, HourOf(H, h), c)
  BY DEF SayingIn, ReportingIn, HourOf
<1>7. \A i \in SayingIn(H, D, c) : \E h \in R : i \in HourOf(H, h)
  <2> SUFFICES ASSUME NEW i \in SayingIn(H, D, c)
               PROVE  \E h \in R : i \in HourOf(H, h)
    OBVIOUS
  <2>1. i \in D
    BY StopSets
  <2>2. PICK h \in 0..n : i \in HourOf(H, h)
    BY <1>1, <2>1, HoursAre
  <2> QED
    BY <1>5, <1>6, <2>2
<1>8. SeenSaying(H, D, c) \subseteq Nat /\ SeenReporting(H, D, c) \subseteq Nat
  <2>1. \A i \in D : H[i].at \in Nat /\ H[i].update \in Updates
    BY <1>1, HearingsAre
  <2> QED
    BY <2>1, SaidType DEF SeenSaying, SeenReporting
<1> HIDE DEF R
<1>9. Cut(R, [h \in R |-> SeenSaying(H, HourOf(H, h), c)], SeenSaying(H, D, c))
  <2>1. \A h \in R : SeenSaying(H, HourOf(H, h), c) \subseteq SeenSaying(H, D, c)
    BY <1>6 DEF SeenSaying, SeenIn
  <2>2. \A t \in SeenSaying(H, D, c) : \E h \in R : t \in SeenSaying(H, HourOf(H, h), c)
    BY <1>6, <1>7 DEF SeenSaying, SeenIn
  <2> QED
    BY <1>3, <1>4, <1>8, <2>1, <2>2 DEF Cut
<1>10. Cut(R, [h \in R |-> SeenReporting(H, HourOf(H, h), c)],
           SeenReporting(H, D, c))
  <2>1. \A h \in R : SeenReporting(H, HourOf(H, h), c) \subseteq SeenReporting(H, D, c)
    BY <1>6 DEF SeenReporting, SeenIn
  <2>2. \A t \in SeenReporting(H, D, c) :
          \E h \in R : t \in SeenReporting(H, HourOf(H, h), c)
    BY <1>6, <1>7, StopSets DEF SeenReporting, SeenIn
  <2> QED
    BY <1>3, <1>4, <1>8, <2>1, <2>2 DEF Cut
<1>11. R \subseteq 0..n
  BY <1>2
<1> QED
  BY <1>3, <1>4, <1>5, <1>7, <1>9, <1>10, <1>11 DEF R

(* What the merged row says is what the day's updates say.                 *)
StopFactIs(F, H, c) ==
  LET D == DOMAIN H IN
  /\ F.n_updates = Cardinality(ReportingIn(H, D, c))
  /\ F.had_vehicle = \E i \in SayingIn(H, D, c) : SaidBy(H, i, c).vehicle
  /\ LatestOf(F.last_update, SeenReporting(H, D, c))
  /\ ArrivalIs(F.arrival, F.arrival_updated, H, D, c)
  /\ \E m : /\ Greatest(m, SeenSaying(H, D, c))
            /\ F.lost_tracking <=> F.last_update # Stop!Unset /\ m > F.last_update

LEMMA StopTotalsMerge ==
  ASSUME NEW H, NEW n, NEW parts, StopDay(H, n, parts),
         NEW c \in DOMAIN Stop!Merged(parts)
  PROVE  LET F == Stop!Merged(parts)[c]
             D == DOMAIN H IN
         /\ F.n_updates = Cardinality(ReportingIn(H, D, c))
         /\ F.had_vehicle = \E i \in SayingIn(H, D, c) : SaidBy(H, i, c).vehicle
<1> DEFINE R == Stop!HoursOf(parts, c)
           F == Stop!Merged(parts)[c]
           D == DOMAIN H
           f == [h \in R |-> parts[h][c].n_updates]
           P == [h \in R |-> ReportingIn(H, HourOf(H, h), c)]
<1>0. n \in Nat /\ LogOf(H, Hearings, n)
  BY DEF StopDay
<1>1. /\ IsFiniteSet(R)
      /\ \A h \in R : StopIs(parts[h][c], H, HourOf(H, h), c)
      /\ \A i \in SayingIn(H, D, c) : \E h \in R : i \in HourOf(H, h)
  BY StopHours
<1>2. /\ F.n_updates = SumFunctionOnSet(f, R)
      /\ F.had_vehicle = \E h \in R : parts[h][c].had_vehicle
  BY MergedStopIs
<1> HIDE DEF F, R
<1>3. \A h \in R : IsFiniteSet(P[h]) /\ f[h] = Cardinality(P[h])
  <2>1. \A h : IsFiniteSet(HourOf(H, h))
    BY <1>0, HoursAre
  <2>2. \A h : ReportingIn(H, HourOf(H, h), c) \subseteq HourOf(H, h)
    BY StopSets
  <2>3. \A h \in R : IsFiniteSet(ReportingIn(H, HourOf(H, h), c))
    BY <2>1, <2>2, FS_Subset
  <2> QED
    BY <1>1, <2>3 DEF StopIs
<1>4. \A h, g \in R : h # g => P[h] \intersect P[g] = {}
  BY DEF ReportingIn, SayingIn, HourOf
<1>5. UNION {P[h] : h \in R} = ReportingIn(H, D, c)
  <2>1. ASSUME NEW i \in ReportingIn(H, D, c)
        PROVE  i \in UNION {P[h] : h \in R}
    <3>1. PICK h \in R : i \in HourOf(H, h)
      BY <1>1, StopSets
    <3>2. i \in P[h]
      BY <3>1 DEF ReportingIn, SayingIn
    <3> QED
      BY <3>2
  <2>2. \A h \in R : P[h] \subseteq ReportingIn(H, D, c)
    BY DEF ReportingIn, SayingIn, HourOf
  <2> QED
    BY <2>1, <2>2
<1> HIDE DEF f, P
<1>6. SumFunctionOnSet(f, R) = Cardinality(UNION {P[h] : h \in R})
  <2>1. IsFiniteSet(R)
    BY <1>1
  <2> QED
    BY <1>3, <1>4, <2>1, SumOfSizes
<1>7. F.had_vehicle = \E i \in SayingIn(H, D, c) : SaidBy(H, i, c).vehicle
  <2>1. \A h \in R : parts[h][c].had_vehicle =
          \E i \in SayingIn(H, HourOf(H, h), c) : SaidBy(H, i, c).vehicle
    BY <1>1 DEF StopIs
  <2>2. \A h, i : i \in SayingIn(H, HourOf(H, h), c) <=>
                    i \in SayingIn(H, D, c) /\ i \in HourOf(H, h)
    BY DEF SayingIn, HourOf
  <2>3. (\E h \in R : parts[h][c].had_vehicle) <=>
          \E i \in SayingIn(H, D, c) : SaidBy(H, i, c).vehicle
    BY <1>1, <2>1, <2>2
  <2> QED
    BY <1>2, <2>3
<1> QED
  BY <1>2, <1>5, <1>6, <1>7 DEF F

(* The latest hour's row has the day's last update, and the arrival is of  *)
(* the hour that sent one last.                                            *)
LEMMA StopMerges ==
  ASSUME NEW H, NEW n, NEW parts, StopDay(H, n, parts),
         NEW c \in DOMAIN Stop!Merged(parts)
  PROVE  StopFactIs(Stop!Merged(parts)[c], H, c)
<1> DEFINE R == Stop!HoursOf(parts, c)
           F == Stop!Merged(parts)[c]
           D == DOMAIN H
           x == [h \in R |-> parts[h][c].last_update]
           y == [h \in R |-> parts[h][c].last_observed]
           z == [h \in R |-> parts[h][c].arrival_updated]
           latest == Stop!Latest(parts, c)
<1>0. n \in Nat /\ LogOf(H, Hearings, n)
  BY DEF StopDay
<1>1. /\ IsFiniteSet(R) /\ R # {} /\ R \subseteq 0..n
      /\ \A h \in R : StopIs(parts[h][c], H, HourOf(H, h), c)
      /\ Cut(R, [h \in R |-> SeenSaying(H, HourOf(H, h), c)],
             SeenSaying(H, D, c))
      /\ Cut(R, [h \in R |-> SeenReporting(H, HourOf(H, h), c)],
             SeenReporting(H, D, c))
  BY StopHours
<1>2. /\ F.arrival = Stop!ArrivalOf(parts, c)
      /\ F.arrival_updated = Max(Values(R, z))
      /\ F.last_update = parts[latest][c].last_update
      /\ F.lost_tracking <=> /\ F.last_update # Stop!Unset
                             /\ Max(Values(R, y)) > F.last_update
  BY MergedStopIs
<1>3. latest = CHOOSE h \in R : \A g \in R \ {h} : Stop!Beats(
                 <<parts[h][c].last_update, parts[h][c].last_observed, h>>,
                 <<parts[g][c].last_update, parts[g][c].last_observed, g>>)
  BY DEF Stop!Latest, Stop!First
<1>4. Stop!ArrivalOf(parts, c) =
        LET sent == {h \in R : parts[h][c].arrival_updated # Stop!Unset} IN
        IF sent = {} THEN Stop!NoEvent
        ELSE parts[CHOOSE h \in sent : \A g \in sent \ {h} : Stop!Beats(
               <<parts[h][c].arrival_updated, parts[h][c].last_observed, h>>,
               <<parts[g][c].arrival_updated, parts[g][c].last_observed, g>>)
             ][c].arrival
  BY DEF Stop!ArrivalOf, Stop!First
<1> HIDE DEF F, R, latest
<1>5. /\ \A h \in R : /\ parts[h][c].last_update \in Int
                      /\ parts[h][c].last_observed \in Int
                      /\ parts[h][c].arrival_updated \in Int
      /\ R \in SUBSET Nat
  <2>1. \A h \in R : parts[h][c] \in StopRows
    BY <1>1 DEF StopIs
  <2>2. \A h \in 0..n : h \in Nat
    BY <1>0
  <2>3. R \in SUBSET Nat
    BY <1>1, <2>2
  <2> QED
    BY <2>1, <2>3 DEF StopRows
<1>6. x \in [R -> Int] /\ y \in [R -> Int] /\ z \in [R -> Int]
  BY <1>5
<1>7. \A h \in R : /\ x[h] = parts[h][c].last_update
                   /\ y[h] = parts[h][c].last_observed
                   /\ z[h] = parts[h][c].arrival_updated
  OBVIOUS
<1> HIDE DEF x, y, z
<1>8. LatestOf(Max(Values(R, x)), SeenReporting(H, D, c))
  <2> DEFINE S == [h \in R |-> SeenReporting(H, HourOf(H, h), c)]
  <2>1. \A h \in R : LatestOf(x[h], S[h])
    BY <1>1, <1>7 DEF StopIs, SeenReporting
  <2>2. Cut(R, S, SeenReporting(H, D, c))
    BY <1>1
  <2> HIDE DEF S
  <2> QED
    BY <2>1, <2>2, LatestJoins
<1>9. Greatest(Max(Values(R, y)), SeenSaying(H, D, c))
  <2> DEFINE S == [h \in R |-> SeenSaying(H, HourOf(H, h), c)]
  <2>1. \A h \in R : LatestOf(y[h], S[h])
    BY <1>1, <1>7 DEF StopIs, SeenSaying
  <2>2. Cut(R, S, SeenSaying(H, D, c))
    BY <1>1
  <2> HIDE DEF S
  <2>3. LatestOf(Max(Values(R, y)), SeenSaying(H, D, c))
    BY <2>1, <2>2, LatestJoins
  <2>4. SeenSaying(H, D, c) # {}
    <3>1. PICK h \in R : TRUE
      BY <1>1
    <3>2. SayingIn(H, HourOf(H, h), c) # {}
      <4>1. h \in 0..n /\ c \in DOMAIN parts[h]
        BY <1>1, <3>1 DEF R, Stop!HoursOf
      <4> QED
        BY <4>1 DEF StopDay, StopTableIs
    <3>3. SayingIn(H, D, c) # {}
      BY <3>2 DEF SayingIn, HourOf
    <3> QED
      BY <3>3 DEF SeenSaying, SeenIn
  <2> QED
    BY <2>3, <2>4 DEF LatestOf
<1>10. F.last_update = Max(Values(R, x))
  <2>1. \E h \in R : \A g \in R \ {h} :
          Stop!Beats(<<x[h], y[h], h>>, <<x[g], y[g], g>>)
    BY <1>1, <1>5, <1>6, FirstExists
  <2>2. latest \in R /\ \A g \in R \ {latest} :
          Stop!Beats(<<x[latest], y[latest], latest>>, <<x[g], y[g], g>>)
    BY <1>3, <1>7, <2>1
  <2>3. ASSUME NEW g \in R PROVE x[g] <= x[latest]
    <3>1. /\ x[g] \in Int /\ y[g] \in Int /\ g \in Int
          /\ x[latest] \in Int /\ y[latest] \in Int /\ latest \in Int
      BY <1>5, <1>6, <2>2
    <3>2. CASE g = latest
      BY <3>1, <3>2
    <3>3. CASE g # latest
      <4>1. Stop!Beats(<<x[latest], y[latest], latest>>, <<x[g], y[g], g>>)
        BY <2>2, <3>3
      <4> QED
        BY <3>1, <4>1, BeatsFirst, Zenon
    <3> QED
      BY <3>2, <3>3
  <2>4. Greatest(x[latest], Values(R, x))
    BY <2>2, <2>3 DEF Greatest, Values
  <2>5. Values(R, x) \subseteq Int
    BY <1>6 DEF Values
  <2> QED
    BY <1>2, <1>7, <2>2, <2>4, <2>5, GreatestIsMax
<1>11. ArrivalIs(F.arrival, F.arrival_updated, H, D, c)
  <2> DEFINE sent == {h \in R : parts[h][c].arrival_updated # Stop!Unset}
             top == CHOOSE h \in sent : \A g \in sent \ {h} : Stop!Beats(
               <<parts[h][c].arrival_updated, parts[h][c].last_observed, h>>,
               <<parts[g][c].arrival_updated, parts[g][c].last_observed, g>>)
  <2>1. F.arrival = IF sent = {} THEN Stop!NoEvent ELSE parts[top][c].arrival
    BY <1>2, <1>4
  <2>2. Values(R, z) \subseteq Int
    BY <1>6 DEF Values
  <2>3. \A h \in R : ArrivalIs(parts[h][c].arrival, z[h], H, HourOf(H, h), c)
    BY <1>1, <1>7 DEF StopIs
  <2>4. \A h \in R : z[h] = Stop!Unset \/ z[h] \in Nat
    <3> SUFFICES ASSUME NEW h \in R, z[h] # Stop!Unset PROVE z[h] \in Nat
      OBVIOUS
    <3>1. PICK i \in ReportingIn(H, HourOf(H, h), c) : SaidBy(H, i, c).seen = z[h]
      BY <2>3 DEF ArrivalIs
    <3>2. \A j \in HourOf(H, h) : H[j].at \in Nat /\ H[j].update \in Updates
      BY <1>0, HearingsAre DEF HourOf
    <3> QED
      BY <3>1, <3>2, SaidType, StopSets
  <2>5. CASE sent = {}
    <3>1. \A h \in R : z[h] = Stop!Unset
      BY <1>7, <2>5
    <3>2. Values(R, z) = {Stop!Unset}
      BY <1>1, <3>1 DEF Values
    <3>3. Greatest(Stop!Unset, Values(R, z))
      BY <3>2 DEF Greatest, Stop!Unset
    <3>4. F.arrival_updated = Stop!Unset
      BY <1>2, <2>2, <3>3, GreatestIsMax
    <3> QED
      BY <2>1, <2>5, <3>4 DEF ArrivalIs
  <2>6. CASE sent # {}
    <3> DEFINE p == [h \in sent |-> z[h]]
               q == [h \in sent |-> y[h]]
    <3>1. sent \in SUBSET Nat /\ IsFiniteSet(sent)
      BY <1>1, <1>5, FS_Subset
    <3>2. p \in [sent -> Int] /\ q \in [sent -> Int]
      BY <1>6
    <3>3. \A h \in sent : /\ p[h] = parts[h][c].arrival_updated
                          /\ q[h] = parts[h][c].last_observed
      BY <1>7
    <3>4. \A h \in sent : h \in R /\ p[h] = z[h] /\ z[h] # Stop!Unset
      BY <1>7
    <3>5. \A h \in R \ sent : z[h] = Stop!Unset
      BY <1>7
    <3> HIDE DEF p, q
    <3>6. \E h \in sent : \A g \in sent \ {h} :
            Stop!Beats(<<p[h], q[h], h>>, <<p[g], q[g], g>>)
      <4> HIDE DEF sent
      <4> QED
        BY <2>6, <3>1, <3>2, FirstExists
    <3>7. top \in sent /\ \A g \in sent \ {top} :
            Stop!Beats(<<p[top], q[top], top>>, <<p[g], q[g], g>>)
      <4>1. \E h \in sent : \A g \in sent \ {h} : Stop!Beats(
               <<parts[h][c].arrival_updated, parts[h][c].last_observed, h>>,
               <<parts[g][c].arrival_updated, parts[g][c].last_observed, g>>)
        BY <3>3, <3>6
      <4> HIDE DEF sent
      <4>2. top \in sent /\ \A g \in sent \ {top} : Stop!Beats(
               <<parts[top][c].arrival_updated, parts[top][c].last_observed, top>>,
               <<parts[g][c].arrival_updated, parts[g][c].last_observed, g>>)
        BY <4>1
      <4> HIDE DEF top
      <4> QED
        BY <3>3, <4>2
    <3> HIDE DEF top, sent
    <3>8. ASSUME NEW g \in R PROVE z[g] <= z[top]
      <4>1. CASE g \in sent
        <5>1. /\ p[g] \in Int /\ q[g] \in Int /\ g \in Int
              /\ p[top] \in Int /\ q[top] \in Int /\ top \in Int
          BY <3>1, <3>2, <3>7, <4>1
        <5>2. CASE g = top
          BY <3>4, <4>1, <5>1, <5>2
        <5>3. CASE g # top
          <6>1. Stop!Beats(<<p[top], q[top], top>>, <<p[g], q[g], g>>)
            BY <3>7, <4>1, <5>3
          <6>2. p[g] <= p[top]
            BY <5>1, <6>1, BeatsFirst, Zenon
          <6> QED
            BY <3>4, <3>7, <4>1, <6>2
        <5> QED
          BY <5>2, <5>3
      <4>2. CASE g \notin sent
        <5>1. z[g] = Stop!Unset /\ z[top] \in Nat
          BY <2>4, <3>4, <3>5, <3>7, <4>2
        <5> QED
          BY <5>1 DEF Stop!Unset
      <4> QED
        BY <4>1, <4>2
    <3>9. Greatest(z[top], Values(R, z))
      BY <3>4, <3>7, <3>8 DEF Greatest, Values
    <3>10. F.arrival_updated = z[top]
      BY <1>2, <2>2, <3>9, GreatestIsMax
    <3>11. /\ F.arrival = parts[top][c].arrival
           /\ z[top] # Stop!Unset /\ top \in R
      BY <2>1, <2>6, <3>4, <3>7
    <3>12. ReportingIn(H, HourOf(H, top), c) \subseteq ReportingIn(H, D, c)
      BY DEF ReportingIn, SayingIn, HourOf
    <3> QED
      BY <2>3, <3>10, <3>11, <3>12 DEF ArrivalIs
  <2> QED
    BY <2>5, <2>6
<1>12. /\ F.n_updates = Cardinality(ReportingIn(H, D, c))
       /\ F.had_vehicle = \E i \in SayingIn(H, D, c) : SaidBy(H, i, c).vehicle
  BY StopTotalsMerge DEF F
<1> QED
  BY <1>2, <1>8, <1>9, <1>10, <1>11, <1>12 DEF StopFactIs, F

-----------------------------------------------------------------------------
(* The inductive invariant.                                                *)

(* The clock is in the hour at hand, or at the end of the last one.        *)
ClockIs ==
  /\ hour \in 0..Hours
  /\ at \in Times
  /\ at \div HourLength = IF hour < Hours THEN hour ELSE Hours - 1

LogsAre ==
  /\ LogOf(heard, Hearings, hour) /\ LogOf(sighted, Sightings, hour)
  /\ \A i \in DOMAIN heard : heard[i].at <= at
  /\ \A i \in DOMAIN sighted : sighted[i].at <= at
  /\ Len(heard) <= MaxUpdates

(* The reducers have read what the hour at hand holds.                     *)
ReducersAre ==
  /\ StopTableIs(stops, heard, HourOf(heard, hour))
  /\ TripReducerIs(trip, heard, HourOf(heard, hour))
  /\ DedupeIs(deduper, sighted, HourOf(sighted, hour))

(* What an hour's partials hold is of what was heard and sighted in it.    *)
PutIs(put, H, G, h) ==
  /\ StopTableIs(put.stops, H, HourOf(H, h))
  /\ TripPartIs(put.trip, H, HourOf(H, h))
  /\ PositionsAre(put.positions, G, HourOf(G, h))

PartialsAre ==
  /\ DOMAIN partial = 0..(hour - 1)
  /\ \A h \in 0..(hour - 1) : PutIs(partial[h], heard, sighted, h)

IInv == ClockIs /\ LogsAre /\ ReducersAre /\ PartialsAre

LEMMA Division ==
  ASSUME NEW a \in Nat
  PROVE  /\ a \div HourLength \in Nat
         /\ HourLength * (a \div HourLength) <= a
         /\ a < HourLength * (a \div HourLength) + HourLength
BY Lengths

(* A time is of the day when its hour is.                                  *)
LEMMA TimesAre ==
  ASSUME NEW a \in Nat
  PROVE  a \in Times <=> a \div HourLength < Hours
<1> DEFINE q == a \div HourLength
           m == Hours * HourLength
<1>1. /\ q \in Nat /\ HourLength * q <= a /\ a < HourLength * q + HourLength
      /\ Hours \in Nat /\ HourLength \in Nat \ {0}
  BY Division, Lengths
<1>2. m \in Nat
  BY Lengths
<1>3. a \in Times <=> a < m
  BY <1>2 DEF Times
<1> HIDE DEF q
<1>4. q < Hours => HourLength * (q + 1) <= m
  <2> SUFFICES ASSUME q < Hours PROVE HourLength * (q + 1) <= m
    OBVIOUS
  <2>1. q + 1 <= Hours /\ q + 1 \in Nat
    BY <1>1
  <2> QED
    BY <1>1, <2>1
<1>5. q >= Hours => m <= HourLength * q
  BY <1>1
<1>6. HourLength * (q + 1) = HourLength * q + HourLength /\ HourLength * q \in Nat
  BY <1>1
<1>7. q < Hours => a < m
  BY <1>1, <1>2, <1>4, <1>6
<1>8. q >= Hours => ~(a < m)
  BY <1>1, <1>2, <1>5, <1>6
<1> QED
  BY <1>1, <1>3, <1>7, <1>8 DEF q

LEMMA Turns ==
  ASSUME NEW a \in Nat
  PROVE  (a + 1) \div HourLength
           \in {a \div HourLength, a \div HourLength + 1}
<1>1. /\ a \div HourLength \in Nat
      /\ HourLength * (a \div HourLength) <= a
      /\ a < HourLength * (a \div HourLength) + HourLength
      /\ HourLength \in Nat \ {0}
  BY Division, Lengths
<1> QED
  BY <1>1

(* Nothing has been fetched in an hour the clock has not reached.          *)
LEMMA NotYet ==
  ASSUME NEW H, NEW Entities, NEW n \in Nat, LogOf(H, Entities, n),
         NEW h \in Nat, h > n
  PROVE  HourOf(H, h) = {}
BY DEF LogOf, HourOf

LEMMA Initially == Init => IInv
<1> SUFFICES ASSUME Init PROVE IInv
  OBVIOUS
<1>1. /\ hour = 0 /\ at = 0 /\ stops = <<>> /\ trip = Trip!Fresh
      /\ deduper = Position!Fresh /\ partial = <<>>
      /\ heard = <<>> /\ sighted = <<>>
  BY DEF Init
<1>2. 0 \div HourLength = 0
  BY Lengths
<1>3. ClockIs
  BY <1>1, <1>2, Lengths, TimesAre DEF ClockIs
<1>4. DOMAIN heard = {} /\ DOMAIN sighted = {} /\ DOMAIN partial = {}
      /\ Len(heard) = 0 /\ heard \in Seq(Hearings) /\ sighted \in Seq(Sightings)
  BY <1>1
<1>5. LogsAre
  BY <1>4, ReductionsAssumption DEF LogsAre, LogOf, ReductionsAssumption
<1>6. HourOf(heard, hour) = {} /\ HourOf(sighted, hour) = {}
  BY <1>4 DEF HourOf
<1>7. ReducersAre
  BY <1>1, <1>6, NoStops, NoTrip, NoPositions DEF ReducersAre
<1>8. PartialsAre
  BY <1>1, <1>4 DEF PartialsAre
<1> QED
  BY <1>3, <1>5, <1>7, <1>8 DEF IInv

LEMMA PutAgrees ==
  ASSUME NEW put, NEW H, NEW K, NEW G, NEW L, NEW h, PutIs(put, H, G, h),
         HourOf(K, h) = HourOf(H, h), HourOf(L, h) = HourOf(G, h),
         \A i \in HourOf(H, h) : K[i] = H[i],
         \A i \in HourOf(G, h) : L[i] = G[i]
  PROVE  PutIs(put, K, L, h)
BY StopsAgree, TripAgrees, PositionsAgree DEF PutIs

LEMMA ReadUpdateKeeps ==
  ASSUME IInv, NEW update \in Updates, ReadUpdate(update)
  PROVE  IInv'
<1> DEFINE e == [at |-> at, update |-> update]
           n == Len(heard) + 1
           I == HourOf(heard, hour)
<1>1. /\ hour < Hours /\ Len(heard) < MaxUpdates
      /\ stops' = Stop!AbsorbTrip(stops, update, at)
      /\ trip' = Trip!Absorb(trip, update, at)
      /\ heard' = Append(heard, e)
      /\ UNCHANGED <<hour, at, deduper, partial, sighted>>
  BY DEF ReadUpdate
<1>2. ClockIs /\ LogsAre /\ ReducersAre /\ PartialsAre
  BY DEF IInv
<1>3. /\ hour \in Nat /\ at \in Nat /\ at \in Times
      /\ at \div HourLength = hour /\ MaxUpdates \in Nat
  BY <1>1, <1>2, ReductionsAssumption DEF ClockIs, Times, ReductionsAssumption
<1>4. e \in Hearings /\ e.at = at /\ e.update = update
  BY <1>3 DEF Hearings
<1>5. LogOf(heard, Hearings, hour) /\ \A i \in DOMAIN heard : heard[i].at <= at
  BY <1>2 DEF LogsAre
<1> HIDE DEF e
<1>6. /\ LogOf(heard', Hearings, hour)
      /\ HourOf(heard', hour) = I \union {n}
      /\ n \notin I
      /\ \A h : h # hour => HourOf(heard', h) = HourOf(heard, h)
      /\ \A i \in DOMAIN heard : heard'[i] = heard[i] /\ i <= Len(heard)
      /\ heard'[n] = e
      /\ Len(heard') = n
  BY <1>1, <1>3, <1>4, <1>5, HourGrows
<1>7. /\ DOMAIN heard = 1..Len(heard) /\ Len(heard) \in Nat
      /\ \A h : HourOf(heard, h) \subseteq DOMAIN heard
      /\ IsFiniteSet(I)
  BY <1>3, <1>5, HoursAre
<1>8. NextAfter(heard', I, n, update, at)
  <2>1. \A i \in DOMAIN heard : heard[i].at \in Nat /\ heard[i].update \in Updates
    BY <1>3, <1>5, HearingsAre
  <2>2. \A i \in I : /\ i < n /\ heard'[i].at \in Nat /\ heard'[i].at <= at
                     /\ heard'[i].update \in Updates
    BY <1>5, <1>6, <1>7, <2>1
  <2>3. I \subseteq Nat /\ n \in Nat
    BY <1>7
  <2> QED
    BY <1>3, <1>4, <1>6, <1>7, <2>2, <2>3 DEF NextAfter
<1>9. ClockIs'
  BY <1>1, <1>2 DEF ClockIs
<1>10. LogsAre'
  <2>1. \A i \in DOMAIN heard' : heard'[i].at <= at
    <3>1. DOMAIN heard' = 1..n
      BY <1>3, <1>6, HoursAre
    <3> QED
      BY <1>3, <1>4, <1>5, <1>6, <1>7, <3>1
  <2>2. Len(heard') <= MaxUpdates
    BY <1>1, <1>3, <1>6, <1>7
  <2> QED
    BY <1>1, <1>2, <1>6, <2>1, <2>2 DEF LogsAre
<1>11. ReducersAre'
  <2>1. \A i \in I : heard'[i] = heard[i]
    BY <1>6, <1>7
  <2>2. /\ StopTableIs(stops, heard, I) /\ TripReducerIs(trip, heard, I)
        /\ DedupeIs(deduper, sighted, HourOf(sighted, hour))
    BY <1>2 DEF ReducersAre
  <2> HIDE DEF I, n
  <2>3. StopTableIs(stops', heard', I \union {n})
    BY <1>1, <1>8, <2>1, <2>2, StopsKeep
  <2>4. TripReducerIs(trip', heard', I \union {n})
    BY <1>1, <1>8, <2>1, <2>2, TripKeeps
  <2> QED
    BY <1>1, <1>6, <2>2, <2>3, <2>4 DEF ReducersAre
<1>12. PartialsAre'
  <2>1. ASSUME NEW h \in 0..(hour - 1)
        PROVE  PutIs(partial[h], heard', sighted, h)
    <3>1. /\ HourOf(heard', h) = HourOf(heard, h)
          /\ \A i \in HourOf(heard, h) : heard'[i] = heard[i]
      BY <1>3, <1>6, <1>7
    <3>2. PutIs(partial[h], heard, sighted, h)
      BY <1>2 DEF PartialsAre
    <3> QED
      BY <3>1, <3>2, PutAgrees
  <2> QED
    BY <1>1, <1>2, <2>1 DEF PartialsAre
<1> QED
  BY <1>9, <1>10, <1>11, <1>12 DEF IInv

LEMMA ReadSampleKeeps ==
  ASSUME IInv, NEW sample \in Samples, ReadSample(sample)
  PROVE  IInv'
<1> DEFINE e == [at |-> at, sample |-> sample]
           n == Len(sighted) + 1
           I == HourOf(sighted, hour)
<1>1. /\ hour < Hours
      /\ deduper' = Position!Dedupe(deduper, sample, at)
      /\ sighted' = Append(sighted, e)
      /\ UNCHANGED <<hour, at, stops, trip, partial, heard>>
  BY DEF ReadSample
<1>2. ClockIs /\ LogsAre /\ ReducersAre /\ PartialsAre
  BY DEF IInv
<1>3. /\ hour \in Nat /\ at \in Nat /\ at \in Times
      /\ at \div HourLength = hour
  BY <1>1, <1>2, ReductionsAssumption DEF ClockIs, Times, ReductionsAssumption
<1>4. e \in Sightings /\ e.at = at /\ e.sample = sample
  BY <1>3 DEF Sightings
<1>5. LogOf(sighted, Sightings, hour) /\ \A i \in DOMAIN sighted : sighted[i].at <= at
  BY <1>2 DEF LogsAre
<1> HIDE DEF e
<1>6. /\ LogOf(sighted', Sightings, hour)
      /\ HourOf(sighted', hour) = I \union {n}
      /\ n \notin I
      /\ \A h : h # hour => HourOf(sighted', h) = HourOf(sighted, h)
      /\ \A i \in DOMAIN sighted : sighted'[i] = sighted[i] /\ i <= Len(sighted)
      /\ sighted'[n] = e
      /\ Len(sighted') = n
  BY <1>1, <1>3, <1>4, <1>5, HourGrows
<1>7. /\ DOMAIN sighted = 1..Len(sighted) /\ Len(sighted) \in Nat
      /\ \A h : HourOf(sighted, h) \subseteq DOMAIN sighted
      /\ IsFiniteSet(I)
  BY <1>3, <1>5, HoursAre
<1>8. ClockIs'
  BY <1>1, <1>2 DEF ClockIs
<1>9. LogsAre'
  <2>1. \A i \in DOMAIN sighted' : sighted'[i].at <= at
    <3>1. DOMAIN sighted' = 1..n
      BY <1>3, <1>6, HoursAre
    <3> QED
      BY <1>3, <1>4, <1>5, <1>6, <1>7, <3>1
  <2> QED
    BY <1>1, <1>2, <1>6, <2>1 DEF LogsAre
<1>10. ReducersAre'
  <2>1. \A i \in I : sighted'[i] = sighted[i] /\ sighted[i].at <= at
    BY <1>5, <1>6, <1>7
  <2>2. /\ StopTableIs(stops, heard, HourOf(heard, hour))
        /\ TripReducerIs(trip, heard, HourOf(heard, hour))
        /\ DedupeIs(deduper, sighted, I)
    BY <1>2 DEF ReducersAre
  <2>3. sighted'[n].sample = sample /\ sighted'[n].at = at
    BY <1>4, <1>6
  <2> HIDE DEF I, n
  <2>4. DedupeIs(deduper', sighted', I \union {n})
    BY <1>1, <1>3, <1>6, <1>7, <2>1, <2>2, <2>3, DedupeKeeps
  <2> QED
    BY <1>1, <1>6, <2>2, <2>4 DEF ReducersAre
<1>11. PartialsAre'
  <2>1. ASSUME NEW h \in 0..(hour - 1)
        PROVE  PutIs(partial[h], heard, sighted', h)
    <3>1. /\ HourOf(sighted', h) = HourOf(sighted, h)
          /\ \A i \in HourOf(sighted, h) : sighted'[i] = sighted[i]
      BY <1>3, <1>6, <1>7
    <3>2. PutIs(partial[h], heard, sighted, h)
      BY <1>2 DEF PartialsAre
    <3> QED
      BY <3>1, <3>2, PutAgrees
  <2> QED
    BY <1>1, <1>2, <2>1 DEF PartialsAre
<1> QED
  BY <1>8, <1>9, <1>10, <1>11 DEF IInv

LEMMA NextPollKeeps == IInv /\ NextPoll => IInv'
<1> SUFFICES ASSUME IInv, NextPoll PROVE IInv'
  OBVIOUS
<1>1. /\ hour < Hours
      /\ (at + 1) \div HourLength = hour
      /\ at' = at + 1
      /\ UNCHANGED <<hour, stops, trip, deduper, partial, heard, sighted>>
  BY DEF NextPoll
<1>2. ClockIs /\ LogsAre /\ ReducersAre /\ PartialsAre
  BY DEF IInv
<1>3. at \in Nat /\ hour \in 0..Hours
  BY <1>2 DEF ClockIs, Times
<1>4. at + 1 \in Times
  BY <1>1, <1>3, TimesAre
<1>5. ClockIs'
  BY <1>1, <1>3, <1>4 DEF ClockIs
<1>6. LogsAre'
  <2>1. LogOf(heard, Hearings, hour) /\ LogOf(sighted, Sightings, hour)
    BY <1>2 DEF LogsAre
  <2>2. /\ \A i \in DOMAIN heard : heard[i].at <= at + 1
        /\ \A i \in DOMAIN sighted : sighted[i].at <= at + 1
    BY <1>2, <1>3, <2>1 DEF LogsAre, LogOf
  <2> QED
    BY <1>1, <1>2, <2>1, <2>2 DEF LogsAre
<1>7. ReducersAre' /\ PartialsAre'
  BY <1>1, <1>2 DEF ReducersAre, PartialsAre
<1> QED
  BY <1>5, <1>6, <1>7 DEF IInv

(* What the hour at hand would leave is what it holds.                     *)
LEMMA WrittenIs ==
  ASSUME ReducersAre PROVE PutIs(Written, heard, sighted, hour)
<1>1. /\ StopTableIs(stops, heard, HourOf(heard, hour))
      /\ TripReducerIs(trip, heard, HourOf(heard, hour))
      /\ DedupeIs(deduper, sighted, HourOf(sighted, hour))
  BY DEF ReducersAre
<1>2. /\ Written.stops = Stop!Finalised(stops)
      /\ Written.trip = trip.row
      /\ Written.positions.rows = deduper.rows
      /\ Written.positions.collapsed = deduper.collapsed
      /\ Written.positions.differing = deduper.differing
  BY DEF Written
<1>3. StopTableIs(Written.stops, heard, HourOf(heard, hour))
  BY <1>1, <1>2, FinaliseKeeps
<1>4. TripPartIs(Written.trip, heard, HourOf(heard, hour))
  BY <1>1, <1>2 DEF TripReducerIs
<1>5. PositionsAre(Written.positions, sighted, HourOf(sighted, hour))
  BY <1>1, <1>2 DEF DedupeIs, PositionsAre
<1> QED
  BY <1>3, <1>4, <1>5 DEF PutIs

LEMMA EndHourKeeps == IInv /\ EndHour => IInv'
<1> SUFFICES ASSUME IInv, EndHour PROVE IInv'
  OBVIOUS
<1>1. /\ hour < Hours
      /\ (at + 1) \div HourLength > hour
      /\ partial' = [h \in 0..hour |-> IF h = hour THEN Written ELSE partial[h]]
      /\ hour' = hour + 1
      /\ at' = IF hour + 1 < Hours THEN at + 1 ELSE at
      /\ UNCHANGED <<heard, sighted>>
      /\ stops' = <<>> /\ trip' = Trip!Fresh /\ deduper' = Position!Fresh
  BY DEF EndHour, WriteHour
<1>2. ClockIs /\ LogsAre /\ ReducersAre /\ PartialsAre
  BY DEF IInv
<1>3. at \in Nat /\ at \in Times /\ hour \in Nat /\ Hours \in Nat
      /\ at \div HourLength = hour
  BY <1>1, <1>2, Lengths DEF ClockIs, Times
<1>4. (at + 1) \div HourLength = hour + 1
  <2> DEFINE q == (at + 1) \div HourLength
  <2>1. q \in {hour, hour + 1} /\ q > hour
    BY <1>1, <1>3, Turns
  <2> HIDE DEF q
  <2>2. q = hour + 1
    BY <1>3, <2>1
  <2> QED
    BY <2>2 DEF q
<1>5. ClockIs'
  <2>1. CASE hour + 1 < Hours
    <3>1. at' = at + 1 /\ at + 1 \in Times
      BY <1>1, <1>3, <1>4, <2>1, TimesAre
    <3> QED
      BY <1>1, <1>3, <1>4, <2>1, <3>1 DEF ClockIs
  <2>2. CASE ~(hour + 1 < Hours)
    <3>1. at' = at /\ hour + 1 = Hours
      BY <1>1, <1>3, <2>2
    <3> QED
      BY <1>1, <1>3, <3>1 DEF ClockIs
  <2> QED
    BY <2>1, <2>2
<1>6. LogOf(heard, Hearings, hour) /\ LogOf(sighted, Sightings, hour)
  BY <1>2 DEF LogsAre
<1>7. LogsAre'
  <2>1. LogOf(heard, Hearings, hour + 1) /\ LogOf(sighted, Sightings, hour + 1)
    BY <1>3, <1>6 DEF LogOf
  <2>2. at' \in Nat /\ at <= at'
    BY <1>1, <1>3
  <2>3. /\ \A i \in DOMAIN heard : heard[i].at <= at'
        /\ \A i \in DOMAIN sighted : sighted[i].at <= at'
    BY <1>2, <1>3, <1>6, <2>2 DEF LogsAre, LogOf
  <2> QED
    BY <1>1, <1>2, <2>1, <2>3 DEF LogsAre
<1>8. ReducersAre'
  <2>1. HourOf(heard, hour + 1) = {} /\ HourOf(sighted, hour + 1) = {}
    BY <1>3, <1>6, NotYet
  <2> QED
    BY <1>1, <2>1, NoStops, NoTrip, NoPositions DEF ReducersAre
<1>9. PartialsAre'
  <2>1. DOMAIN partial' = 0..(hour' - 1)
    BY <1>1, <1>3
  <2>2. PutIs(Written, heard, sighted, hour)
    BY <1>2, WrittenIs
  <2>3. ASSUME NEW h \in 0..hour PROVE PutIs(partial'[h], heard, sighted, h)
    <3>1. CASE h = hour
      BY <1>1, <2>2, <3>1
    <3>2. CASE h # hour
      BY <1>1, <1>2, <1>3, <3>2 DEF PartialsAre
    <3> QED
      BY <3>1, <3>2
  <2>4. \A h \in 0..(hour' - 1) : PutIs(partial'[h], heard', sighted', h)
    BY <1>1, <1>3, <2>3
  <2> QED
    BY <2>1, <2>4 DEF PartialsAre
<1> QED
  BY <1>5, <1>7, <1>8, <1>9 DEF IInv

LEMMA RestKeeps == IInv /\ UNCHANGED vars => IInv'
BY DEF IInv, ClockIs, LogsAre, ReducersAre, PartialsAre, vars

(* The reducers and the partials hold what was read, in every behaviour.   *)
LEMMA Invariant == Spec => []IInv
<1>1. IInv /\ [Next]_vars => IInv'
  <2> SUFFICES ASSUME IInv, [Next]_vars PROVE IInv'
    OBVIOUS
  <2>1. CASE \E update \in Updates : ReadUpdate(update)
    BY <2>1, ReadUpdateKeeps
  <2>2. CASE \E sample \in Samples : ReadSample(sample)
    BY <2>2, ReadSampleKeeps
  <2>3. CASE NextPoll
    BY <2>3, NextPollKeeps
  <2>4. CASE EndHour
    BY <2>4, EndHourKeeps
  <2>5. CASE Rest \/ UNCHANGED vars
    BY <2>5, RestKeeps DEF Rest
  <2> QED
    BY <2>1, <2>2, <2>3, <2>4, <2>5 DEF Next
<1> QED
  BY <1>1, Initially, PTL DEF Spec

-----------------------------------------------------------------------------
(* The day as partials, and what its facts say.                            *)

LEMMA PartIs ==
  ASSUME IInv, NEW h \in 0..hour PROVE PutIs(Part(h), heard, sighted, h)
<1>1. hour \in Nat
  BY Lengths DEF IInv, ClockIs
<1>2. CASE h < hour
  BY <1>1, <1>2 DEF Part, IInv, PartialsAre
<1>3. CASE ~(h < hour)
  <2>1. h = hour
    BY <1>1, <1>3
  <2>2. Part(h) = Written
    BY <1>3 DEF Part
  <2> QED
    BY <2>1, <2>2, WrittenIs DEF IInv
<1> QED
  BY <1>2, <1>3

LEMMA DayIs ==
  ASSUME IInv
  PROVE  /\ StopDay(heard, hour, StopParts)
         /\ heard # <<>> => TripDay(heard, hour, TripParts)
         /\ DOMAIN PositionParts = 0..hour
         /\ \A h \in 0..hour :
              PositionsAre(PositionParts[h], sighted, HourOf(sighted, h))
<1>1. hour \in Nat /\ LogOf(heard, Hearings, hour)
  BY Lengths DEF IInv, ClockIs, LogsAre
<1>2. \A h \in 0..hour : PutIs(Part(h), heard, sighted, h)
  BY PartIs
<1>3. StopDay(heard, hour, StopParts)
  BY <1>1, <1>2 DEF StopDay, StopParts, PutIs
<1>4. ASSUME heard # <<>> PROVE TripDay(heard, hour, TripParts)
  <2>1. DOMAIN heard # {}
    BY <1>1, <1>4 DEF LogOf
  <2> QED
    BY <1>1, <1>2, <2>1 DEF TripDay, TripParts, PutIs
<1>5. /\ DOMAIN PositionParts = 0..hour
      /\ \A h \in 0..hour :
           PositionsAre(PositionParts[h], sighted, HourOf(sighted, h))
  BY <1>2 DEF PositionParts, PutIs
<1> QED
  BY <1>3, <1>4, <1>5

LEMMA SayingsAre ==
  ASSUME NEW c
  PROVE  /\ Saying(c) = SayingIn(heard, DOMAIN heard, c)
         /\ Reporting(c) = ReportingIn(heard, DOMAIN heard, c)
         /\ \A i : Said(i, c) = SaidBy(heard, i, c)
         /\ SeenAt(Saying(c), c) = SeenSaying(heard, DOMAIN heard, c)
         /\ SeenAt(Reporting(c), c) = SeenReporting(heard, DOMAIN heard, c)
<1>1. \A i : Said(i, c) = SaidBy(heard, i, c)
  BY DEF Said, SaidBy
<1>2. Saying(c) = SayingIn(heard, DOMAIN heard, c)
  BY DEF Saying, SayingIn
<1>3. Reporting(c) = ReportingIn(heard, DOMAIN heard, c)
  BY <1>1, <1>2 DEF Reporting, ReportingIn
<1>4. \A I : SeenAt(I, c) = SeenIn(heard, I, c)
  BY <1>1 DEF SeenAt, SeenIn
<1> QED
  BY <1>1, <1>2, <1>3, <1>4 DEF SeenSaying, SeenReporting

(* The times at which a call was observed, and the greatest of them.       *)
LEMMA SeenAre ==
  ASSUME IInv, NEW c \in DOMAIN StopFact
  PROVE  LET F == StopFact[c]
             S == SeenAt(Saying(c), c)
             Q == SeenAt(Reporting(c), c) IN
         /\ StopFactIs(F, heard, c)
         /\ Q \subseteq S /\ S \subseteq Nat
         /\ Greatest(Max(S), S)
         /\ F.lost_tracking <=> F.last_update # Stop!Unset /\ Max(S) > F.last_update
         /\ IF Reporting(c) = {} THEN F.last_update = Stop!Unset
            ELSE /\ Q # {} /\ Greatest(F.last_update, Q)
                 /\ Max(Q) = F.last_update /\ F.last_update \in Nat
<1> DEFINE F == StopFact[c]
           S == SeenAt(Saying(c), c)
           Q == SeenAt(Reporting(c), c)
           D == DOMAIN heard
<1>1. StopFactIs(F, heard, c)
  BY DayIs, StopMerges DEF StopFact
<1>2. S = SeenSaying(heard, D, c) /\ Q = SeenReporting(heard, D, c)
      /\ Reporting(c) = ReportingIn(heard, D, c)
  BY SayingsAre
<1>3. S \subseteq Nat
  <2>1. \A i \in D : heard[i].at \in Nat /\ heard[i].update \in Updates
    BY DayIs, HearingsAre DEF StopDay
  <2> QED
    BY <1>2, <2>1, SaidType DEF SeenSaying
<1>4. Q \subseteq S /\ (Reporting(c) # {} => Q # {})
  BY <1>2, StopSets DEF SeenSaying, SeenReporting, SeenIn
<1>5. PICK m : /\ Greatest(m, S)
               /\ F.lost_tracking <=> F.last_update # Stop!Unset /\ m > F.last_update
  BY <1>1, <1>2 DEF StopFactIs
<1>6. Max(S) = m
  BY <1>3, <1>5, GreatestIsMax
<1>7. LatestOf(F.last_update, Q)
  BY <1>1, <1>2 DEF StopFactIs
<1>8. Reporting(c) = {} => Q = {}
  BY DEF SeenAt
<1>9. Stop!Unset = Trip!Unset
  BY DEF Stop!Unset, Trip!Unset
<1> HIDE DEF F, S, Q
<1>10. CASE Reporting(c) = {}
  BY <1>1, <1>3, <1>4, <1>5, <1>6, <1>7, <1>8, <1>9, <1>10
     DEF LatestOf, F, S, Q
<1>11. CASE Reporting(c) # {}
  <2>1. Q # {} /\ Greatest(F.last_update, Q)
    BY <1>4, <1>7, <1>11 DEF LatestOf
  <2>2. Max(Q) = F.last_update
    <3>1. Q \subseteq Int
      BY <1>3, <1>4
    <3>2. Greatest(F.last_update, Q)
      BY <2>1
    <3> QED
      BY <3>1, <3>2, GreatestIsMax
  <2>3. F.last_update \in Nat
    BY <1>3, <1>4, <2>1 DEF Greatest
  <2> QED
    BY <1>1, <1>3, <1>4, <1>5, <1>6, <1>11, <2>1, <2>2, <2>3 DEF F, S, Q
<1> QED
  BY <1>10, <1>11

(* The totals of a merged row are those of everything said of the stop     *)
(* that day, in whatever order and whichever hour it came                  *)
(* (TripStopReducer.apply_real, trip_stop_merge).                          *)
THEOREM DayTotals == Spec => []TotalsKept
<1>1. IInv => TotalsKept
  <2> SUFFICES ASSUME IInv, NEW c \in DOMAIN StopFact
               PROVE  LET row == StopFact[c] IN
                      /\ row.n_updates = Cardinality(Reporting(c))
                      /\ row.had_vehicle = \E i \in Saying(c) : Said(i, c).vehicle
                      /\ row.last_update =
                           Max(SeenAt(Reporting(c), c) \union {Stop!Unset})
                      /\ row.lost_tracking <=>
                           /\ Reporting(c) # {}
                           /\ Max(SeenAt(Saying(c), c)) > Max(SeenAt(Reporting(c), c))
    BY DEF TotalsKept
  <2> DEFINE F == StopFact[c]
             S == SeenAt(Saying(c), c)
             Q == SeenAt(Reporting(c), c)
  <2>1. /\ StopFactIs(F, heard, c)
        /\ Q \subseteq S /\ S \subseteq Nat
        /\ F.lost_tracking <=> F.last_update # Stop!Unset /\ Max(S) > F.last_update
        /\ IF Reporting(c) = {} THEN F.last_update = Stop!Unset
           ELSE /\ Q # {} /\ Greatest(F.last_update, Q)
                /\ Max(Q) = F.last_update /\ F.last_update \in Nat
    BY SeenAre
  <2>2. F.n_updates = Cardinality(Reporting(c))
    BY <2>1, SayingsAre DEF StopFactIs
  <2>3. F.had_vehicle = \E i \in Saying(c) : Said(i, c).vehicle
    BY <2>1, SayingsAre DEF StopFactIs
  <2>4. Stop!Unset = -1
    BY DEF Stop!Unset
  <2>5. Reporting(c) = {} => Q = {}
    BY DEF SeenAt
  <2> HIDE DEF F, S, Q
  <2>6. F.last_update = Max(Q \union {Stop!Unset})
    <3>1. Q \union {Stop!Unset} \subseteq Int
      BY <2>1, <2>4
    <3>2. Greatest(F.last_update, Q \union {Stop!Unset})
      BY <2>1, <2>4, <2>5 DEF Greatest
    <3> QED
      BY <3>1, <3>2, GreatestIsMax
  <2>7. F.lost_tracking <=> Reporting(c) # {} /\ Max(S) > Max(Q)
    BY <2>1, <2>4
  <2> QED
    BY <2>2, <2>3, <2>6, <2>7 DEF F, S, Q
<1> QED
  BY <1>1, Invariant, PTL

(* A row marked reliable has an arrival that was sent, with its delay, no  *)
(* more than the lead before it, and nothing said of the stop since the    *)
(* last real observation (is_reliable).                                    *)
THEOREM ReliableRowsAreWitnessed == Spec => []ReliableIsWitnessed
<1>1. IInv => ReliableIsWitnessed
  <2> SUFFICES ASSUME IInv, NEW c \in DOMAIN StopFact,
                      Stop!IsReliable(StopFact[c])
               PROVE  /\ \E i \in Reporting(c) :
                           /\ Said(i, c).arrival = StopFact[c].arrival
                           /\ Said(i, c).seen >= StopFact[c].arrival.time - ReliableLead
                      /\ \A i \in Saying(c) :
                           Said(i, c).seen <= Max(SeenAt(Reporting(c), c))
    BY DEF ReliableIsWitnessed
  <2> DEFINE F == StopFact[c]
             S == SeenAt(Saying(c), c)
             Q == SeenAt(Reporting(c), c)
  <2>1. /\ StopFactIs(F, heard, c)
        /\ Q \subseteq S /\ S \subseteq Nat
        /\ Greatest(Max(S), S)
        /\ F.lost_tracking <=> F.last_update # Stop!Unset /\ Max(S) > F.last_update
        /\ IF Reporting(c) = {} THEN F.last_update = Stop!Unset
           ELSE /\ Q # {} /\ Greatest(F.last_update, Q)
                /\ Max(Q) = F.last_update /\ F.last_update \in Nat
    BY SeenAre
  <2>2. /\ F.arrival.time # Stop!Unset /\ ~F.lost_tracking
        /\ F.arrival_updated >= F.arrival.time - ReliableLead
    BY DEF Stop!IsReliable
  <2>3. F.arrival # Stop!NoEvent
    BY <2>2 DEF Stop!NoEvent
  <2>4. PICK i \in Reporting(c) : /\ Said(i, c).arrival = F.arrival
                                  /\ Said(i, c).seen = F.arrival_updated
    BY <2>1, <2>3, SayingsAre DEF StopFactIs, ArrivalIs
  <2>5. Reporting(c) # {} /\ F.last_update \in Nat /\ Max(Q) = F.last_update
    BY <2>1, <2>4
  <2>6. \A j \in Saying(c) : Said(j, c).seen \in S
    BY DEF SeenAt
  <2>7. F.last_update # Stop!Unset
    BY <2>5 DEF Stop!Unset
  <2> HIDE DEF F, S, Q
  <2>8. PICK m : m = Max(S)
    OBVIOUS
  <2>9. m \in Nat /\ m <= F.last_update
    <3>1. m \in Nat
      BY <2>1, <2>8 DEF Greatest
    <3>2. ~(m > F.last_update)
      BY <2>1, <2>2, <2>7, <2>8
    <3> QED
      BY <2>5, <3>1, <3>2
  <2>10. \A j \in Saying(c) : Said(j, c).seen <= Max(Q)
    <3>1. \A x \in S : x \in Nat /\ x <= m
      BY <2>1, <2>8 DEF Greatest
    <3>2. \A x \in S : x <= F.last_update
      BY <2>5, <2>9, <3>1
    <3> QED
      BY <2>5, <2>6, <3>2
  <2> QED
    BY <2>2, <2>4, <2>10 DEF F, S, Q
<1> QED
  BY <1>1, Invariant, PTL

(* The merged row of a trip is the day's evidence: the polls that reported *)
(* each status, the status ranked first in the last poll that sent one,    *)
(* and the spans (trips.py, trip_merge).                                   *)
THEOREM TripFactIsTheEvidence == Spec => []FactIsTheEvidence
<1>1. ASSUME IInv PROVE FactIsTheEvidence
  <2> SUFFICES ASSUME heard # <<>>
               PROVE  LET fact == TripFact IN
    /\ \A s \in Trip!POLL_COLUMNS : fact.polls[s] = Cardinality(Polls(s))
    /\ IF DOMAIN heard = Telling(Trip!Unsent)
       THEN fact.final_status = Trip!Unsent
       ELSE /\ fact.final_status_at = LastTelling
            /\ fact.final_status \in LastStatuses
            /\ \A s \in LastStatuses :
                 Trip!Rank(fact.final_status) <= Trip!Rank(s)
    /\ fact.first_seen = heard[1].at
    /\ fact.last_seen = Last(heard).at
    /\ fact.start = Last(heard).update.start
    /\ fact.first_canceled = Trip!MinKnown(Polls("CANCELED"))
    /\ fact.last_canceled = Max(Polls("CANCELED") \union {Trip!Unset})
    /\ fact.had_vehicle = \E i \in DOMAIN heard : heard[i].update.vehicle
    BY DEF FactIsTheEvidence
  <2> DEFINE F == TripFact
             D == DOMAIN heard
             C == Polls("CANCELED")
             U == SentIn(heard, D)
  <2>1. TripDay(heard, hour, TripParts)
    BY <1>1, DayIs
  <2>2. /\ Least(F.first_seen, AtIn(heard, D))
        /\ Greatest(F.last_seen, AtIn(heard, D))
        /\ F.start = heard[Len(heard)].update.start
        /\ FinalIs(F, heard, D) /\ TallyIs(F, heard, D)
    BY <2>1, SpanMerges, FinalMerges, TallyMerges DEF TripFact
  <2>3. LogOf(heard, Hearings, hour) /\ D # {} /\ heard \in Seq(Hearings)
    BY <2>1 DEF TripDay, LogOf
  <2>4. /\ D = 1..Len(heard) /\ Len(heard) \in Nat /\ 1 \in D /\ Len(heard) \in D
        /\ Last(heard) = heard[Len(heard)]
    BY <2>3 DEF Last
  <2>5. \A I : PollsOf(I) = AtIn(heard, I)
    BY DEF PollsOf, AtIn
  <2>6. \A s : Telling(s) = TellingIn(heard, D, s)
    BY DEF Telling, TellingIn
  <2>7. \A s : Polls(s) = PollsIn(heard, D, s)
    BY <2>5, <2>6 DEF Polls, PollsIn
  <2>8. \A I : I \subseteq D => AtIn(heard, I) \subseteq Nat
    BY <2>3 DEF AtIn, LogOf
  <2>9. U = D \ Telling(Trip!Unsent) /\ Telling(Trip!Unsent) \subseteq D
    BY DEF SentIn, Telling
  <2>10. C \subseteq Nat
    BY <2>7, <2>8 DEF PollsIn, TellingIn
  <2>11. Trip!Unset = -1
    BY DEF Trip!Unset
  <2> HIDE DEF F, D, C, U
  <2>12. F.first_seen = heard[1].at
    <3>1. heard[1].at \in AtIn(heard, D) /\ \A x \in AtIn(heard, D) : heard[1].at <= x
      BY <2>3, <2>4 DEF AtIn, LogOf, D
    <3>2. AtIn(heard, D) \subseteq Nat
      BY <2>8
    <3> QED
      BY <2>2, <3>1, <3>2 DEF Least
  <2>13. F.last_seen = Last(heard).at
    <3>1. /\ heard[Len(heard)].at \in AtIn(heard, D)
          /\ \A x \in AtIn(heard, D) : x <= heard[Len(heard)].at
      BY <2>3, <2>4 DEF AtIn, LogOf, D
    <3>2. AtIn(heard, D) \subseteq Nat
      BY <2>8
    <3> QED
      BY <2>2, <2>4, <3>1, <3>2 DEF Greatest
  <2>14. F.first_canceled = Trip!MinKnown(C)
    <3>1. EarliestOf(F.first_canceled, C)
      BY <2>2, <2>7 DEF TallyIs, C
    <3>2. Trip!Known(C) = C
      BY <2>10, <2>11 DEF Trip!Known
    <3>3. CASE C = {}
      BY <3>1, <3>2, <3>3 DEF EarliestOf, Trip!MinKnown
    <3>4. CASE C # {}
      <4>1. C \subseteq Int /\ Least(F.first_canceled, C)
        <5>1. C \subseteq Int
          BY <2>10
        <5>2. Least(F.first_canceled, C)
          BY <3>1, <3>4 DEF EarliestOf
        <5> QED
          BY <5>1, <5>2
      <4>2. Min(C) = F.first_canceled
        BY <4>1, LeastIsMin
      <4> QED
        BY <3>2, <3>4, <4>2 DEF Trip!MinKnown, Trip!Min, Min
    <3> QED
      BY <3>3, <3>4
  <2>15. F.last_canceled = Max(C \union {Trip!Unset})
    <3>1. LatestOf(F.last_canceled, C)
      BY <2>2, <2>7 DEF TallyIs, C
    <3>2. Greatest(F.last_canceled, C \union {Trip!Unset})
      <4>1. CASE C = {}
        BY <2>11, <3>1, <4>1 DEF LatestOf, Greatest
      <4>2. CASE C # {}
        <5>1. F.last_canceled \in C /\ \A y \in C : y <= F.last_canceled
          BY <3>1, <4>2 DEF LatestOf, Greatest
        <5>2. Trip!Unset <= F.last_canceled
          <6>1. \A y \in C : Trip!Unset <= y
            BY <2>10, <2>11
          <6> QED
            BY <5>1, <6>1
        <5> QED
          BY <5>1, <5>2 DEF Greatest
      <4> QED
        BY <4>1, <4>2
    <3>3. C \union {Trip!Unset} \subseteq Int
      BY <2>10, <2>11
    <3> QED
      BY <3>2, <3>3, GreatestIsMax
  <2>16. /\ \A s \in Trip!POLL_COLUMNS : F.polls[s] = Cardinality(Polls(s))
         /\ F.had_vehicle = \E i \in DOMAIN heard : heard[i].update.vehicle
    BY <2>2, <2>7 DEF TallyIs, D
  <2>17. CASE DOMAIN heard = Telling(Trip!Unsent)
    <3>1. U = {}
      BY <2>9, <2>17 DEF D
    <3>2. F.final_status = Trip!Unsent
      BY <2>2, <3>1 DEF FinalIs, U
    <3> QED
      BY <2>2, <2>4, <2>12, <2>13, <2>14, <2>15, <2>16, <2>17, <3>2 DEF F, C
  <2>18. CASE DOMAIN heard # Telling(Trip!Unsent)
    <3> DEFINE T == AtIn(heard, U)
    <3>1. U # {} /\ U \subseteq D
      BY <2>9, <2>18 DEF D
    <3>2. T # {} /\ T \subseteq Int /\ LastTelling = Max(T)
      <4>1. T \subseteq Nat
        BY <2>8, <3>1
      <4>2. T # {}
        BY <3>1 DEF AtIn
      <4>3. LastTelling = Max(T)
        BY <2>5, <2>9 DEF LastTelling, D
      <4> QED
        BY <4>1, <4>2, <4>3
    <3>3. /\ LatestOf(F.final_status_at, T)
          /\ \E i \in U : /\ heard[i].at = F.final_status_at
                          /\ heard[i].update.status = F.final_status
          /\ \A j \in U : heard[j].at = F.final_status_at =>
               Trip!Rank(F.final_status) <= Trip!Rank(heard[j].update.status)
      BY <2>2, <3>1 DEF FinalIs, U
    <3> HIDE DEF T
    <3>4. F.final_status_at = LastTelling
      BY <3>2, <3>3, GreatestIsMax DEF LatestOf
    <3>5. F.final_status \in LastStatuses
      <4>1. PICK i \in U : /\ heard[i].at = F.final_status_at
                           /\ heard[i].update.status = F.final_status
        BY <3>3
      <4>2. i \in DOMAIN heard /\ heard[i].update.status # Trip!Unsent
        BY DEF U, SentIn, D
      <4> QED
        BY <3>4, <4>1, <4>2 DEF LastStatuses
    <3>6. ASSUME NEW s \in LastStatuses
          PROVE  Trip!Rank(F.final_status) <= Trip!Rank(s)
      <4>1. PICK j \in DOMAIN heard : /\ heard[j].at = LastTelling
                                      /\ heard[j].update.status = s
                                      /\ s # Trip!Unsent
        BY DEF LastStatuses
      <4>2. j \in U
        BY <4>1 DEF U, SentIn, D
      <4> QED
        BY <3>3, <3>4, <4>1, <4>2
    <3> QED
      BY <2>2, <2>4, <2>12, <2>13, <2>14, <2>15, <2>16, <2>18, <3>4, <3>5, <3>6
         DEF F, C
  <2> QED
    BY <2>17, <2>18
<1> QED
  BY <1>1, Invariant, PTL

(* The day's positions are each of its samples once, as first fetched      *)
(* (PositionDeduper, POSITION_MERGE).                                      *)
THEOREM PositionsAreDistinct == Spec => []FactIsDistinct
<1>1. ASSUME IInv PROVE FactIsDistinct
  <2>1. hour \in Nat /\ LogOf(sighted, Sightings, hour)
    BY <1>1, Lengths DEF IInv, ClockIs, LogsAre
  <2>2. sighted \in Seq(Sightings)
    BY <2>1 DEF LogOf
  <2>3. \A s : FetchesOf(s) = FetchesIn(sighted, s)
    <3>1. Range(sighted) = {sighted[i] : i \in DOMAIN sighted}
      BY DEF Range
    <3> QED
      BY <3>1 DEF FetchesOf, FetchesIn, AtIn
  <2>4. PositionFact =
          {Position!Record(s, Min(FetchesIn(sighted, s))) :
             s \in {q \in Samples : q.observed \in Window
                                      /\ FetchesIn(sighted, q) # {}}}
    BY <1>1, <2>1, DayIs, PositionsMerge DEF PositionFact
  <2> QED
    BY <2>3, <2>4 DEF FactIsDistinct
<1> QED
  BY <1>1, Invariant, PTL

(* An hour's counters account for every entity it held (build_record).     *)
THEOREM HoursAreAccounted == Spec => []CountersAccount
<1>1. ASSUME IInv PROVE CountersAccount
  <2> SUFFICES ASSUME NEW h \in DOMAIN partial
               PROVE  LET put == partial[h].positions IN
                      /\ put.collapsed + Cardinality(put.rows) = Cardinality(HeldIn(h))
                      /\ put.differing = Cardinality(put.rows)
                           - Cardinality({r.sample.observed : r \in put.rows})
    BY DEF CountersAccount
  <2>1. PositionsAre(partial[h].positions, sighted, HourOf(sighted, h))
    BY <1>1 DEF IInv, PartialsAre, PutIs
  <2>2. HeldIn(h) = HourOf(sighted, h)
    BY DEF HeldIn, HourOf
  <2> QED
    BY <2>1, <2>2 DEF PositionsAre
<1> QED
  BY <1>1, Invariant, PTL

(* An hour has no more polls than its length.                              *)
LEMMA HourHolds ==
  ASSUME NEW h \in Nat, NEW T, T \subseteq Nat,
         \A t \in T : t \div HourLength = h
  PROVE  IsFiniteSet(T) /\ Cardinality(T) \in 0..HourLength
<1> DEFINE low == HourLength * h
           high == low + HourLength - 1
<1>1. HourLength \in Nat \ {0} /\ low \in Nat /\ high \in Nat
  BY Lengths
<1>2. \A t \in T : t \in low..high
  <2> TAKE t \in T
  <2>1. /\ t \in Nat /\ HourLength * h <= t
        /\ t < HourLength * h + HourLength
    BY Division
  <2> QED
    BY <1>1, <2>1
<1>3. /\ IsFiniteSet(low..high)
      /\ Cardinality(low..high) = IF low > high THEN 0 ELSE high - low + 1
  <2> HIDE DEF low, high
  <2>1. \A a, b \in Int : IsFiniteSet(a..b)
      /\ Cardinality(a..b) = IF a > b THEN 0 ELSE b - a + 1
    BY FS_Interval
  <2> QED
    BY <1>1, <2>1
<1>4. Cardinality(low..high) = HourLength
  BY <1>1, <1>3
<1> HIDE DEF low, high
<1>5. /\ IsFiniteSet(T) /\ Cardinality(T) <= Cardinality(low..high)
  BY <1>2, <1>3, FS_Subset
<1>6. Cardinality(T) \in Nat
  BY <1>5, FS_CardinalityType
<1> QED
  BY <1>1, <1>4, <1>5, <1>6

LEMMA StopRowsAre ==
  ASSUME IInv, NEW h \in 0..hour, NEW c \in DOMAIN Part(h).stops
  PROVE  /\ c \in Calls
         /\ Part(h).stops[c].last_observed # Stop!Unset
         /\ Part(h).stops[c].n_updates \in 0..MaxUpdates
<1> DEFINE row == Part(h).stops[c]
           I == HourOf(heard, h)
<1>1. hour \in Nat /\ LogOf(heard, Hearings, hour) /\ Len(heard) <= MaxUpdates
  BY Lengths DEF IInv, ClockIs, LogsAre
<1>2. StopIs(row, heard, I, c) /\ SayingIn(heard, I, c) # {}
  BY PartIs DEF PutIs, StopTableIs
<1>3. /\ I \subseteq DOMAIN heard /\ IsFiniteSet(I) /\ IsFiniteSet(DOMAIN heard)
      /\ Cardinality(DOMAIN heard) = Len(heard) /\ Len(heard) \in Nat
  BY <1>1, HoursAre
<1>4. \A i \in I : heard[i].at \in Nat /\ heard[i].update \in Updates
  BY <1>1, <1>3, HearingsAre
<1> HIDE DEF I, row
<1>5. c \in Calls
  <2>1. PICK i \in I : c \in DOMAIN heard[i].update.stops
    BY <1>2 DEF SayingIn
  <2> QED
    BY <1>4, <2>1, ReductionsAssumption DEF ReductionsAssumption
<1>6. row.last_observed # Stop!Unset
  <2>1. SeenIn(heard, SayingIn(heard, I, c), c) # {}
    BY <1>2 DEF SeenIn
  <2>2. SeenIn(heard, SayingIn(heard, I, c), c) \subseteq Nat
    BY <1>4, SaidType
  <2>3. row.last_observed \in Nat
    BY <1>2, <2>1, <2>2 DEF StopIs, LatestOf, Greatest
  <2> QED
    BY <2>3 DEF Stop!Unset
<1>7. row.n_updates \in 0..MaxUpdates
  <2>1. ReportingIn(heard, I, c) \subseteq DOMAIN heard
    BY <1>3, StopSets
  <2>2. /\ IsFiniteSet(ReportingIn(heard, I, c))
        /\ Cardinality(ReportingIn(heard, I, c)) <= Len(heard)
    BY <1>3, <2>1, FS_Subset
  <2>3. Cardinality(ReportingIn(heard, I, c)) \in Nat
    BY <2>2, FS_CardinalityType
  <2>4. row.n_updates = Cardinality(ReportingIn(heard, I, c))
    BY <1>2 DEF StopIs
  <2>5. MaxUpdates \in Nat
    BY ReductionsAssumption DEF ReductionsAssumption
  <2> QED
    BY <1>1, <1>3, <2>2, <2>3, <2>4, <2>5
<1> QED
  BY <1>5, <1>6, <1>7 DEF row

LEMMA TripRowsAre ==
  ASSUME IInv, NEW h \in 0..hour, Part(h).trip # Trip!Nothing
  PROVE  IsTripRow(Part(h).trip)
<1> DEFINE r == Part(h).trip
           I == HourOf(heard, h)
<1>1. hour \in Nat /\ h \in Nat /\ LogOf(heard, Hearings, hour)
  BY Lengths DEF IInv, ClockIs, LogsAre
<1>2. TripIs(r, heard, I)
  BY PartIs DEF PutIs, TripPartIs
<1>3. I \subseteq DOMAIN heard
  BY <1>1, HoursAre
<1>4. \A i \in I : heard[i].at \in Times
  <2>1. \A i \in DOMAIN heard : heard[i] \in Hearings
    BY <1>1 DEF LogOf
  <2> QED
    BY <1>3, <2>1 DEF Hearings
<1>5. \A J : J \subseteq I => AtIn(heard, J) \subseteq Times
  BY <1>4 DEF AtIn
<1> HIDE DEF r
<1>6. {r.first_seen, r.last_seen} \subseteq Times
  <2>1. r.first_seen \in AtIn(heard, I) /\ r.last_seen \in AtIn(heard, I)
    BY <1>2 DEF TripIs, SpanIs, Least, Greatest
  <2> QED
    BY <1>5, <2>1
<1>7. \A x, T : T \subseteq Times /\ (LatestOf(x, T) \/ EarliestOf(x, T))
                  => x \in Times \union {Trip!Unset}
  BY DEF LatestOf, EarliestOf, Least, Greatest
<1>8. /\ AtIn(heard, SentIn(heard, I)) \subseteq Times
      /\ PollsIn(heard, I, "CANCELED") \subseteq Times
  BY <1>5 DEF SentIn, PollsIn, TellingIn
<1>9. {r.final_status_at, r.first_canceled, r.last_canceled}
        \subseteq Times \union {Trip!Unset}
  <2>1. LatestOf(r.final_status_at, AtIn(heard, SentIn(heard, I)))
    BY <1>2 DEF TripIs, FinalIs
  <2>2. /\ EarliestOf(r.first_canceled, PollsIn(heard, I, "CANCELED"))
        /\ LatestOf(r.last_canceled, PollsIn(heard, I, "CANCELED"))
    BY <1>2 DEF TripIs, TallyIs
  <2>3. /\ r.final_status_at \in Times \union {Trip!Unset}
        /\ r.first_canceled \in Times \union {Trip!Unset}
        /\ r.last_canceled \in Times \union {Trip!Unset}
    BY <1>7, <1>8, <2>1, <2>2
  <2> QED
    BY <2>3
<1>10. ASSUME NEW s \in Trip!POLL_COLUMNS PROVE r.polls[s] \in 0..HourLength
  <2> DEFINE T == PollsIn(heard, I, s)
  <2>1. r.polls[s] = Cardinality(T)
    BY <1>2 DEF TripIs, TallyIs
  <2>2. T \subseteq Nat /\ \A t \in T : t \div HourLength = h
    BY <1>1 DEF PollsIn, TellingIn, AtIn, HourOf, LogOf
  <2> HIDE DEF T
  <2> QED
    BY <1>1, <2>1, <2>2, HourHolds
<1> QED
  BY <1>6, <1>9, <1>10 DEF IsTripRow, r

(* The partials are of the hours gone by, and each row is what the schema  *)
(* of its partial says it is.                                              *)
THEOREM ReductionsKeepTypes == Spec => []TypeOK
<1>1. ASSUME IInv PROVE TypeOK
  <2>1. /\ hour \in 0..Hours /\ at \in Times
        /\ DOMAIN partial = 0..(hour - 1)
    BY <1>1 DEF IInv, ClockIs, PartialsAre
  <2>2. ASSUME NEW h \in 0..hour, NEW r \in Part(h).positions.rows
        PROVE  r.fetched \div HourLength = h
    <3>1. PICK i \in HourOf(sighted, h) :
            r = Position!Record(sighted[i].sample, sighted[i].at)
      BY <1>1, PartIs DEF PutIs, PositionsAre
    <3> QED
      BY <3>1 DEF HourOf, Position!Record
  <2> QED
    BY <1>1, <2>1, <2>2, StopRowsAre, TripRowsAre DEF TypeOK
<1> QED
  BY <1>1, Invariant, PTL

-----------------------------------------------------------------------------
(* The refinement of TripStopDay.  When no stop's observations go back in  *)
(* time the latest hour of a row is its last, so comparing ranks comes to  *)
(* taking what was said last.                                              *)

InTurn(H, I, c) ==
  \A i, j \in SayingIn(H, I, c) :
    i < j => SaidBy(H, i, c).seen <= SaidBy(H, j, c).seen

LEMMA HoursInOrder ==
  ASSUME NEW n \in Nat, NEW Entities, NEW H, LogOf(H, Entities, n),
         NEW g \in Nat, NEW h \in Nat, g < h,
         NEW i \in HourOf(H, g), NEW j \in HourOf(H, h)
  PROVE  i < j
<1> DEFINE a == H[i].at
           b == H[j].at
<1>1. /\ i \in DOMAIN H /\ j \in DOMAIN H /\ a \in Nat /\ b \in Nat
      /\ a \div HourLength = g /\ b \div HourLength = h
      /\ j <= i => b <= a
      /\ DOMAIN H = 1..Len(H) /\ Len(H) \in Nat
  BY DEF HourOf, LogOf
<1> HIDE DEF a, b
<1>2. /\ HourLength * h <= b
      /\ a < HourLength * g + HourLength
      /\ HourLength \in Nat \ {0}
  BY <1>1, Division, Lengths
<1>3. HourLength * g + HourLength <= HourLength * h
  <2>1. g + 1 <= h /\ g + 1 \in Nat
    OBVIOUS
  <2>2. HourLength * (g + 1) <= HourLength * h
    BY <1>2, <2>1
  <2>3. HourLength * (g + 1) = HourLength * g + HourLength
    BY <1>2
  <2> QED
    BY <2>2, <2>3
<1>4. a < b
  <2>1. HourLength * g \in Nat /\ HourLength * h \in Nat
    BY <1>2
  <2> QED
    BY <1>1, <1>2, <1>3, <2>1
<1> QED
  BY <1>1, <1>4

(* The rows of the hours, and what is said of c in each.                   *)
LEMMA HourSays ==
  ASSUME NEW H, NEW n, NEW parts, StopDay(H, n, parts),
         NEW c \in DOMAIN Stop!Merged(parts), NEW h \in Stop!HoursOf(parts, c)
  PROVE  LET row == parts[h][c]
             I == HourOf(H, h) IN
         /\ row \in StopRows /\ h \in Nat /\ h \in 0..n
         /\ \E i \in SayingIn(H, I, c) : SaidBy(H, i, c).seen = row.last_observed
         /\ row.last_update = Stop!Unset \/
              /\ row.last_update \in Nat
              /\ \E i \in SayingIn(H, I, c) : SaidBy(H, i, c).seen = row.last_update
         /\ row.arrival_updated = Stop!Unset \/
              /\ row.arrival_updated \in Nat
              /\ \E i \in SayingIn(H, I, c) : SaidBy(H, i, c).seen = row.arrival_updated
         /\ row.last_update = Stop!Unset => row.departure = Stop!NoEvent
<1> DEFINE row == parts[h][c]
           I == HourOf(H, h)
<1>1. /\ n \in Nat /\ LogOf(H, Hearings, n)
      /\ h \in 0..n /\ h \in Nat /\ StopTableIs(parts[h], H, I)
  <2>1. h \in 0..n
    BY StopHours
  <2>2. n \in Nat /\ LogOf(H, Hearings, n) /\ StopTableIs(parts[h], H, I)
    BY <2>1 DEF StopDay
  <2> QED
    BY <2>1, <2>2
<1>2. c \in DOMAIN parts[h]
  BY DEF Stop!HoursOf
<1>3. StopIs(row, H, I, c) /\ SayingIn(H, I, c) # {}
  BY <1>1, <1>2 DEF StopTableIs
<1>4. \A i \in I : H[i].at \in Nat /\ H[i].update \in Updates
  BY <1>1, HearingsAre DEF HourOf
<1> HIDE DEF row, I
<1>5. /\ \A i \in SayingIn(H, I, c) : SaidBy(H, i, c).seen \in Nat
      /\ ReportingIn(H, I, c) \subseteq SayingIn(H, I, c)
  BY <1>4, SaidType, StopSets
<1>6. row \in StopRows /\ (row.last_update = Stop!Unset => row.departure = Stop!NoEvent)
  BY <1>3 DEF StopIs
<1>7. \E i \in SayingIn(H, I, c) : SaidBy(H, i, c).seen = row.last_observed
  <2>1. SeenIn(H, SayingIn(H, I, c), c) # {}
    BY <1>3 DEF SeenIn
  <2>2. row.last_observed \in SeenIn(H, SayingIn(H, I, c), c)
    BY <1>3, <2>1 DEF StopIs, LatestOf, Greatest
  <2> QED
    BY <2>2 DEF SeenIn
<1>8. row.last_update = Stop!Unset \/
        \E i \in SayingIn(H, I, c) : SaidBy(H, i, c).seen = row.last_update
  <2>1. LatestOf(row.last_update, SeenIn(H, ReportingIn(H, I, c), c))
    BY <1>3 DEF StopIs
  <2>2. row.last_update = Stop!Unset \/
          row.last_update \in SeenIn(H, ReportingIn(H, I, c), c)
    BY <2>1 DEF LatestOf, Greatest, Stop!Unset, Trip!Unset
  <2> QED
    BY <1>5, <2>2 DEF SeenIn
<1>9. row.arrival_updated = Stop!Unset \/
        \E i \in SayingIn(H, I, c) : SaidBy(H, i, c).seen = row.arrival_updated
  <2>1. ArrivalIs(row.arrival, row.arrival_updated, H, I, c)
    BY <1>3 DEF StopIs
  <2> QED
    BY <1>5, <2>1 DEF ArrivalIs
<1> QED
  BY <1>1, <1>5, <1>6, <1>7, <1>8, <1>9 DEF row, I

(* A later hour's times are no earlier.                                    *)
LEMMA RowsInTurn ==
  ASSUME NEW H, NEW n, NEW parts, StopDay(H, n, parts),
         NEW c \in DOMAIN Stop!Merged(parts), InTurn(H, DOMAIN H, c),
         NEW g \in Stop!HoursOf(parts, c), NEW h \in Stop!HoursOf(parts, c),
         g < h
  PROVE  /\ parts[g][c].last_observed <= parts[h][c].last_observed
         /\ parts[h][c].last_update # Stop!Unset =>
              parts[g][c].last_update <= parts[h][c].last_update
         /\ parts[h][c].arrival_updated # Stop!Unset =>
              parts[g][c].arrival_updated <= parts[h][c].arrival_updated
<1> DEFINE p == parts[g][c]
           q == parts[h][c]
           Says(I, t) == \E i \in SayingIn(H, I, c) : SaidBy(H, i, c).seen = t
           G == HourOf(H, g)
           J == HourOf(H, h)
<1>1. n \in Nat /\ LogOf(H, Hearings, n)
  BY DEF StopDay
<1>2. /\ g \in Nat /\ Says(G, p.last_observed)
      /\ p.last_update = Stop!Unset \/ Says(G, p.last_update)
      /\ p.arrival_updated = Stop!Unset \/ Says(G, p.arrival_updated)
  BY HourSays
<1>3. /\ h \in Nat /\ Says(J, q.last_observed)
      /\ q.last_update = Stop!Unset \/
           (q.last_update \in Nat /\ Says(J, q.last_update))
      /\ q.arrival_updated = Stop!Unset \/
           (q.arrival_updated \in Nat /\ Says(J, q.arrival_updated))
  BY HourSays
<1> HIDE DEF p, q
<1>4. ASSUME NEW s, NEW t, Says(G, s), Says(J, t) PROVE s <= t
  <2>1. PICK i \in SayingIn(H, G, c) : SaidBy(H, i, c).seen = s
    BY <1>4
  <2>2. PICK j \in SayingIn(H, J, c) : SaidBy(H, j, c).seen = t
    BY <1>4
  <2>3. i \in G /\ j \in J
    BY StopSets
  <2>4. i < j
    BY <1>1, <1>2, <1>3, <2>3, HoursInOrder
  <2>5. i \in SayingIn(H, DOMAIN H, c) /\ j \in SayingIn(H, DOMAIN H, c)
    BY DEF SayingIn, HourOf
  <2> QED
    BY <2>1, <2>2, <2>4, <2>5 DEF InTurn
<1> HIDE DEF Says, G, J
<1>5. p.last_observed <= q.last_observed
  BY <1>2, <1>3, <1>4
<1>6. q.last_update # Stop!Unset => p.last_update <= q.last_update
  <2> SUFFICES ASSUME q.last_update # Stop!Unset
               PROVE  p.last_update <= q.last_update
    OBVIOUS
  <2>1. CASE p.last_update = Stop!Unset
    BY <1>3, <2>1 DEF Stop!Unset
  <2>2. CASE p.last_update # Stop!Unset
    BY <1>2, <1>3, <1>4, <2>2
  <2> QED
    BY <2>1, <2>2
<1>7. q.arrival_updated # Stop!Unset => p.arrival_updated <= q.arrival_updated
  <2> SUFFICES ASSUME q.arrival_updated # Stop!Unset
               PROVE  p.arrival_updated <= q.arrival_updated
    OBVIOUS
  <2>1. CASE p.arrival_updated = Stop!Unset
    BY <1>3, <2>1 DEF Stop!Unset
  <2>2. CASE p.arrival_updated # Stop!Unset
    BY <1>2, <1>3, <1>4, <2>2
  <2> QED
    BY <2>1, <2>2
<1> QED
  BY <1>5, <1>6, <1>7 DEF p, q

(* Only one hour ranks first.                                              *)
LEMMA LatestIs ==
  ASSUME NEW parts, NEW c, NEW top \in Stop!HoursOf(parts, c),
         \A h \in Stop!HoursOf(parts, c) :
           /\ h \in Int /\ parts[h][c].last_update \in Int
           /\ parts[h][c].last_observed \in Int,
         \A g \in Stop!HoursOf(parts, c) \ {top} : Stop!Beats(
           <<parts[top][c].last_update, parts[top][c].last_observed, top>>,
           <<parts[g][c].last_update, parts[g][c].last_observed, g>>)
  PROVE  Stop!Latest(parts, c) = top
<1> DEFINE R == Stop!HoursOf(parts, c)
           Leads(h) == \A g \in R \ {h} : Stop!Beats(
             <<parts[h][c].last_update, parts[h][c].last_observed, h>>,
             <<parts[g][c].last_update, parts[g][c].last_observed, g>>)
           latest == Stop!Latest(parts, c)
<1>1. latest = CHOOSE h \in R : Leads(h)
  BY DEF Stop!Latest, Stop!First
<1>2. top \in R /\ Leads(top)
  OBVIOUS
<1> HIDE DEF latest
<1>3. latest \in R /\ Leads(latest)
  <2> HIDE DEF R, Leads
  <2> QED
    BY <1>1, <1>2
<1>4. CASE latest # top
  <2> DEFINE p == parts[latest][c]
             q == parts[top][c]
  <2>1. /\ p.last_update \in Int /\ p.last_observed \in Int /\ latest \in Int
        /\ q.last_update \in Int /\ q.last_observed \in Int /\ top \in Int
    BY <1>3
  <2>2. /\ Stop!Beats(<<p.last_update, p.last_observed, latest>>,
                      <<q.last_update, q.last_observed, top>>)
        /\ Stop!Beats(<<q.last_update, q.last_observed, top>>,
                      <<p.last_update, p.last_observed, latest>>)
    BY <1>2, <1>3, <1>4
  <2> HIDE DEF p, q, R, Leads
  <2>3. \/ p.last_update > q.last_update
        \/ p.last_update = q.last_update /\ p.last_observed > q.last_observed
        \/ p.last_update = q.last_update /\ p.last_observed = q.last_observed
             /\ latest > top
    BY <2>1, <2>2, BeatsIs
  <2>4. \/ q.last_update > p.last_update
        \/ q.last_update = p.last_update /\ q.last_observed > p.last_observed
        \/ q.last_update = p.last_update /\ q.last_observed = p.last_observed
             /\ top > latest
    BY <2>1, <2>2, BeatsIs
  <2> QED
    BY <2>1, <2>3, <2>4
<1> QED
  BY <1>4 DEF latest

LEMMA ArrivalOfIs ==
  ASSUME NEW parts, NEW c, NEW S,
         S = {h \in Stop!HoursOf(parts, c) :
                parts[h][c].arrival_updated # Stop!Unset},
         NEW top \in S,
         \A h \in S : /\ h \in Int /\ parts[h][c].arrival_updated \in Int
                      /\ parts[h][c].last_observed \in Int,
         \A g \in S \ {top} : Stop!Beats(
           <<parts[top][c].arrival_updated, parts[top][c].last_observed, top>>,
           <<parts[g][c].arrival_updated, parts[g][c].last_observed, g>>)
  PROVE  Stop!ArrivalOf(parts, c) = parts[top][c].arrival
<1> DEFINE Leads(h) == \A g \in S \ {h} : Stop!Beats(
             <<parts[h][c].arrival_updated, parts[h][c].last_observed, h>>,
             <<parts[g][c].arrival_updated, parts[g][c].last_observed, g>>)
           first == CHOOSE h \in S : Leads(h)
<1>1. Stop!ArrivalOf(parts, c) = parts[first][c].arrival
  <2>1. Stop!ArrivalOf(parts, c) =
          LET sent == S IN
          IF sent = {} THEN Stop!NoEvent
          ELSE parts[CHOOSE h \in sent : \A g \in sent \ {h} : Stop!Beats(
             <<parts[h][c].arrival_updated, parts[h][c].last_observed, h>>,
             <<parts[g][c].arrival_updated, parts[g][c].last_observed, g>>)
             ][c].arrival
    BY DEF Stop!ArrivalOf, Stop!First
  <2> QED
    BY <2>1
<1>2. top \in S /\ Leads(top)
  OBVIOUS
<1>3. first \in S /\ Leads(first)
  <2> HIDE DEF Leads
  <2> QED
    BY <1>2
<1> HIDE DEF first
<1>4. CASE first # top
  <2> DEFINE p == parts[first][c]
             q == parts[top][c]
  <2>1. /\ p.arrival_updated \in Int /\ p.last_observed \in Int /\ first \in Int
        /\ q.arrival_updated \in Int /\ q.last_observed \in Int /\ top \in Int
    BY <1>3
  <2>2. /\ Stop!Beats(<<p.arrival_updated, p.last_observed, first>>,
                      <<q.arrival_updated, q.last_observed, top>>)
        /\ Stop!Beats(<<q.arrival_updated, q.last_observed, top>>,
                      <<p.arrival_updated, p.last_observed, first>>)
    BY <1>2, <1>3, <1>4
  <2> HIDE DEF p, q, Leads
  <2>3. \/ p.arrival_updated > q.arrival_updated
        \/ p.arrival_updated = q.arrival_updated /\ p.last_observed > q.last_observed
        \/ p.arrival_updated = q.arrival_updated /\ p.last_observed = q.last_observed
             /\ first > top
    BY <2>1, <2>2, BeatsIs
  <2>4. \/ q.arrival_updated > p.arrival_updated
        \/ q.arrival_updated = p.arrival_updated /\ q.last_observed > p.last_observed
        \/ q.arrival_updated = p.arrival_updated /\ q.last_observed = p.last_observed
             /\ top > first
    BY <2>1, <2>2, BeatsIs
  <2> QED
    BY <2>1, <2>3, <2>4
<1> QED
  BY <1>1, <1>4

(* The hours that reported on a call, and those that sent an arrival.      *)
UpdatedHours(parts, c) ==
  {h \in Stop!HoursOf(parts, c) : parts[h][c].last_update # Stop!Unset}
SentHours(parts, c) ==
  {h \in Stop!HoursOf(parts, c) : parts[h][c].arrival_updated # Stop!Unset}

LEMMA LastHour ==
  ASSUME NEW A, IsFiniteSet(A), A # {}, A \subseteq Nat
  PROVE  \E top : Greatest(top, A)
<1>1. A \in SUBSET Int
  OBVIOUS
<1> QED
  BY <1>1, MaxIs DEF Greatest

LEMMA LatestInTurn ==
  ASSUME NEW H, NEW n, NEW parts, StopDay(H, n, parts),
         NEW c \in DOMAIN Stop!Merged(parts), InTurn(H, DOMAIN H, c)
  PROVE  Greatest(Stop!Latest(parts, c),
                  IF UpdatedHours(parts, c) = {} THEN Stop!HoursOf(parts, c)
                  ELSE UpdatedHours(parts, c))
<1> DEFINE R == Stop!HoursOf(parts, c)
           U == UpdatedHours(parts, c)
           T == IF U = {} THEN R ELSE U
           x(h) == parts[h][c].last_update
           y(h) == parts[h][c].last_observed
<1>1. IsFiniteSet(R) /\ R # {}
  BY StopHours
<1>2. \A h \in R : h \in Nat /\ x(h) \in Int /\ y(h) \in Int
                   /\ (x(h) = Stop!Unset \/ x(h) \in Nat)
  <2> TAKE h \in R
  <2>1. parts[h][c] \in StopRows /\ h \in Nat /\ (x(h) = Stop!Unset \/ x(h) \in Nat)
    BY HourSays
  <2> QED
    BY <2>1 DEF StopRows
<1>3. U \subseteq R /\ (\A h \in R : h \in U <=> x(h) # Stop!Unset)
  BY DEF UpdatedHours
<1>4. \A g, h \in R : g < h =>
        y(g) <= y(h) /\ (x(h) # Stop!Unset => x(g) <= x(h))
  BY RowsInTurn
<1> HIDE DEF R, U, x, y
<1>5. T \subseteq R /\ T # {} /\ IsFiniteSet(T)
  BY <1>1, <1>3, FS_Subset
<1>6. PICK top : Greatest(top, T)
  <2>1. T \subseteq Nat
    BY <1>2, <1>5
  <2> HIDE DEF T
  <2> QED
    BY <1>5, <2>1, LastHour
<1>7. top \in T /\ top \in R /\ \A h \in T : h <= top
  BY <1>5, <1>6 DEF Greatest
<1>8. ASSUME NEW g \in R \ {top}
      PROVE  Stop!Beats(<<x(top), y(top), top>>, <<x(g), y(g), g>>)
  <2>1. /\ x(top) \in Int /\ y(top) \in Int /\ top \in Int
        /\ x(g) \in Int /\ y(g) \in Int /\ g \in Int /\ g # top
    BY <1>2, <1>7
  <2>2. CASE g \in T
    <3>1. g < top
      BY <1>7, <2>1, <2>2
    <3>2. y(g) <= y(top)
      BY <1>4, <1>7, <3>1
    <3>3. x(g) <= x(top)
      <4>1. CASE U = {}
        BY <1>3, <1>7, <2>1, <4>1
      <4>2. CASE U # {}
        BY <1>3, <1>4, <1>7, <3>1, <4>2
      <4> QED
        BY <4>1, <4>2
    <3>4. \/ x(top) > x(g)
          \/ x(top) = x(g) /\ y(top) > y(g)
          \/ x(top) = x(g) /\ y(top) = y(g) /\ top > g
      BY <2>1, <3>1, <3>2, <3>3
    <3> QED
      BY <2>1, <3>4, BeatsIs
  <2>3. CASE g \notin T
    <3>1. U # {} /\ g \notin U /\ top \in U
      BY <1>7, <2>3
    <3>2. x(g) = Stop!Unset /\ x(top) \in Nat
      BY <1>2, <1>3, <1>7, <3>1
    <3>3. x(top) > x(g)
      BY <3>2 DEF Stop!Unset
    <3> QED
      BY <2>1, <3>3, BeatsIs
  <2> QED
    BY <2>2, <2>3
<1>9. Stop!Latest(parts, c) = top
  BY <1>2, <1>7, <1>8, LatestIs DEF R, x, y
<1> QED
  BY <1>6, <1>9 DEF T, R, U

LEMMA ArrivalInTurn ==
  ASSUME NEW H, NEW n, NEW parts, StopDay(H, n, parts),
         NEW c \in DOMAIN Stop!Merged(parts), InTurn(H, DOMAIN H, c)
  PROVE  LET F == Stop!Merged(parts)[c]
             S == SentHours(parts, c) IN
         IF S = {}
         THEN F.arrival = Stop!NoEvent /\ F.arrival_updated = Stop!Unset
         ELSE \E top : /\ Greatest(top, S)
                       /\ F.arrival = parts[top][c].arrival
                       /\ F.arrival_updated = parts[top][c].arrival_updated
<1> DEFINE F == Stop!Merged(parts)[c]
           R == Stop!HoursOf(parts, c)
           S == SentHours(parts, c)
           z == [h \in R |-> parts[h][c].arrival_updated]
           y(h) == parts[h][c].last_observed
<1>1. IsFiniteSet(R) /\ R # {}
  BY StopHours
<1>2. \A h \in R : h \in Nat /\ z[h] \in Int /\ y(h) \in Int
                   /\ (z[h] = Stop!Unset \/ z[h] \in Nat)
  <2> TAKE h \in R
  <2>1. /\ parts[h][c] \in StopRows /\ h \in Nat
        /\ parts[h][c].arrival_updated = Stop!Unset
             \/ parts[h][c].arrival_updated \in Nat
    BY HourSays
  <2> QED
    BY <2>1 DEF StopRows
<1>3. S \subseteq R /\ (\A h \in R : h \in S <=> z[h] # Stop!Unset)
  BY DEF SentHours
<1>4. \A g, h \in R : g < h =>
        y(g) <= y(h) /\ (z[h] # Stop!Unset => z[g] <= z[h])
  BY RowsInTurn
<1>5. /\ F.arrival = Stop!ArrivalOf(parts, c)
      /\ F.arrival_updated = Max(Values(R, z))
  BY MergedStopIs
<1>6. \A h \in R : z[h] = parts[h][c].arrival_updated
  OBVIOUS
<1>7. S = {h \in Stop!HoursOf(parts, c) :
             parts[h][c].arrival_updated # Stop!Unset}
  BY DEF SentHours
<1> HIDE DEF F, R, S, y, z
<1>8. Values(R, z) \subseteq Int
  BY <1>2 DEF Values
<1>9. CASE S = {}
  <2>1. Stop!ArrivalOf(parts, c) = Stop!NoEvent
    BY <1>7, <1>9 DEF Stop!ArrivalOf
  <2>2. Values(R, z) = {Stop!Unset}
    BY <1>1, <1>3, <1>9 DEF Values
  <2>3. Greatest(Stop!Unset, Values(R, z))
    BY <2>2 DEF Greatest, Stop!Unset
  <2>4. F.arrival_updated = Stop!Unset
    BY <1>5, <1>8, <2>3, GreatestIsMax
  <2> QED
    BY <1>5, <1>9, <2>1, <2>4 DEF F, S
<1>10. CASE S # {}
  <2>1. IsFiniteSet(S) /\ S \subseteq Nat
    BY <1>1, <1>2, <1>3, FS_Subset
  <2>2. PICK top : Greatest(top, S)
    BY <1>10, <2>1, LastHour
  <2>3. /\ top \in S /\ top \in R /\ z[top] \in Nat
        /\ \A h \in S : h <= top
    BY <1>2, <1>3, <2>2 DEF Greatest
  <2>4. ASSUME NEW g \in S \ {top}
        PROVE  /\ g \in R /\ g < top /\ y(g) <= y(top) /\ z[g] <= z[top]
               /\ Stop!Beats(<<z[top], y(top), top>>, <<z[g], y(g), g>>)
    <3>1. /\ z[top] \in Int /\ y(top) \in Int /\ top \in Int /\ g \in R
          /\ z[g] \in Int /\ y(g) \in Int /\ g \in Int /\ g # top
      BY <1>2, <1>3, <2>3
    <3>2. g < top
      BY <2>3, <3>1
    <3>3. y(g) <= y(top) /\ z[g] <= z[top]
      BY <1>3, <1>4, <2>3, <3>1, <3>2
    <3>4. \/ z[top] > z[g]
          \/ z[top] = z[g] /\ y(top) > y(g)
          \/ z[top] = z[g] /\ y(top) = y(g) /\ top > g
      BY <3>1, <3>2, <3>3
    <3>5. Stop!Beats(<<z[top], y(top), top>>, <<z[g], y(g), g>>)
      BY <3>1, <3>4, BeatsIs
    <3> QED
      BY <3>1, <3>2, <3>3, <3>5
  <2>5. Stop!ArrivalOf(parts, c) = parts[top][c].arrival
    <3>1. \A h \in S : h \in R
      BY <1>3
    <3>2. \A h \in S : /\ h \in Int /\ parts[h][c].arrival_updated \in Int
                       /\ parts[h][c].last_observed \in Int
      BY <1>2, <1>6, <3>1 DEF y
    <3>3. \A g \in S \ {top} : Stop!Beats(
           <<parts[top][c].arrival_updated, parts[top][c].last_observed, top>>,
           <<parts[g][c].arrival_updated, parts[g][c].last_observed, g>>)
      BY <1>6, <2>3, <2>4 DEF y
    <3> QED
      BY <1>7, <2>3, <3>2, <3>3, ArrivalOfIs
  <2>6. Greatest(z[top], Values(R, z))
    <3>1. ASSUME NEW g \in R PROVE z[g] <= z[top]
      <4>1. CASE g \in S /\ g # top
        BY <2>4, <4>1
      <4>2. CASE g = top
        BY <2>3, <4>2
      <4>3. CASE g \notin S
        BY <1>3, <2>3, <4>3 DEF Stop!Unset
      <4> QED
        BY <4>1, <4>2, <4>3
    <3> QED
      BY <2>3, <3>1 DEF Greatest, Values
  <2>7. F.arrival_updated = z[top]
    BY <1>5, <1>8, <2>6, GreatestIsMax
  <2> QED
    BY <1>5, <1>6, <1>10, <2>2, <2>3, <2>5, <2>7 DEF F, S
<1> QED
  BY <1>9, <1>10

(* What an observation does to the day's row, field by field.              *)
DayRow(b) ==
  [arrival |-> b.arrival, arrival_updated |-> b.arrival_updated,
   departure |-> b.departure, last_update |-> b.last_update,
   n_updates |-> b.n_updates, relationship |-> b.relationship,
   had_vehicle |-> b.had_vehicle, lost_tracking |-> b.lost_tracking]

LEMMA ToldIs ==
  ASSUME NEW b, NEW o, b = DayRow(b)
  PROVE  LET real == o.relationship \in Stop!Real
             told == real /\ o.arrival # Stop!NoEvent IN
         Day!Told(b, o) =
           [arrival |-> IF told THEN o.arrival ELSE b.arrival,
            arrival_updated |-> IF told THEN o.seen ELSE b.arrival_updated,
            departure |-> IF real THEN o.departure ELSE b.departure,
            last_update |-> IF real THEN o.seen ELSE b.last_update,
            n_updates |-> IF real THEN b.n_updates + 1 ELSE b.n_updates,
            relationship |-> IF real \/ b.n_updates = 0 THEN o.relationship
                             ELSE b.relationship,
            had_vehicle |-> b.had_vehicle \/ o.vehicle,
            lost_tracking |-> ~real /\ b.n_updates > 0 /\ o.seen > b.last_update]
<1>1. CASE o.relationship \in Stop!Real
  <2>1. Day!Told(b, o) = Day!Reported(b, o)
    BY <1>1 DEF Day!Told
  <2>2. DOMAIN b = {"arrival", "arrival_updated", "departure", "last_update",
                    "n_updates", "relationship", "had_vehicle", "lost_tracking"}
    BY DEF DayRow
  <2>3. b = [x \in DOMAIN b |-> b[x]]
    BY DEF DayRow
  <2> QED
    BY <1>1, <2>1, <2>2, <2>3 DEF Day!Reported
<1>2. CASE o.relationship \notin Stop!Real
  <2>1. Day!Told(b, o) = Day!Echoed(b, o)
    BY <1>2 DEF Day!Told
  <2>2. DOMAIN b = {"arrival", "arrival_updated", "departure", "last_update",
                    "n_updates", "relationship", "had_vehicle", "lost_tracking"}
    BY DEF DayRow
  <2>3. b = [x \in DOMAIN b |-> b[x]]
    BY DEF DayRow
  <2> QED
    BY <1>2, <2>1, <2>2, <2>3 DEF Day!Echoed
<1> QED
  BY <1>1, <1>2

(* The row b is that of c in the partials, or that of nothing said of it.  *)
FollowsIn(b, parts, H, c) ==
  LET D == DOMAIN H
      R == Stop!HoursOf(parts, c)
      U == UpdatedHours(parts, c)
      S == SentHours(parts, c) IN
  /\ b = DayRow(b)
  /\ b.n_updates = Cardinality(ReportingIn(H, D, c))
  /\ b.had_vehicle = \E i \in SayingIn(H, D, c) : SaidBy(H, i, c).vehicle
  /\ U = {} <=> ReportingIn(H, D, c) = {}
  /\ U = {} => /\ b.last_update = Stop!Unset
               /\ b.departure = Stop!NoEvent
               /\ R # {} => \E top : /\ Greatest(top, R)
                                     /\ b.relationship = parts[top][c].relationship
  /\ U # {} => \E top : /\ Greatest(top, U)
                        /\ b.last_update = parts[top][c].last_update
                        /\ b.departure = parts[top][c].departure
                        /\ b.relationship = parts[top][c].relationship
  /\ S = {} => b.arrival = Stop!NoEvent /\ b.arrival_updated = Stop!Unset
  /\ S # {} => \E top : /\ Greatest(top, S)
                        /\ b.arrival = parts[top][c].arrival
                        /\ b.arrival_updated = parts[top][c].arrival_updated

LEMMA MergedFollows ==
  ASSUME NEW H, NEW n, NEW parts, StopDay(H, n, parts),
         NEW c \in DOMAIN Stop!Merged(parts), InTurn(H, DOMAIN H, c)
  PROVE  FollowsIn(Stop!Merged(parts)[c], parts, H, c)
<1> DEFINE F == Stop!Merged(parts)[c]
           D == DOMAIN H
           R == Stop!HoursOf(parts, c)
           U == UpdatedHours(parts, c)
           S == SentHours(parts, c)
           latest == Stop!Latest(parts, c)
<1>1. /\ F.last_update = parts[latest][c].last_update
      /\ F.departure = parts[latest][c].departure
      /\ F.relationship = parts[latest][c].relationship
      /\ F = DayRow(F)
  BY MergedStopIs DEF DayRow
<1>2. StopFactIs(F, H, c)
  BY StopMerges
<1>3. Greatest(latest, IF U = {} THEN R ELSE U)
  BY LatestInTurn
<1>4. IF S = {} THEN F.arrival = Stop!NoEvent /\ F.arrival_updated = Stop!Unset
      ELSE \E top : /\ Greatest(top, S)
                    /\ F.arrival = parts[top][c].arrival
                    /\ F.arrival_updated = parts[top][c].arrival_updated
  BY ArrivalInTurn
<1>5. \A h \in R : parts[h][c].last_update = Stop!Unset =>
                     parts[h][c].departure = Stop!NoEvent
  BY HourSays
<1>6. \A h \in R : h \in U <=> parts[h][c].last_update # Stop!Unset
  BY DEF UpdatedHours
<1>7. U \subseteq R
  BY DEF UpdatedHours
<1>8. LatestOf(F.last_update, SeenReporting(H, D, c))
  BY <1>2 DEF StopFactIs
<1>9. SeenReporting(H, D, c) = {} <=> ReportingIn(H, D, c) = {}
  BY DEF SeenReporting, SeenIn
<1>10. SeenReporting(H, D, c) \subseteq Nat
  <2>1. \A i \in D : H[i].at \in Nat /\ H[i].update \in Updates
    BY HearingsAre DEF StopDay
  <2> QED
    BY <2>1, SaidType DEF SeenReporting
<1>11. /\ F.n_updates = Cardinality(ReportingIn(H, D, c))
       /\ F.had_vehicle = \E i \in SayingIn(H, D, c) : SaidBy(H, i, c).vehicle
  BY <1>2 DEF StopFactIs
<1> HIDE DEF F, R, U, S, latest
<1>12. CASE U = {}
  <2>1. Greatest(latest, R) /\ latest \in R /\ latest \notin U
    BY <1>3, <1>12 DEF Greatest
  <2>2. F.last_update = Stop!Unset /\ F.departure = Stop!NoEvent
    BY <1>1, <1>5, <1>6, <2>1
  <2>3. ReportingIn(H, D, c) = {}
    BY <1>8, <1>9, <1>10, <2>2 DEF LatestOf, Greatest, Stop!Unset
  <2> QED
    BY <1>1, <1>4, <1>11, <1>12, <2>1, <2>2, <2>3 DEF FollowsIn, F, R, U, S
<1>13. CASE U # {}
  <2>1. Greatest(latest, U) /\ latest \in U
    BY <1>3, <1>13 DEF Greatest
  <2>2. F.last_update # Stop!Unset
    BY <1>1, <1>6, <1>7, <2>1
  <2>3. ReportingIn(H, D, c) # {}
    BY <1>8, <1>9, <2>2 DEF LatestOf, Stop!Unset, Trip!Unset
  <2> QED
    BY <1>1, <1>4, <1>11, <1>13, <2>1, <2>3 DEF FollowsIn, F, R, U, S
<1> QED
  BY <1>12, <1>13

LEMMA UntoldFollows ==
  ASSUME NEW H, NEW n, NEW parts, StopDay(H, n, parts),
         NEW c, Stop!HoursOf(parts, c) = {}
  PROVE  FollowsIn(Day!Untold, parts, H, c) /\ SayingIn(H, DOMAIN H, c) = {}
<1> DEFINE b == Day!Untold
<1>1. UpdatedHours(parts, c) = {} /\ SentHours(parts, c) = {}
  BY DEF UpdatedHours, SentHours
<1>2. SayingIn(H, DOMAIN H, c) = {}
  <2> SUFFICES ASSUME NEW i \in SayingIn(H, DOMAIN H, c) PROVE FALSE
    OBVIOUS
  <2>1. n \in Nat /\ LogOf(H, Hearings, n) /\ i \in DOMAIN H
    BY DEF StopDay, SayingIn
  <2>2. PICK h \in 0..n : i \in HourOf(H, h)
    BY <2>1, HoursAre
  <2>3. i \in SayingIn(H, HourOf(H, h), c)
    BY <2>2 DEF SayingIn
  <2>4. c \in DOMAIN parts[h] /\ h \in DOMAIN parts
    BY <2>3 DEF StopDay, StopTableIs
  <2> QED
    BY <2>4 DEF Stop!HoursOf
<1>3. ReportingIn(H, DOMAIN H, c) = {}
  BY <1>2 DEF ReportingIn
<1>4. /\ b = DayRow(b) /\ b.n_updates = 0 /\ b.had_vehicle = FALSE
      /\ b.last_update = Stop!Unset /\ b.departure = Stop!NoEvent
      /\ b.arrival = Stop!NoEvent /\ b.arrival_updated = Stop!Unset
  BY DEF Day!Untold, DayRow
<1> HIDE DEF b
<1>5. FollowsIn(b, parts, H, c)
  BY <1>1, <1>2, <1>3, <1>4, FS_EmptySet DEF FollowsIn
<1> QED
  BY <1>2, <1>5 DEF b

SameRow(a, b) ==
  /\ a.arrival = b.arrival /\ a.arrival_updated = b.arrival_updated
  /\ a.departure = b.departure /\ a.last_update = b.last_update
  /\ a.relationship = b.relationship

(* The row of c in hour n goes from old to new as o is absorbed, and the   *)
(* rows of the hours before it stay as they are.                           *)
HourTold(parts, parts2, c, n, old, new, o) ==
  LET R  == Stop!HoursOf(parts, c)
      R2 == Stop!HoursOf(parts2, c) IN
  /\ n \in Nat /\ R \subseteq 0..n
  /\ R2 = R \union {n}
  /\ \A h \in R : h # n => parts2[h][c] = parts[h][c]
  /\ IF n \in R THEN SameRow(parts[n][c], old)
     ELSE old.last_update = Stop!Unset /\ old.arrival_updated = Stop!Unset
  /\ SameRow(parts2[n][c], new)
  /\ StopAbsorbed(new, old, o)
  /\ o.seen \in Nat /\ ~(o.seen < old.last_update)

(* What hour n has absorbed is what the day's row is told.                 *)
LEMMA HourTellsDay ==
  ASSUME NEW parts, NEW parts2, NEW c, NEW n, NEW old, NEW new, NEW o,
         HourTold(parts, parts2, c, n, old, new, o),
         NEW H, NEW K, NEW b, NEW f,
         FollowsIn(b, parts, H, c), FollowsIn(f, parts2, K, c)
  PROVE  LET real == o.relationship \in Stop!Real
             told == real /\ o.arrival # Stop!NoEvent IN
         /\ f.arrival = IF told THEN o.arrival ELSE b.arrival
         /\ f.arrival_updated = IF told THEN o.seen ELSE b.arrival_updated
         /\ f.departure = IF real THEN o.departure ELSE b.departure
         /\ f.last_update = IF real THEN o.seen ELSE b.last_update
         /\ f.relationship =
              IF real \/ ReportingIn(H, DOMAIN H, c) = {} THEN o.relationship
              ELSE b.relationship
<1> DEFINE real == o.relationship \in Stop!Real
           told == real /\ o.arrival # Stop!NoEvent
           R  == Stop!HoursOf(parts, c)
           R2 == Stop!HoursOf(parts2, c)
           U  == UpdatedHours(parts, c)
           U2 == UpdatedHours(parts2, c)
           S  == SentHours(parts, c)
           S2 == SentHours(parts2, c)
<1>1. /\ n \in Nat /\ R \subseteq 0..n
      /\ R2 = R \union {n}
      /\ \A h \in R : h # n => parts2[h][c] = parts[h][c]
      /\ IF n \in R THEN SameRow(parts[n][c], old)
         ELSE old.last_update = Stop!Unset /\ old.arrival_updated = Stop!Unset
      /\ SameRow(parts2[n][c], new)
      /\ StopAbsorbed(new, old, o)
      /\ o.seen \in Nat /\ ~(o.seen < old.last_update)
  BY DEF HourTold
<1>2. /\ new.last_update = IF real THEN o.seen ELSE old.last_update
      /\ new.arrival = IF told THEN o.arrival ELSE old.arrival
      /\ new.arrival_updated = IF told THEN o.seen ELSE old.arrival_updated
      /\ new.departure = IF real THEN o.departure ELSE old.departure
      /\ new.relationship = IF real \/ old.last_update = Stop!Unset
                            THEN o.relationship ELSE old.relationship
  BY <1>1 DEF StopAbsorbed
<1>3. /\ parts2[n][c].last_update = new.last_update
      /\ parts2[n][c].arrival = new.arrival
      /\ parts2[n][c].arrival_updated = new.arrival_updated
      /\ parts2[n][c].departure = new.departure
      /\ parts2[n][c].relationship = new.relationship
  BY <1>1 DEF SameRow
<1>4. /\ \A h : h \in U <=> h \in R /\ parts[h][c].last_update # Stop!Unset
      /\ \A h : h \in U2 <=> h \in R2 /\ parts2[h][c].last_update # Stop!Unset
      /\ \A h : h \in S <=> h \in R /\ parts[h][c].arrival_updated # Stop!Unset
      /\ \A h : h \in S2 <=> h \in R2 /\ parts2[h][c].arrival_updated # Stop!Unset
  BY DEF UpdatedHours, SentHours
<1>5. n \in R => /\ parts[n][c].last_update = old.last_update
                 /\ parts[n][c].arrival = old.arrival
                 /\ parts[n][c].arrival_updated = old.arrival_updated
                 /\ parts[n][c].departure = old.departure
                 /\ parts[n][c].relationship = old.relationship
  BY <1>1 DEF SameRow
<1>6. n \notin R => old.last_update = Stop!Unset /\ old.arrival_updated = Stop!Unset
  BY <1>1
<1>7. /\ U = {} <=> ReportingIn(H, DOMAIN H, c) = {}
      /\ U = {} => b.last_update = Stop!Unset /\ b.departure = Stop!NoEvent
      /\ U # {} => \E top : /\ Greatest(top, U)
                            /\ b.last_update = parts[top][c].last_update
                            /\ b.departure = parts[top][c].departure
                            /\ b.relationship = parts[top][c].relationship
      /\ S = {} => b.arrival = Stop!NoEvent /\ b.arrival_updated = Stop!Unset
      /\ S # {} => \E top : /\ Greatest(top, S)
                            /\ b.arrival = parts[top][c].arrival
                            /\ b.arrival_updated = parts[top][c].arrival_updated
  BY DEF FollowsIn
<1>8. /\ U2 = {} => /\ f.last_update = Stop!Unset /\ f.departure = Stop!NoEvent
                    /\ R2 # {} => \E top : /\ Greatest(top, R2)
                                           /\ f.relationship = parts2[top][c].relationship
      /\ U2 # {} => \E top : /\ Greatest(top, U2)
                             /\ f.last_update = parts2[top][c].last_update
                             /\ f.departure = parts2[top][c].departure
                             /\ f.relationship = parts2[top][c].relationship
      /\ S2 = {} => f.arrival = Stop!NoEvent /\ f.arrival_updated = Stop!Unset
      /\ S2 # {} => \E top : /\ Greatest(top, S2)
                             /\ f.arrival = parts2[top][c].arrival
                             /\ f.arrival_updated = parts2[top][c].arrival_updated
  BY DEF FollowsIn
<1>9. o.seen # Stop!Unset
  BY <1>1 DEF Stop!Unset
<1>10. \A h \in R2 : h <= n /\ h \in Int
  <2>1. \A h \in 0..n : h <= n /\ h \in Int
    OBVIOUS
  <2> QED
    BY <1>1, <2>1
<1> HIDE DEF R, R2, U, U2, S, S2
<1>11. ASSUME NEW A, NEW x, NEW y, A \subseteq R2, Greatest(x, A), Greatest(y, A)
       PROVE  x = y
  <2>1. x \in A /\ y \in A /\ x <= y /\ y <= x
    BY <1>11 DEF Greatest
  <2>2. x \in Int /\ y \in Int
    BY <1>10, <1>11, <2>1
  <2> QED
    BY <2>1, <2>2
<1>12. ASSUME NEW A, NEW x, A \subseteq R2, n \in A, Greatest(x, A)
       PROVE  x = n
  <2>1. Greatest(n, A)
    BY <1>10, <1>12 DEF Greatest
  <2> QED
    BY <1>11, <1>12, <2>1
<1>13. /\ f.departure = IF real THEN o.departure ELSE b.departure
       /\ f.last_update = IF real THEN o.seen ELSE b.last_update
       /\ f.relationship = IF real \/ U = {} THEN o.relationship
                           ELSE b.relationship
  <2>0. U2 \subseteq R2 /\ n \in R2
    BY <1>1, <1>4
  <2>1. CASE real
    <3>1. n \in U2
      BY <1>2, <1>3, <1>4, <1>9, <2>0, <2>1
    <3>2. PICK top : /\ Greatest(top, U2)
                     /\ f.last_update = parts2[top][c].last_update
                     /\ f.departure = parts2[top][c].departure
                     /\ f.relationship = parts2[top][c].relationship
      BY <1>8, <3>1
    <3>3. top = n
      BY <1>12, <2>0, <3>1, <3>2
    <3> QED
      BY <1>2, <1>3, <2>1, <3>2, <3>3
  <2>2. CASE ~real
    <3>1. ASSUME NEW h PROVE h \in U2 <=> h \in U
      <4>1. CASE h = n
        BY <1>1, <1>2, <1>3, <1>4, <1>5, <1>6, <2>2, <4>1
      <4>2. CASE h # n
        BY <1>1, <1>4, <4>2
      <4> QED
        BY <4>1, <4>2
    <3>2. U2 = U
      BY <3>1
    <3>3. CASE U = {}
      <4>1. PICK top : /\ Greatest(top, R2)
                       /\ f.relationship = parts2[top][c].relationship
        BY <1>8, <2>0, <3>2, <3>3
      <4>2. top = n
        BY <1>12, <2>0, <4>1
      <4>3. old.last_update = Stop!Unset
        BY <1>4, <1>5, <1>6, <3>3
      <4>4. f.relationship = o.relationship
        BY <1>2, <1>3, <4>1, <4>2, <4>3
      <4>5. /\ f.departure = b.departure /\ f.last_update = b.last_update
        BY <1>7, <1>8, <3>2, <3>3
      <4> QED
        BY <2>2, <3>3, <4>4, <4>5
    <3>4. CASE U # {}
      <4>1. PICK top : /\ Greatest(top, U2)
                       /\ f.last_update = parts2[top][c].last_update
                       /\ f.departure = parts2[top][c].departure
                       /\ f.relationship = parts2[top][c].relationship
        BY <1>8, <3>2, <3>4
      <4>2. PICK last : /\ Greatest(last, U)
                        /\ b.last_update = parts[last][c].last_update
                        /\ b.departure = parts[last][c].departure
                        /\ b.relationship = parts[last][c].relationship
        BY <1>7, <3>4
      <4>3. top = last /\ top \in U /\ top \in R
        <5>1. Greatest(last, U2)
          BY <3>2, <4>2
        <5>2. top = last
          BY <1>11, <2>0, <4>1, <5>1
        <5>3. top \in U
          BY <4>2, <5>2 DEF Greatest
        <5> QED
          BY <1>4, <5>2, <5>3
      <4>4. /\ parts2[top][c].last_update = parts[top][c].last_update
            /\ parts2[top][c].departure = parts[top][c].departure
            /\ parts2[top][c].relationship = parts[top][c].relationship
        <5>1. CASE top = n
          <6>1. n \in R /\ n \in U /\ old.last_update # Stop!Unset
            BY <1>4, <1>5, <4>3, <5>1
          <6>2. /\ new.last_update = old.last_update
                /\ new.departure = old.departure
                /\ new.relationship = old.relationship
            BY <1>2, <2>2, <6>1
          <6> QED
            BY <1>3, <1>5, <5>1, <6>1, <6>2
        <5>2. CASE top # n
          BY <1>1, <4>3, <5>2
        <5> QED
          BY <5>1, <5>2
      <4> QED
        BY <2>2, <3>4, <4>1, <4>2, <4>3, <4>4
    <3> QED
      BY <3>3, <3>4
  <2> QED
    BY <2>1, <2>2
<1>14. /\ f.arrival = IF told THEN o.arrival ELSE b.arrival
       /\ f.arrival_updated = IF told THEN o.seen ELSE b.arrival_updated
  <2>0. S2 \subseteq R2 /\ n \in R2
    BY <1>1, <1>4
  <2>1. CASE told
    <3>1. n \in S2
      BY <1>2, <1>3, <1>4, <1>9, <2>0, <2>1
    <3>2. PICK top : /\ Greatest(top, S2)
                     /\ f.arrival = parts2[top][c].arrival
                     /\ f.arrival_updated = parts2[top][c].arrival_updated
      BY <1>8, <3>1
    <3>3. top = n
      BY <1>12, <2>0, <3>1, <3>2
    <3> QED
      BY <1>2, <1>3, <2>1, <3>2, <3>3
  <2>2. CASE ~told
    <3>0. new.arrival = old.arrival /\ new.arrival_updated = old.arrival_updated
      BY <1>2, <2>2
    <3>1. ASSUME NEW h PROVE h \in S2 <=> h \in S
      <4>1. CASE h = n
        BY <1>1, <1>3, <1>4, <1>5, <1>6, <3>0, <4>1
      <4>2. CASE h # n
        BY <1>1, <1>4, <4>2
      <4> QED
        BY <4>1, <4>2
    <3>2. S2 = S
      BY <3>1
    <3>3. CASE S = {}
      BY <1>7, <1>8, <2>2, <3>2, <3>3
    <3>4. CASE S # {}
      <4>1. PICK top : /\ Greatest(top, S2)
                       /\ f.arrival = parts2[top][c].arrival
                       /\ f.arrival_updated = parts2[top][c].arrival_updated
        BY <1>8, <3>2, <3>4
      <4>2. PICK last : /\ Greatest(last, S)
                        /\ b.arrival = parts[last][c].arrival
                        /\ b.arrival_updated = parts[last][c].arrival_updated
        BY <1>7, <3>4
      <4>3. top = last /\ top \in S /\ top \in R
        <5>1. Greatest(last, S2)
          BY <3>2, <4>2
        <5>2. top = last
          BY <1>11, <2>0, <4>1, <5>1
        <5>3. top \in S
          BY <4>2, <5>2 DEF Greatest
        <5> QED
          BY <1>4, <5>2, <5>3
      <4>4. /\ parts2[top][c].arrival = parts[top][c].arrival
            /\ parts2[top][c].arrival_updated = parts[top][c].arrival_updated
        <5>1. CASE top = n
          BY <1>3, <1>5, <3>0, <4>3, <5>1
        <5>2. CASE top # n
          BY <1>1, <4>3, <5>2
        <5> QED
          BY <5>1, <5>2
      <4> QED
        BY <2>2, <4>1, <4>2, <4>3, <4>4
    <3> QED
      BY <3>3, <3>4
  <2> QED
    BY <2>1, <2>2
<1> QED
  BY <1>7, <1>13, <1>14 DEF U

LEMMA FinaliseIs ==
  ASSUME NEW row \in StopRows PROVE SameRow(Stop!Finalise(row), row)
<1> DEFINE lost == /\ row.last_update # Stop!Unset
                   /\ row.last_observed > row.last_update
           r == Stop!Finalise(row)
<1>1. r = [row EXCEPT !.lost_tracking = lost]
  BY DEF Stop!Finalise
<1> HIDE DEF r, lost
<1>2. SameRow(r, row)
  BY <1>1 DEF SameRow, StopRows
<1> QED
  BY <1>2 DEF r

LEMMA JoinedIs ==
  ASSUME NEW parts, NEW c
  PROVE  c \in DOMAIN Stop!Merged(parts) <=>
           c.sequence # Stop!Unset /\ Stop!HoursOf(parts, c) # {}
<1>1. DOMAIN Stop!Merged(parts) = Stop!Joined(parts)
  BY DEF Stop!Merged
<1>2. c \in Stop!Joined(parts) <=>
        c.sequence # Stop!Unset /\ \E h \in DOMAIN parts : c \in DOMAIN parts[h]
  BY DEF Stop!Joined
<1>3. Stop!HoursOf(parts, c) # {} <=> \E h \in DOMAIN parts : c \in DOMAIN parts[h]
  BY DEF Stop!HoursOf
<1> QED
  BY <1>1, <1>2, <1>3

(* The log K is H and then u, fetched at t.                                *)
Heard(H, K, l, u, t) ==
  /\ DOMAIN K = DOMAIN H \union {l}
  /\ \A i \in DOMAIN H : K[i] = H[i] /\ i < l
  /\ l \notin DOMAIN H
  /\ K[l].at = t /\ K[l].update = u

(* The partials before and after it, the hour at hand being n.             *)
Absorbed(n, parts, parts2, table, u, t) ==
  /\ \A h \in 0..n : h # n => parts2[h] = parts[h]
  /\ parts[n] = Stop!Finalised(table)
  /\ parts2[n] = Stop!Finalised(Stop!AbsorbTrip(table, u, t))

LEMMA UpdateTellsHour ==
  ASSUME NEW H, NEW K, NEW n, NEW parts, NEW parts2,
         StopDay(H, n, parts), StopDay(K, n, parts2),
         NEW l, NEW u \in Updates, NEW t \in Nat, Heard(H, K, l, u, t),
         NEW table, StopTableIs(table, H, HourOf(H, n)),
         Absorbed(n, parts, parts2, table, u, t),
         NEW c \in DOMAIN u.stops, ~Stop!DatedADayAhead(u),
         \A i \in SayingIn(H, DOMAIN H, c) :
           SaidBy(H, i, c).seen <= Stop!ObservationTime(u, t)
  PROVE  \E old, new : HourTold(parts, parts2, c, n, old, new,
                                Stop!Observation(u, c, t))
<1> DEFINE o == Stop!Observation(u, c, t)
           old == IF c \in DOMAIN table THEN table[c] ELSE Stop!Blank
           new == Stop!AbsorbStop(old, o)
           I == HourOf(H, n)
           R == Stop!HoursOf(parts, c)
           R2 == Stop!HoursOf(parts2, c)
<1>1. n \in Nat /\ LogOf(H, Hearings, n) /\ DOMAIN parts = 0..n
      /\ DOMAIN parts2 = 0..n
  BY DEF StopDay
<1>2. o \in Observed /\ o.seen = Stop!ObservationTime(u, t) /\ o.seen \in Nat
  <2>1. o \in Observed
    BY ObservationType
  <2> QED
    BY <2>1 DEF Observed, Stop!Observation
<1>3. StopIs(old, H, I, c)
  <2>1. CASE c \in DOMAIN table
    BY <2>1 DEF StopTableIs
  <2>2. CASE c \notin DOMAIN table
    BY <2>2, BlankStopIs DEF StopTableIs
  <2> QED
    BY <2>1, <2>2
<1>4. old \in StopRows
  BY <1>3 DEF StopIs
<1>5. c \notin DOMAIN table =>
        old.last_update = Stop!Unset /\ old.arrival_updated = Stop!Unset
  BY DEF Stop!Blank
<1>6. /\ DOMAIN parts[n] = DOMAIN table
      /\ c \in DOMAIN table => parts[n][c] = Stop!Finalise(old)
  BY DEF Absorbed, Stop!Finalised
<1>7. c \in DOMAIN parts2[n] /\ parts2[n][c] = Stop!Finalise(new)
  <2> DEFINE table2 == Stop!AbsorbTrip(table, u, t)
  <2>1. table2 = [d \in DOMAIN table \union DOMAIN u.stops |->
                    IF d \notin DOMAIN u.stops THEN table[d]
                    ELSE Stop!AbsorbStop(
                           IF d \in DOMAIN table THEN table[d] ELSE Stop!Blank,
                           Stop!Observation(u, d, t))]
    BY DEF Stop!AbsorbTrip
  <2>2. c \in DOMAIN table2 /\ table2[c] = new
    BY <2>1
  <2> HIDE DEF table2, new
  <2> QED
    BY <2>2 DEF Absorbed, Stop!Finalised, table2
<1> HIDE DEF old
<1>8. StopAbsorbed(new, old, o)
  BY <1>2, <1>4, AbsorbStopIs
<1>9. SameRow(parts2[n][c], new)
  <2>1. new \in StopRows
    BY <1>8 DEF StopAbsorbed
  <2> HIDE DEF new
  <2> QED
    BY <1>7, <2>1, FinaliseIs
<1>10. n \in R <=> c \in DOMAIN table
  BY <1>1, <1>6 DEF Stop!HoursOf
<1>11. IF n \in R THEN SameRow(parts[n][c], old)
       ELSE old.last_update = Stop!Unset /\ old.arrival_updated = Stop!Unset
  BY <1>4, <1>5, <1>6, <1>10, FinaliseIs
<1>12. /\ R \subseteq 0..n /\ R2 = R \union {n}
       /\ \A h \in R : h # n => parts2[h][c] = parts[h][c]
  BY <1>1, <1>7 DEF Stop!HoursOf, Absorbed
<1> HIDE DEF new, o
<1>13. ~(o.seen < old.last_update)
  <2>1. LatestOf(old.last_update, SeenIn(H, ReportingIn(H, I, c), c))
    BY <1>3 DEF StopIs
  <2>2. CASE old.last_update = Stop!Unset
    BY <1>2, <2>2 DEF Stop!Unset
  <2>3. CASE old.last_update # Stop!Unset
    <3>1. old.last_update \in SeenIn(H, ReportingIn(H, I, c), c)
      BY <2>1, <2>3 DEF LatestOf, Greatest, Stop!Unset, Trip!Unset
    <3>2. PICK i \in ReportingIn(H, I, c) : SaidBy(H, i, c).seen = old.last_update
      BY <3>1 DEF SeenIn
    <3>3. i \in SayingIn(H, DOMAIN H, c)
      BY DEF ReportingIn, SayingIn, HourOf
    <3>4. old.last_update <= o.seen /\ old.last_update \in Int
      BY <1>2, <1>4, <3>2, <3>3 DEF StopRows
    <3> QED
      BY <1>2, <3>4
  <2> QED
    BY <2>2, <2>3
<1>14. HourTold(parts, parts2, c, n, old, new, o)
  BY <1>1, <1>2, <1>8, <1>9, <1>11, <1>12, <1>13 DEF HourTold
<1> QED
  BY <1>14 DEF o

LEMMA UpdateTellsDay ==
  ASSUME NEW H, NEW K, NEW n, NEW parts, NEW parts2,
         StopDay(H, n, parts), StopDay(K, n, parts2),
         NEW l, NEW u \in Updates, NEW t \in Nat, Heard(H, K, l, u, t),
         NEW table, StopTableIs(table, H, HourOf(H, n)),
         Absorbed(n, parts, parts2, table, u, t),
         NEW c \in DOMAIN u.stops, ~Stop!DatedADayAhead(u),
         c.sequence # Stop!Unset, InTurn(K, DOMAIN K, c)
  PROVE  /\ c \in DOMAIN Stop!Merged(parts2)
         /\ Stop!Merged(parts2)[c] =
              Day!Told(IF c \in DOMAIN Stop!Merged(parts)
                       THEN Stop!Merged(parts)[c] ELSE Day!Untold,
                       Stop!Observation(u, c, t))
<1> DEFINE o == Stop!Observation(u, c, t)
           b == IF c \in DOMAIN Stop!Merged(parts)
                THEN Stop!Merged(parts)[c] ELSE Day!Untold
           f == Stop!Merged(parts2)[c]
           D == DOMAIN H
           D2 == DOMAIN K
           real == o.relationship \in Stop!Real
<1>1. n \in Nat /\ LogOf(H, Hearings, n) /\ LogOf(K, Hearings, n)
  BY DEF StopDay
<1>2. /\ D2 = D \union {l} /\ l \notin D
      /\ \A i \in D : K[i] = H[i] /\ i < l
      /\ K[l].at = t /\ K[l].update = u
  BY DEF Heard
<1>3. o \in Observed /\ o.seen = Stop!ObservationTime(u, t) /\ o.seen \in Nat
      /\ o.vehicle \in BOOLEAN
  <2>1. o \in Observed
    BY ObservationType
  <2> QED
    BY <2>1 DEF Observed, Stop!Observation
<1>4. SaidBy(K, l, c) = o /\ \A i \in D : SaidBy(K, i, c) = SaidBy(H, i, c)
  BY <1>2 DEF SaidBy
<1>5. SayingIn(K, D2, c) = SayingIn(H, D, c) \union {l}
  BY <1>2 DEF SayingIn
<1>6. SayingIn(H, D, c) \subseteq D
  BY DEF SayingIn
<1> HIDE DEF o, b, f
<1>7. ReportingIn(K, D2, c) = IF real THEN ReportingIn(H, D, c) \union {l}
                              ELSE ReportingIn(H, D, c)
  BY <1>4, <1>5, <1>6 DEF ReportingIn
<1>8. InTurn(H, D, c)
  BY <1>4, <1>5, <1>6 DEF InTurn
<1>9. \A i \in SayingIn(H, D, c) : SaidBy(H, i, c).seen <= o.seen
  BY <1>2, <1>4, <1>5, <1>6 DEF InTurn
<1>10. PICK old, new : HourTold(parts, parts2, c, n, old, new, o)
  <2>1. \A i \in SayingIn(H, DOMAIN H, c) :
           SaidBy(H, i, c).seen <= Stop!ObservationTime(u, t)
    BY <1>3, <1>9
  <2> QED
    BY <2>1, UpdateTellsHour DEF o
<1>11. c \in DOMAIN Stop!Merged(parts2)
  BY <1>10, JoinedIs DEF HourTold
<1>12. FollowsIn(b, parts, H, c)
  <2>1. CASE c \in DOMAIN Stop!Merged(parts)
    BY <1>8, <2>1, MergedFollows DEF b
  <2>2. CASE c \notin DOMAIN Stop!Merged(parts)
    <3>1. Stop!HoursOf(parts, c) = {}
      BY <2>2, JoinedIs
    <3> QED
      BY <2>2, <3>1, UntoldFollows DEF b
  <2> QED
    BY <2>1, <2>2
<1>13. FollowsIn(f, parts2, K, c)
  BY <1>11, MergedFollows DEF f
<1>14. /\ f.arrival = IF real /\ o.arrival # Stop!NoEvent THEN o.arrival
                      ELSE b.arrival
       /\ f.arrival_updated = IF real /\ o.arrival # Stop!NoEvent THEN o.seen
                              ELSE b.arrival_updated
       /\ f.departure = IF real THEN o.departure ELSE b.departure
       /\ f.last_update = IF real THEN o.seen ELSE b.last_update
       /\ f.relationship = IF real \/ ReportingIn(H, D, c) = {}
                           THEN o.relationship ELSE b.relationship
  BY <1>10, <1>12, <1>13, HourTellsDay
<1>15. IsFiniteSet(ReportingIn(H, D, c)) /\ l \notin ReportingIn(H, D, c)
  <2>1. IsFiniteSet(D)
    BY <1>1, HoursAre
  <2>2. ReportingIn(H, D, c) \subseteq D
    BY <1>6, StopSets
  <2> QED
    BY <1>2, <2>1, <2>2, FS_Subset
<1>16. /\ b.n_updates = Cardinality(ReportingIn(H, D, c))
       /\ f.n_updates = Cardinality(ReportingIn(K, D2, c))
       /\ b.had_vehicle = \E i \in SayingIn(H, D, c) : SaidBy(H, i, c).vehicle
       /\ f.had_vehicle = \E i \in SayingIn(K, D2, c) : SaidBy(K, i, c).vehicle
       /\ b = DayRow(b) /\ f = DayRow(f)
  BY <1>12, <1>13 DEF FollowsIn
<1>17. /\ f.n_updates = IF real THEN b.n_updates + 1 ELSE b.n_updates
       /\ b.n_updates \in Nat
       /\ b.n_updates = 0 <=> ReportingIn(H, D, c) = {}
  BY <1>7, <1>15, <1>16, FS_AddElement, FS_CardinalityType, FS_EmptySet
<1>18. f.had_vehicle = (b.had_vehicle \/ o.vehicle)
  <2>1. (\E i \in SayingIn(K, D2, c) : SaidBy(K, i, c).vehicle) <=>
          (\E i \in SayingIn(H, D, c) : SaidBy(H, i, c).vehicle) \/ o.vehicle
    BY <1>4, <1>5, <1>6
  <2> QED
    BY <1>3, <1>16, <2>1
<1>19. f.lost_tracking = (~real /\ b.n_updates > 0 /\ o.seen > b.last_update)
  <2>1. StopFactIs(f, K, c)
    BY <1>11, StopMerges DEF f
  <2>2. PICK m : /\ Greatest(m, SeenSaying(K, D2, c))
                 /\ f.lost_tracking <=> f.last_update # Stop!Unset /\ m > f.last_update
    BY <2>1 DEF StopFactIs
  <2>3. f.lost_tracking \in BOOLEAN
    BY <1>11, MergedStopIs DEF f
  <2>4. m = o.seen
    <3>1. Greatest(o.seen, SeenSaying(K, D2, c))
      BY <1>3, <1>4, <1>5, <1>6, <1>9 DEF Greatest, SeenSaying, SeenIn
    <3>2. m \in SeenSaying(K, D2, c) /\ m <= o.seen /\ o.seen <= m
      BY <2>2, <3>1 DEF Greatest
    <3>3. m \in Nat
      <4>1. \A i \in D2 : K[i].at \in Nat /\ K[i].update \in Updates
        BY <1>1, HearingsAre
      <4>2. SeenSaying(K, D2, c) \subseteq Nat
        BY <4>1, SaidType DEF SeenSaying
      <4> QED
        BY <3>2, <4>2
    <3> QED
      BY <1>3, <3>2, <3>3
  <2>5. b.last_update = Stop!Unset <=> ReportingIn(H, D, c) = {}
    <3>1. CASE c \in DOMAIN Stop!Merged(parts)
      <4>1. LatestOf(b.last_update, SeenReporting(H, D, c))
        BY <3>1, StopMerges DEF StopFactIs, b
      <4>2. SeenReporting(H, D, c) = {} <=> ReportingIn(H, D, c) = {}
        BY DEF SeenReporting, SeenIn
      <4>3. SeenReporting(H, D, c) \subseteq Nat
        <5>1. \A i \in D : H[i].at \in Nat /\ H[i].update \in Updates
          BY <1>1, HearingsAre
        <5> QED
          BY <5>1, SaidType DEF SeenReporting
      <4> QED
        BY <4>1, <4>2, <4>3 DEF LatestOf, Greatest, Stop!Unset, Trip!Unset
    <3>2. CASE c \notin DOMAIN Stop!Merged(parts)
      <4>1. Stop!HoursOf(parts, c) = {}
        BY <3>2, JoinedIs
      <4>2. SayingIn(H, D, c) = {}
        BY <4>1, UntoldFollows
      <4>3. ReportingIn(H, D, c) = {}
        BY <4>2, StopSets
      <4> QED
        BY <3>2, <4>3 DEF b, Day!Untold
    <3> QED
      BY <3>1, <3>2
  <2>6. CASE real
    <3>1. f.last_update = o.seen
      BY <1>14, <2>6
    <3>2. ~f.lost_tracking
      BY <1>3, <2>2, <2>4, <3>1
    <3> QED
      BY <2>3, <2>6, <3>2
  <2>7. CASE ~real
    <3>1. f.last_update = b.last_update
      BY <1>14, <2>7
    <3>2. b.last_update # Stop!Unset <=> b.n_updates > 0
      BY <1>17, <2>5
    <3> QED
      BY <2>2, <2>3, <2>4, <2>7, <3>1, <3>2
  <2> QED
    BY <2>6, <2>7
<1>20. f = Day!Told(b, o)
  <2> DEFINE w == Day!Told(b, o)
             told == real /\ o.arrival # Stop!NoEvent
  <2>1. w = [arrival |-> IF told THEN o.arrival ELSE b.arrival,
            arrival_updated |-> IF told THEN o.seen ELSE b.arrival_updated,
            departure |-> IF real THEN o.departure ELSE b.departure,
            last_update |-> IF real THEN o.seen ELSE b.last_update,
            n_updates |-> IF real THEN b.n_updates + 1 ELSE b.n_updates,
            relationship |-> IF real \/ b.n_updates = 0 THEN o.relationship
                             ELSE b.relationship,
            had_vehicle |-> b.had_vehicle \/ o.vehicle,
            lost_tracking |-> ~real /\ b.n_updates > 0 /\ o.seen > b.last_update]
    BY <1>16, ToldIs
  <2> HIDE DEF w
  <2>2. f = [arrival |-> f.arrival, arrival_updated |-> f.arrival_updated,
             departure |-> f.departure, last_update |-> f.last_update,
             n_updates |-> f.n_updates, relationship |-> f.relationship,
             had_vehicle |-> f.had_vehicle, lost_tracking |-> f.lost_tracking]
    BY <1>16 DEF DayRow
  <2>3. f.relationship = IF real \/ b.n_updates = 0 THEN o.relationship
                         ELSE b.relationship
    BY <1>14, <1>17
  <2>4. f = w
    BY <1>14, <1>17, <1>18, <1>19, <2>1, <2>2, <2>3, Zenon
  <2> QED
    BY <2>4 DEF w
<1> QED
  BY <1>11, <1>20 DEF f, b, o

(* Only the rows of c count towards its merged row.                        *)
LEMMA MergedAgrees ==
  ASSUME NEW H, NEW n, NEW parts, StopDay(H, n, parts),
         NEW c \in DOMAIN Stop!Merged(parts), NEW parts2,
         Stop!HoursOf(parts2, c) = Stop!HoursOf(parts, c),
         \A h \in Stop!HoursOf(parts, c) : parts2[h][c] = parts[h][c]
  PROVE  Stop!MergedRow(parts2, c) = Stop!MergedRow(parts, c)
<1> DEFINE R == Stop!HoursOf(parts, c)
           S == {h \in R : parts[h][c].arrival_updated # Stop!Unset}
           S2 == {h \in R : parts2[h][c].arrival_updated # Stop!Unset}
           Leads(p, h) == \A g \in R \ {h} : Stop!Beats(
             <<p[h][c].last_update, p[h][c].last_observed, h>>,
             <<p[g][c].last_update, p[g][c].last_observed, g>>)
           Sends(p, h) == \A g \in S \ {h} : Stop!Beats(
             <<p[h][c].arrival_updated, p[h][c].last_observed, h>>,
             <<p[g][c].arrival_updated, p[g][c].last_observed, g>>)
           latest == Stop!Latest(parts, c)
<1>0. Stop!HoursOf(parts2, c) = R /\ \A h \in R : parts2[h][c] = parts[h][c]
  OBVIOUS
<1>1. latest = (CHOOSE h \in R : Leads(parts, h))
  BY DEF Stop!Latest, Stop!First
<1>2. Stop!Latest(parts2, c) = (CHOOSE h \in R : Leads(parts2, h))
  BY DEF Stop!Latest, Stop!First
<1>3. S2 = S
  BY <1>0
<1>4. Stop!ArrivalOf(parts, c) =
        IF S = {} THEN Stop!NoEvent
        ELSE parts[CHOOSE h \in S : Sends(parts, h)][c].arrival
  BY DEF Stop!ArrivalOf, Stop!First
<1>5. Stop!ArrivalOf(parts2, c) =
        IF S = {} THEN Stop!NoEvent
        ELSE parts2[CHOOSE h \in S : Sends(parts2, h)][c].arrival
  <2>1. Stop!ArrivalOf(parts2, c) =
          LET sent == S2 IN
          IF sent = {} THEN Stop!NoEvent
          ELSE parts2[CHOOSE h \in sent : \A g \in sent \ {h} : Stop!Beats(
             <<parts2[h][c].arrival_updated, parts2[h][c].last_observed, h>>,
             <<parts2[g][c].arrival_updated, parts2[g][c].last_observed, g>>)
             ][c].arrival
    BY DEF Stop!ArrivalOf, Stop!First
  <2> QED
    BY <1>3, <2>1
<1>6. \A h \in R : Leads(parts2, h) <=> Leads(parts, h)
  BY <1>0
<1>7. S \subseteq R /\ \A h \in S : Sends(parts2, h) <=> Sends(parts, h)
  BY <1>0
<1>10. IsFiniteSet(R) /\ R # {}
  BY StopHours
<1>11. \A h \in R : /\ h \in Nat /\ parts[h][c].last_update \in Int
                    /\ parts[h][c].last_observed \in Int
                    /\ parts[h][c].arrival_updated \in Int
  <2> TAKE h \in R
  <2>1. parts[h][c] \in StopRows /\ h \in Nat
    BY HourSays
  <2> QED
    BY <2>1 DEF StopRows
<1>12. \E h \in R : Leads(parts, h)
  <2> DEFINE x == [h \in R |-> parts[h][c].last_update]
             y == [h \in R |-> parts[h][c].last_observed]
  <2> HIDE DEF R
  <2>1. R \in SUBSET Nat /\ x \in [R -> Int] /\ y \in [R -> Int]
    BY <1>11
  <2>2. \A h \in R : /\ x[h] = parts[h][c].last_update
                     /\ y[h] = parts[h][c].last_observed
    OBVIOUS
  <2> HIDE DEF x, y
  <2>3. \E h \in R : \A g \in R \ {h} :
          Stop!Beats(<<x[h], y[h], h>>, <<x[g], y[g], g>>)
    BY <1>10, <2>1, FirstExists
  <2> QED
    BY <2>2, <2>3
<1>13. S # {} => \E h \in S : Sends(parts, h)
  <2> SUFFICES ASSUME S # {} PROVE \E h \in S : Sends(parts, h)
    OBVIOUS
  <2> DEFINE x == [h \in S |-> parts[h][c].arrival_updated]
             y == [h \in S |-> parts[h][c].last_observed]
  <2>0. IsFiniteSet(S)
    BY <1>10, FS_Subset
  <2> HIDE DEF R
  <2>1. S \in SUBSET Nat /\ x \in [S -> Int] /\ y \in [S -> Int]
    BY <1>11
  <2> HIDE DEF S
  <2>2. \A h \in S : /\ x[h] = parts[h][c].arrival_updated
                     /\ y[h] = parts[h][c].last_observed
    OBVIOUS
  <2> HIDE DEF x, y
  <2>3. \E h \in S : \A g \in S \ {h} :
          Stop!Beats(<<x[h], y[h], h>>, <<x[g], y[g], g>>)
    BY <2>0, <2>1, FirstExists
  <2> QED
    BY <2>2, <2>3
<1> HIDE DEF R, S, S2, Leads, Sends
<1>8. Stop!Latest(parts2, c) = latest
  <2>1. (CHOOSE h \in R : Leads(parts2, h)) = (CHOOSE h \in R : Leads(parts, h))
    BY <1>6, Zenon
  <2> QED
    BY <1>1, <1>2, <2>1
<1>9. (CHOOSE h \in S : Sends(parts2, h)) = (CHOOSE h \in S : Sends(parts, h))
  BY <1>7, Zenon
<1>14. latest \in R
  BY <1>1, <1>12
<1>15. Stop!ArrivalOf(parts2, c) = Stop!ArrivalOf(parts, c)
  <2>1. CASE S = {}
    BY <1>4, <1>5, <2>1
  <2>2. CASE S # {}
    <3>1. (CHOOSE h \in S : Sends(parts, h)) \in R
      BY <1>7, <1>13, <2>2
    <3> QED
      BY <1>0, <1>4, <1>5, <1>9, <2>2, <3>1
  <2> QED
    BY <2>1, <2>2
<1> DEFINE row(p) == p[Stop!Latest(p, c)][c]
<1>16. row(parts2) = row(parts)
  BY <1>0, <1>8, <1>14
<1>17. /\ {parts2[h][c].last_observed : h \in R} = {parts[h][c].last_observed : h \in R}
       /\ {parts2[h][c].arrival_updated : h \in R}
            = {parts[h][c].arrival_updated : h \in R}
       /\ [h \in R |-> parts2[h][c].n_updates] = [h \in R |-> parts[h][c].n_updates]
       /\ (\E h \in R : parts2[h][c].had_vehicle)
            = (\E h \in R : parts[h][c].had_vehicle)
  BY <1>0
<1> DEFINE Obs(p) == {p[h][c].last_observed : h \in R}
<1>18. Stop!LostTracking(parts2, c) = Stop!LostTracking(parts, c)
  <2>1. ASSUME NEW p, Stop!HoursOf(p, c) = R
        PROVE  Stop!LostTracking(p, c) =
                 (/\ row(p).last_update # Stop!Unset
                  /\ Stop!Max(Obs(p)) > row(p).last_update)
    BY <2>1 DEF Stop!LostTracking
  <2>2. Obs(parts2) = Obs(parts)
    BY <1>17
  <2>3. Stop!HoursOf(parts, c) = R
    BY DEF R
  <2> HIDE DEF row, Obs
  <2>4. Stop!LostTracking(parts2, c) =
          (/\ row(parts2).last_update # Stop!Unset
           /\ Stop!Max(Obs(parts2)) > row(parts2).last_update)
    BY <1>0, <2>1
  <2>5. Stop!LostTracking(parts, c) =
          (/\ row(parts).last_update # Stop!Unset
           /\ Stop!Max(Obs(parts)) > row(parts).last_update)
    BY <2>1, <2>3
  <2> QED
    BY <1>16, <2>2, <2>4, <2>5
<1>19. ASSUME NEW p, Stop!HoursOf(p, c) = R
       PROVE  Stop!MergedRow(p, c) =
         [arrival |-> Stop!ArrivalOf(p, c),
          arrival_updated |-> Stop!Max({p[h][c].arrival_updated : h \in R}),
          departure |-> row(p).departure,
          last_update |-> row(p).last_update,
          n_updates |-> Stop!SumFunction([h \in R |-> p[h][c].n_updates]),
          relationship |-> row(p).relationship,
          had_vehicle |-> \E h \in R : p[h][c].had_vehicle,
          lost_tracking |-> Stop!LostTracking(p, c)]
  BY <1>19, Zenon DEF Stop!MergedRow
<1>20. Stop!HoursOf(parts, c) = R
  BY DEF R
<1> HIDE DEF row
<1> QED
  BY <1>0, <1>15, <1>16, <1>17, <1>18, <1>19, <1>20

(* Partials that say the same of every call merge to the same rows.        *)
LEMMA MergedSame ==
  ASSUME NEW H, NEW n, NEW parts, StopDay(H, n, parts), NEW parts2,
         \A c : Stop!HoursOf(parts2, c) = Stop!HoursOf(parts, c),
         \A c : \A h \in Stop!HoursOf(parts, c) : parts2[h][c] = parts[h][c]
  PROVE  Stop!Merged(parts2) = Stop!Merged(parts)
<1>1. \A c : c \in Stop!Joined(parts2) <=> c \in Stop!Joined(parts)
  BY JoinedIs DEF Stop!Merged
<1>2. Stop!Joined(parts2) = Stop!Joined(parts)
  BY <1>1
<1>3. ASSUME NEW c \in Stop!Joined(parts)
      PROVE  Stop!MergedRow(parts2, c) = Stop!MergedRow(parts, c)
  <2>1. c \in DOMAIN Stop!Merged(parts)
    BY DEF Stop!Merged
  <2> QED
    BY <2>1, MergedAgrees
<1> QED
  BY <1>2, <1>3 DEF Stop!Merged

(* So an hour that says nothing of any call is not seen in the day.        *)
LEMMA NothingAdded ==
  ASSUME NEW H, NEW n, NEW parts, StopDay(H, n, parts),
         NEW m, NEW parts2, DOMAIN parts2 = DOMAIN parts \union {m},
         \A h \in DOMAIN parts : parts2[h] = parts[h],
         DOMAIN parts2[m] = {}
  PROVE  Stop!Merged(parts2) = Stop!Merged(parts)
<1>1. \A c : Stop!HoursOf(parts2, c) = Stop!HoursOf(parts, c)
  BY DEF Stop!HoursOf
<1>2. \A c : Stop!HoursOf(parts, c) \subseteq DOMAIN parts
  BY DEF Stop!HoursOf
<1> QED
  BY <1>1, <1>2, MergedSame

LEMMA StopDayIs == IInv => StopDay(heard, hour, StopParts)
BY DayIs

LEMMA NextStopDayIs == IInv' => (StopDay(heard, hour, StopParts))'
BY StopDayIs, PTL

LEMMA StopPartsAre ==
  /\ DOMAIN StopParts = 0..hour
  /\ \A h \in 0..hour : StopParts[h] =
       IF h < hour THEN partial[h].stops ELSE Stop!Finalised(stops)
BY DEF StopParts, Part, Written

LEMMA NextStopPartsAre ==
  /\ DOMAIN StopParts' = 0..hour'
  /\ \A h \in 0..hour' : StopParts'[h] =
       IF h < hour' THEN partial'[h].stops ELSE Stop!Finalised(stops')
BY DEF StopParts, Part, Written

(* Reading what does not concern the stops leaves the day as it was.       *)
LEMMA StillTheDay ==
  ASSUME UNCHANGED <<hour, partial, stops>>
  PROVE  StopFact' = StopFact
<1>1. StopParts' = StopParts
  BY DEF StopParts, Part, Written
<1> QED
  BY <1>1 DEF StopFact

LEMMA EndHourIsStill ==
  ASSUME IInv, EndHour PROVE StopFact' = StopFact
<1>1. /\ hour < Hours
      /\ partial' = [h \in 0..hour |-> IF h = hour THEN Written ELSE partial[h]]
      /\ hour' = hour + 1
      /\ stops' = <<>>
  BY DEF EndHour, WriteHour
<1>2. hour \in Nat
  BY Lengths DEF IInv, ClockIs
<1>3. DOMAIN StopParts' = 0..(hour + 1)
  BY <1>1, NextStopPartsAre
<1>4. DOMAIN StopParts'[hour + 1] = {}
  <2>1. StopParts'[hour + 1] = Stop!Finalised(<<>>)
    BY <1>1, <1>2, NextStopPartsAre
  <2> QED
    BY <2>1 DEF Stop!Finalised
<1>5. ASSUME NEW h \in 0..hour PROVE StopParts'[h] = StopParts[h]
  <2>1. StopParts'[h] = partial'[h].stops
    BY <1>1, <1>2, NextStopPartsAre
  <2>2. CASE h = hour
    <3>1. partial'[h] = Written /\ Written.stops = Stop!Finalised(stops)
      BY <1>1, <2>2 DEF Written
    <3>2. StopParts[h] = Stop!Finalised(stops)
      BY <1>2, <2>2, StopPartsAre
    <3> QED
      BY <2>1, <3>1, <3>2
  <2>3. CASE h # hour
    BY <1>1, <1>2, <2>1, <2>3, StopPartsAre
  <2> QED
    BY <2>2, <2>3
<1>6. StopDay(heard, hour, StopParts)
  BY StopDayIs
<1>7. DOMAIN StopParts = 0..hour /\ 0..(hour + 1) = (0..hour) \union {hour + 1}
  BY <1>2, StopPartsAre
<1>8. Stop!Merged(StopParts') = Stop!Merged(StopParts)
  BY <1>3, <1>4, <1>5, <1>6, <1>7, NothingAdded
<1> QED
  BY <1>8 DEF StopFact

(* An update that no reducer keeps leaves the day as it was.               *)
LEMMA DayAheadIsStill ==
  ASSUME NEW update \in Updates, ReadUpdate(update),
         Stop!DatedADayAhead(update)
  PROVE  StopFact' = StopFact
<1>1. UNCHANGED <<hour, partial, stops>>
  BY DEF ReadUpdate, Stop!AbsorbTrip
<1> QED
  BY <1>1, StillTheDay

(* What reading an update does to the log and to the partials.             *)
LEMMA ReadUpdateIs ==
  ASSUME IInv, NEW update \in Updates, ReadUpdate(update)
  PROVE  /\ hour \in Nat /\ at \in Nat
         /\ hour' = hour
         /\ StopTableIs(stops, heard, HourOf(heard, hour))
         /\ Heard(heard, heard', Len(heard) + 1, update, at)
         /\ Absorbed(hour, StopParts, StopParts', stops, update, at)
<1> DEFINE e == [at |-> at, update |-> update]
           n == Len(heard) + 1
<1>1. /\ hour < Hours
      /\ stops' = Stop!AbsorbTrip(stops, update, at)
      /\ heard' = Append(heard, e)
      /\ hour' = hour /\ partial' = partial
  BY DEF ReadUpdate
<1>2. ClockIs /\ LogsAre /\ ReducersAre
  BY DEF IInv
<1>3. /\ hour \in Nat /\ at \in Nat /\ at \in Times /\ at \div HourLength = hour
  BY <1>1, <1>2 DEF ClockIs, Times
<1>4. e \in Hearings /\ e.at = at /\ e.update = update
  BY <1>3 DEF Hearings
<1>5. LogOf(heard, Hearings, hour) /\ \A i \in DOMAIN heard : heard[i].at <= at
  BY <1>2 DEF LogsAre
<1> HIDE DEF e
<1>6. /\ LogOf(heard', Hearings, hour)
      /\ \A i \in DOMAIN heard : heard'[i] = heard[i] /\ i <= Len(heard)
      /\ heard'[n] = e
      /\ Len(heard') = n
  BY <1>1, <1>3, <1>4, <1>5, HourGrows
<1>7. /\ DOMAIN heard = 1..Len(heard) /\ Len(heard) \in Nat
      /\ DOMAIN heard' = 1..n
  BY <1>3, <1>5, <1>6, HoursAre
<1>8. Heard(heard, heard', n, update, at)
  <2>1. /\ DOMAIN heard' = DOMAIN heard \union {n}
        /\ n \notin DOMAIN heard
        /\ \A i \in DOMAIN heard : i < n
    BY <1>7
  <2> QED
    BY <1>4, <1>6, <2>1 DEF Heard
<1>9. Absorbed(hour, StopParts, StopParts', stops, update, at)
  <2>1. \A h \in 0..hour : h # hour => StopParts'[h] = StopParts[h]
    BY <1>1, <1>3, StopPartsAre, NextStopPartsAre
  <2>2. StopParts[hour] = Stop!Finalised(stops)
    BY <1>3, StopPartsAre
  <2>3. StopParts'[hour] = Stop!Finalised(stops')
    BY <1>1, <1>3, NextStopPartsAre
  <2> QED
    BY <1>1, <2>1, <2>2, <2>3 DEF Absorbed
<1>10. StopTableIs(stops, heard, HourOf(heard, hour))
  BY <1>2 DEF ReducersAre
<1> QED
  BY <1>1, <1>3, <1>8, <1>9, <1>10

(* The stops it does not name are as they were.                            *)
LEMMA OthersAgree ==
  ASSUME NEW H, NEW n, NEW parts, NEW parts2, StopDay(H, n, parts),
         NEW K, StopDay(K, n, parts2),
         NEW table, NEW u, NEW t, Absorbed(n, parts, parts2, table, u, t),
         NEW c, c \notin DOMAIN u.stops
  PROVE  /\ Stop!HoursOf(parts2, c) = Stop!HoursOf(parts, c)
         /\ \A h \in Stop!HoursOf(parts, c) : parts2[h][c] = parts[h][c]
<1> DEFINE table2 == Stop!AbsorbTrip(table, u, t)
<1>1. DOMAIN parts = 0..n /\ DOMAIN parts2 = 0..n
  BY DEF StopDay
<1>2. /\ c \in DOMAIN table2 <=> c \in DOMAIN table
      /\ c \in DOMAIN table => table2[c] = table[c]
  <2>1. CASE Stop!DatedADayAhead(u)
    BY <2>1 DEF Stop!AbsorbTrip
  <2>2. CASE ~Stop!DatedADayAhead(u)
    BY <2>2 DEF Stop!AbsorbTrip
  <2> QED
    BY <2>1, <2>2
<1> HIDE DEF table2
<1>3. /\ c \in DOMAIN parts2[n] <=> c \in DOMAIN parts[n]
      /\ c \in DOMAIN parts[n] => parts2[n][c] = parts[n][c]
  <2>1. parts[n] = Stop!Finalised(table) /\ parts2[n] = Stop!Finalised(table2)
    BY DEF Absorbed, table2
  <2> QED
    BY <1>2, <2>1 DEF Stop!Finalised
<1>4. \A h \in 0..n : h # n => parts2[h] = parts[h]
  BY DEF Absorbed
<1> QED
  BY <1>1, <1>3, <1>4 DEF Stop!HoursOf

(* What an update does to the day's rows, from F to F2.                    *)
TellsDay(u, F, F2) ==
  LET calls == {c \in DOMAIN u.stops : c.sequence # Stop!Unset} IN
  /\ calls \subseteq Calls
  /\ DOMAIN F2 = DOMAIN F \union calls
  /\ \A c \in calls : \E o \in Observations :
       F2[c] = Day!Told(IF c \in DOMAIN F THEN F[c] ELSE Day!Untold, o)
  /\ \A c \in DOMAIN F \ calls : F2[c] = F[c]

(* An update tells the day of the stops it names that have a sequence.     *)
LEMMA UpdateReports ==
  ASSUME NEW H, NEW K, NEW n, NEW parts, NEW parts2,
         StopDay(H, n, parts), StopDay(K, n, parts2),
         NEW l, NEW u \in Updates, NEW t \in Times, t \in Nat,
         Heard(H, K, l, u, t),
         NEW table, StopTableIs(table, H, HourOf(H, n)),
         Absorbed(n, parts, parts2, table, u, t),
         ~Stop!DatedADayAhead(u), \A c \in Calls : InTurn(K, DOMAIN K, c)
  PROVE  TellsDay(u, Stop!Merged(parts), Stop!Merged(parts2))
<1> DEFINE F == Stop!Merged(parts)
           F2 == Stop!Merged(parts2)
           calls == {c \in DOMAIN u.stops : c.sequence # Stop!Unset}
<1>1. DOMAIN u.stops \subseteq Calls
  BY ReductionsAssumption DEF ReductionsAssumption
<1>2. \A c \in calls : /\ c \in DOMAIN u.stops /\ c.sequence # Stop!Unset
                       /\ InTurn(K, DOMAIN K, c)
  BY <1>1
<1>3. ASSUME NEW c \in calls
      PROVE  /\ c \in DOMAIN F2
             /\ F2[c] = Day!Told(IF c \in DOMAIN F THEN F[c] ELSE Day!Untold,
                                 Stop!Observation(u, c, t))
  BY <1>2, UpdateTellsDay
<1>4. ASSUME NEW c, c \notin calls
      PROVE  /\ c \in DOMAIN F2 <=> c \in DOMAIN F
             /\ c \in DOMAIN F => F2[c] = F[c]
  <2>1. CASE c.sequence = Stop!Unset
    BY <2>1, JoinedIs
  <2>2. CASE c.sequence # Stop!Unset
    <3>1. c \notin DOMAIN u.stops
      BY <1>4, <2>2
    <3>2. /\ Stop!HoursOf(parts2, c) = Stop!HoursOf(parts, c)
          /\ \A h \in Stop!HoursOf(parts, c) : parts2[h][c] = parts[h][c]
      BY <3>1, OthersAgree
    <3>3. c \in DOMAIN F2 <=> c \in DOMAIN F
      BY <3>2, JoinedIs
    <3>4. ASSUME c \in DOMAIN F PROVE F2[c] = F[c]
      <4>1. Stop!MergedRow(parts2, c) = Stop!MergedRow(parts, c)
        BY <3>2, <3>4, MergedAgrees
      <4>2. c \in DOMAIN F2
        BY <3>3, <3>4
      <4> QED
        BY <3>4, <4>1, <4>2 DEF Stop!Merged
    <3> QED
      BY <3>3, <3>4
  <2> QED
    BY <2>1, <2>2
<1>5. \A c \in calls : Stop!Observation(u, c, t) \in Observations
  BY DEF Observations
<1> HIDE DEF F, F2, calls
<1>6. DOMAIN F2 = DOMAIN F \union calls
  BY <1>3, <1>4
<1>7. ASSUME NEW c \in calls
      PROVE  \E o \in Observations :
               F2[c] = Day!Told(IF c \in DOMAIN F THEN F[c] ELSE Day!Untold, o)
  BY <1>3, <1>5
<1>8. \A c \in DOMAIN F \ calls : F2[c] = F[c]
  BY <1>4
<1>9. calls \subseteq Calls
  BY <1>1 DEF calls
<1> QED
  <2>1. TellsDay(u, F, F2)
    BY <1>6, <1>7, <1>8, <1>9 DEF TellsDay, calls
  <2> QED
    BY <2>1 DEF F, F2

LEMMA ReadUpdateReports ==
  ASSUME IInv, IInv', NEW update \in Updates, ReadUpdate(update),
         ~Stop!DatedADayAhead(update), InOrder
  PROVE  Day!Next
<1> DEFINE calls == {c \in DOMAIN update.stops : c.sequence # Stop!Unset}
<1>1. /\ hour \in Nat /\ at \in Nat
      /\ hour' = hour
      /\ StopTableIs(stops, heard, HourOf(heard, hour))
      /\ Heard(heard, heard', Len(heard) + 1, update, at)
      /\ Absorbed(hour, StopParts, StopParts', stops, update, at)
  BY ReadUpdateIs
<1>2. at \in Times
  BY DEF IInv, ClockIs
<1>3. StopDay(heard, hour, StopParts) /\ StopDay(heard', hour, StopParts')
  BY <1>1, StopDayIs, NextStopDayIs
<1>4. \A c \in Calls : InTurn(heard', DOMAIN heard', c)
  <2> SUFFICES ASSUME NEW c \in Calls PROVE InTurn(heard', DOMAIN heard', c)
    OBVIOUS
  <2>1. Saying(c)' = SayingIn(heard', DOMAIN heard', c)
    BY DEF Saying, SayingIn
  <2>2. \A i : Said(i, c)' = SaidBy(heard', i, c)
    BY DEF Said, SaidBy
  <2> QED
    BY <2>1, <2>2 DEF InOrder, InTurn
<1>5. TellsDay(update, Stop!Merged(StopParts), Stop!Merged(StopParts'))
  <2>1. PICK l : Heard(heard, heard', l, update, at)
    BY <1>1
  <2> QED
    BY <1>1, <1>2, <1>3, <1>4, <2>1, UpdateReports
<1>6. TellsDay(update, StopFact, StopFact')
  BY <1>5 DEF StopFact
<1>7. Day!Report(calls) /\ calls \subseteq Calls
  BY <1>6 DEF TellsDay, Day!Report, Day!Before
<1> QED
  BY <1>7 DEF Day!Next

(* When no stop's observations go back in time, cutting the day into       *)
(* hours, ending each with rows of its own and merging them by rank gives  *)
(* what one pass over the day would: every step of the reduction is a      *)
(* report to the day of the stops an update names, or is not seen in it    *)
(* (TripStopReducer; trip_stop_merge's docstring).                         *)
THEOREM RowsAreThoseOfOnePass == InOrderSpec => ImplementsDay
<1>1. Init => Day!Init
  <2> SUFFICES ASSUME Init PROVE StopFact = <<>>
    BY DEF Day!Init
  <2>1. StopParts = [h \in 0..0 |-> Stop!Finalised(<<>>)]
    BY DEF Init, StopParts, Part, Written
  <2>2. \A h \in 0..0 : StopParts[h] = <<>>
    BY <2>1 DEF Stop!Finalised
  <2>3. Stop!Joined(StopParts) = {}
    BY <2>1, <2>2 DEF Stop!Joined
  <2> QED
    BY <2>3 DEF StopFact, Stop!Merged
<1>2. IInv /\ IInv' /\ [Next /\ InOrder]_vars => [Day!Next]_StopFact
  <2> SUFFICES ASSUME IInv, IInv', [Next /\ InOrder]_vars
               PROVE  Day!Next \/ StopFact' = StopFact
    OBVIOUS
  <2>1. CASE (\E update \in Updates : ReadUpdate(update)) /\ InOrder
    <3>1. PICK update \in Updates : ReadUpdate(update)
      BY <2>1
    <3>2. CASE Stop!DatedADayAhead(update)
      BY <3>1, <3>2, DayAheadIsStill
    <3>3. CASE ~Stop!DatedADayAhead(update)
      BY <2>1, <3>1, <3>3, ReadUpdateReports
    <3> QED
      BY <3>2, <3>3
  <2>2. CASE \E sample \in Samples : ReadSample(sample)
    BY <2>2, StillTheDay DEF ReadSample
  <2>3. CASE NextPoll
    BY <2>3, StillTheDay DEF NextPoll
  <2>4. CASE EndHour
    BY <2>4, EndHourIsStill
  <2>5. CASE Rest \/ UNCHANGED vars
    BY <2>5, StillTheDay DEF Rest, vars
  <2> QED
    BY <2>1, <2>2, <2>3, <2>4, <2>5 DEF Next
<1>3. InOrderSpec => Spec
  <2>1. [Next /\ InOrder]_vars => [Next]_vars
    OBVIOUS
  <2> QED
    BY <2>1, PTL DEF InOrderSpec, Spec
<1> QED
  BY <1>1, <1>2, <1>3, Invariant, PTL
    DEF InOrderSpec, ImplementsDay, Day!Spec
=============================================================================
