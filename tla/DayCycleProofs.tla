--------------------------- MODULE DayCycleProofs ---------------------------
(***************************************************************************)
(* What the arithmetic of service_day.py guarantees on every date and for  *)
(* every change of the clocks; then DayCycle's invariants, for every set   *)
(* of days, trips and changes, and however many jobs fail.                 *)
(***************************************************************************)
EXTENDS DayCycle, TLAPS

(* A date holds the hours from its midnight to the next.                   *)
LEMMA DateIs ==
  ASSUME NEW u \in Int, NEW d \in Int
  PROVE  /\ DateOf(u) \in Int
         /\ DateOf(u) = d <=> 24 * d <= u /\ u < 24 * (d + 1)
BY DEF DateOf

(* What the other proofs use of a zone.                                    *)
LEMMA ZoneFields ==
  ASSUME NEW z \in Zones
  PROVE  /\ z.before \in {10, 11} /\ z.after \in {10, 11}
         /\ z.shift \in Int
         /\ \E k \in Int : z.shift = 24 * k + 16
<1>1. /\ z.before \in {10, 11} /\ z.after \in {10, 11} /\ z.shift \in Int
      /\ z.shift % 24 = 16
  BY DEF Zones
<1>2. z.shift = 24 * (z.shift \div 24) + 16
  BY <1>1
<1> QED BY <1>1, <1>2

(* Every UTC hour belongs to exactly one Sydney day: the calendar date of  *)
(* service_date_for is the day whose bounds, in sydney_day_bounds and in   *)
(* the audit query, hold the hour.                                         *)
THEOREM DaysTile ==
  ASSUME NEW z \in Zones, NEW u \in Int, NEW d \in Int
  PROVE  /\ ServiceDateFor(z, u) \in Int
         /\ ServiceDateFor(z, u) = d <=> InDay(z, d, u)
<1>1. PICK k \in Int : z.shift = 24 * k + 16
  BY ZoneFields
<1>2. z.before \in {10, 11} /\ z.after \in {10, 11}
  BY ZoneFields
<1>3. Wall(z, u) \in Int
  BY <1>1, <1>2 DEF Wall
<1>4. /\ ServiceDateFor(z, u) \in Int
      /\ ServiceDateFor(z, u) = d <=> 24 * d <= Wall(z, u) /\ Wall(z, u) < 24 * (d + 1)
  BY <1>3, DateIs DEF ServiceDateFor
<1> QED BY <1>1, <1>2, <1>4 DEF Wall, InDay, Midnight, Instant, Later

(* The instants the definitions yield are whole hours.                     *)
LEMMA InstantsAreHours ==
  ASSUME NEW z \in Zones, NEW w \in Int
  PROVE  Instant(z, w) \in Int /\ Wall(z, w) \in Int
BY ZoneFields DEF Instant, Wall, Later

(* The partitions a day is expected to fill are the hours of the day.      *)
LEMMA PartitionsAreTheDay ==
  ASSUME NEW z \in Zones, NEW d \in Int, NEW u \in Int
  PROVE  u \in ExpectedHourPartitions(z, d) <=> InDay(z, d, u)
<1>1. Midnight(z, d) \in Int /\ Midnight(z, d + 1) \in Int
  BY InstantsAreHours DEF Midnight
<1> QED BY <1>1 DEF ExpectedHourPartitions, HoursInDay, InDay

(* A day's midnights, to within the offset.                                *)
LEMMA MidnightsNear ==
  ASSUME NEW z \in Zones, NEW d \in Int
  PROVE  /\ Midnight(z, d) \in Int /\ Midnight(z, d + 1) \in Int
         /\ 24 * d - 11 <= Midnight(z, d)
         /\ Midnight(z, d + 1) <= 24 * d + 14
BY ZoneFields DEF Midnight, Instant, Later

(* The two UTC dates the audit query is given hold every row of the day,   *)
(* though a row may be filed an hour to either side of its fetch.          *)
THEOREM GlobsHoldTheDay ==
  ASSUME NEW z \in Zones, NEW d \in Int, NEW f \in Int, NEW u \in Int,
         f - u \in {-1, 0, 1}, InDay(z, d, u)
  PROVE  DateOf(f) \in SourceDayGlobs(d)
<1> f <= u + 1 /\ u <= f + 1
  OBVIOUS
<1>0. /\ Midnight(z, d) \in Int /\ Midnight(z, d + 1) \in Int
      /\ 24 * d - 11 <= Midnight(z, d)
      /\ Midnight(z, d + 1) <= 24 * d + 14
  BY MidnightsNear
<1>1. 24 * (d - 1) <= f /\ f < 24 * (d + 1)
  BY <1>0 DEF InDay
<1>2. CASE f < 24 * d
  BY <1>1, <1>2, DateIs DEF SourceDayGlobs
<1>3. CASE f >= 24 * d
  BY <1>1, <1>3, DateIs DEF SourceDayGlobs
<1> QED BY <1>2, <1>3

(* The three UTC dates the checker reads hold every record that was begun  *)
(* within a day of an hour of the Sydney day, or in the day after it.      *)
THEOREM GlobsHoldTheRecords ==
  ASSUME NEW z \in Zones, NEW d \in Int, NEW t \in Int,
         Midnight(z, d) <= t, t < Midnight(z, d + 1) + 24
  PROVE  DateOf(t) \in DayGlobs(d)
<1>0. /\ Midnight(z, d) \in Int /\ Midnight(z, d + 1) \in Int
      /\ 24 * d - 11 <= Midnight(z, d)
      /\ Midnight(z, d + 1) <= 24 * d + 14
  BY MidnightsNear
<1>1. 24 * (d - 1) <= t /\ t < 24 * (d + 2)
  BY <1>0
<1>2. CASE t < 24 * d
  BY <1>1, <1>2, DateIs DEF DayGlobs
<1>3. CASE 24 * d <= t /\ t < 24 * (d + 1)
  BY <1>3, DateIs DEF DayGlobs
<1>4. CASE 24 * (d + 1) <= t
  BY <1>1, <1>4, DateIs DEF DayGlobs
<1> QED BY <1>2, <1>3, <1>4

(* A merge window is 31, 32 or 33 hours long, and holds its whole day.     *)
THEOREM WindowLength ==
  ASSUME NEW z \in Zones, NEW d \in Int
  PROVE  /\ Opens(z, d) \in Int /\ Closes(z, d) \in Int
         /\ Closes(z, d) - Opens(z, d) \in 31..33
         /\ Opens(z, d) < Midnight(z, d)
         /\ Midnight(z, d + 1) + 5 < Closes(z, d)
<1>1. PICK k \in Int : z.shift = 24 * k + 16
  BY ZoneFields
<1>2. z.before \in {10, 11} /\ z.after \in {10, 11}
  BY ZoneFields
<1> QED BY <1>1, <1>2 DEF Opens, Closes, Midnight, Instant, Later, Lead, Trail

(* A trip first timetabled at up to hour 30 of a date, and that rides for  *)
(* at most three hours and not past hour 30, is in the window of its date  *)
(* from its departure to its end; and in the window of the next date, if   *)
(* it departs after midnight.                                              *)
THEOREM WindowHoldsTheTrip ==
  ASSUME NEW z \in Zones, NEW d \in Int,
         NEW first \in 0..30, NEW ride \in 0..3, first + ride <= 30,
         NEW h \in ScheduledInstant(z, d, first)..(ScheduledInstant(z, d, first) + ride)
  PROVE  /\ h \in ExpectedHours(z, d)
         /\ first >= 24 => h \in ExpectedHours(z, d + 1)
<1>1. PICK k \in Int : z.shift = 24 * k + 16
  BY ZoneFields
<1>2. z.before \in {10, 11} /\ z.after \in {10, 11}
  BY ZoneFields
<1>3. /\ Opens(z, d) <= h /\ h < Closes(z, d)
      /\ first >= 24 => Opens(z, d + 1) <= h /\ h < Closes(z, d + 1)
  BY <1>1, <1>2
  DEF Opens, Closes, ScheduledInstant, Instant, Later, Lead, Trail
<1>4. h \in Int
  BY <1>1, <1>2 DEF ScheduledInstant, Instant, Later
<1> QED BY <1>3, <1>4, WindowLength DEF ExpectedHours

(* The partitions a merge lists hold its whole window.                     *)
LEMMA WindowInBounds ==
  ASSUME NEW z \in Zones, NEW d \in Int, NEW h \in ExpectedHours(z, d)
  PROVE  DateOf(h) \in PartitionBounds(z, d)
<1>1. /\ Opens(z, d) \in Int /\ Closes(z, d) \in Int
      /\ h \in Int /\ Opens(z, d) <= h /\ h < Closes(z, d)
  BY WindowLength DEF ExpectedHours
<1>2. /\ DateOf(Opens(z, d) - 24) <= DateOf(h)
      /\ DateOf(h) <= DateOf(Closes(z, d) + 24)
  BY <1>1 DEF DateOf
<1> QED BY <1>1, <1>2, DateIs DEF PartitionBounds

(* At 08:00 the window of the day before has closed for an hour.           *)
LEMMA ClosedByEight ==
  ASSUME NEW z \in Zones, NEW u \in Int, Wall(z, u) % 24 = 8
  PROVE  /\ Yesterday(z, u) \in Int
         /\ Closes(z, Yesterday(z, u)) < u
<1> DEFINE d == Yesterday(z, u)
<1>1. PICK k \in Int : z.shift = 24 * k + 16
  BY ZoneFields
<1>2. z.before \in {10, 11} /\ z.after \in {10, 11}
  BY ZoneFields
<1>3. d \in Int /\ Wall(z, u) = 24 * (d + 1) + 8
  BY InstantsAreHours DEF Yesterday, ServiceDateFor, DateOf
<1> HIDE DEF d
<1>4. Closes(z, d) < u
  BY <1>1, <1>2, <1>3 DEF Closes, Wall, Instant, Later, Trail
<1> QED BY <1>3, <1>4 DEF d

(* Windows close in the order of their days.                               *)
LEMMA ClosesInOrder ==
  ASSUME NEW z \in Zones, NEW d \in Int, NEW e \in Int, d <= e
  PROVE  Closes(z, d) <= Closes(z, e)
BY ZoneFields DEF Closes, Instant, Later, Trail

(* last_complete_day finds a day, and every day up to it has closed.       *)
THEOREM LastCompleteIsClosed ==
  ASSUME NEW z \in Zones, NEW u \in Int,
         NEW d \in Int, d <= LastCompleteDay(z, u)
  PROVE  Closes(z, d) <= u
<1> DEFINE today == ServiceDateFor(z, u)
           Good(e) == /\ Closes(z, e) <= u
                      /\ \A later \in (e + 1)..today : Closes(z, later) > u
<1>1. today \in Int /\ InDay(z, today, u)
  BY DaysTile
<1>2. Closes(z, today - 2) <= u
  BY <1>1, ZoneFields DEF InDay, Midnight, Closes, Instant, Later, Trail
<1>3. \E e \in (today - 3)..today : Good(e)
  <2>1. CASE Closes(z, today) <= u
    BY <2>1, <1>1
  <2>2. CASE Closes(z, today) > u /\ Closes(z, today - 1) <= u
    BY <2>2, <1>1
  <2>3. CASE Closes(z, today) > u /\ Closes(z, today - 1) > u
    BY <2>3, <1>1, <1>2
  <2> QED BY <2>1, <2>2, <2>3, <1>1, WindowLength
<1>4. LastCompleteDay(z, u) = CHOOSE e \in (today - 3)..today : Good(e)
  BY DEF LastCompleteDay
<1> HIDE DEF today
<1>5. LastCompleteDay(z, u) \in Int /\ Closes(z, LastCompleteDay(z, u)) <= u
  BY <1>1, <1>3, <1>4
<1> QED BY <1>5, ClosesInOrder, WindowLength

-----------------------------------------------------------------------------
(* The jobs of the day's cycle.                                            *)
USE DEF Hours

(* Jobs fall due at their hour, and nothing is on record before its time.  *)
InOrder ==
  /\ "merger" \in due => Wall(zone, now) % 24 = 8
  /\ \A h \in Hours : \A t \in ran[h] : h < t /\ t <= now
  /\ \A d \in Days : \A t \in merges[d] : Closes(zone, d) <= t

(* A merged day holds all its rows and no other.                           *)
DayRows(d) ==
  {r \in Rows : DateOf(r[1]) \in SourceDayGlobs(d) /\ InDay(zone, d, r[2])}
PolledWhole == \A d \in Days : polled[d] # NotMerged => polled[d] = DayRows(d)

(* Trip rows are filed by the trip's date.                                 *)
FiledByDate ==
  \A d \in Days : \A x \in fact[d] :
    x # <<>> => x \in Trips \X Hours /\ DateOfTrip(x[1]) = d

(* A merge that found its window short shows an hour that was late.        *)
ShortIsLate ==
  \A d \in Days :
    merges[d] # {} /\ ~whole[d] =>
      \E h \in ExpectedHours(zone, d) \intersect Hours :
        h + 1 < now /\ h + 1 \notin ran[h]

IInv ==
  /\ TypeOK /\ zone \in Changes
  /\ InOrder
  /\ PolledWhole
  /\ FiledByDate
  /\ WholeWhenCovered
  /\ ShortIsLate

-----------------------------------------------------------------------------
(* What a merge of a day whose window has closed leaves behind.            *)

LEMMA RowsAreRows ==
  ASSUME DayCycleAssumption, NEW r \in Rows
  PROVE  r[1] \in Int /\ r[2] \in Int /\ r[1] - r[2] \in {-1, 0, 1}
BY DEF DayCycleAssumption, Rows

(* A closed day's rows are all on disk.                                    *)
LEMMA ClosedDayIsOnDisk ==
  ASSUME DayCycleAssumption, TypeOK, NEW d \in Days, Closes(zone, d) <= now
  PROVE  CollectorRun(d) = DayRows(d)
<1>1. zone \in Zones /\ d \in Int /\ now \in Int
  BY DEF TypeOK, DayCycleAssumption
<1>2. /\ Midnight(zone, d + 1) \in Int /\ Closes(zone, d) \in Int
      /\ Midnight(zone, d + 1) + 5 < Closes(zone, d)
  BY <1>1, WindowLength, MidnightsNear
<1>3. ASSUME NEW r \in Rows, InDay(zone, d, r[2])
      PROVE  OnDisk(r)
  <2>1. /\ r[1] \in Int /\ r[2] \in Int /\ r[1] <= r[2] + 1
    BY RowsAreRows
  <2> QED BY <1>1, <1>2, <1>3, <2>1 DEF InDay, OnDisk
<1> QED BY <1>3 DEF CollectorRun, DayRows

(* A trip dated d is in the window of day d while it is served.            *)
LEMMA ServedInWindow ==
  ASSUME DayCycleAssumption, TypeOK, NEW t \in Trips
  PROVE  /\ DateOfTrip(t) \in Int
         /\ Label(t) \in Labels(DateOfTrip(t))
         /\ Served(t) \subseteq ExpectedHours(zone, DateOfTrip(t))
         /\ Served(t) \subseteq Listed(t)
<1>1. /\ zone \in Zones /\ t.day \in Int /\ t.first \in 0..30 /\ t.ride \in 0..3
      /\ t.first + t.ride <= 30 /\ Ahead \in Nat
  BY DEF TypeOK, DayCycleAssumption
<1>2. Departs(t) \in Int
  <2>1. 24 * t.day + t.first \in Int
    BY <1>1
  <2> QED BY <1>1, <2>1, InstantsAreHours DEF Departs, ScheduledInstant
<1>3. /\ DateOfTrip(t) \in Int
      /\ Label(t) \in Labels(DateOfTrip(t))
      /\ \/ DateOfTrip(t) = t.day
         \/ DateOfTrip(t) = t.day + 1 /\ t.first >= 24
  BY <1>1 DEF DateOfTrip, DerivedDate, Label, Labels
<1>4. ASSUME NEW h \in Served(t)
      PROVE  h \in ExpectedHours(zone, DateOfTrip(t))
  <2>1. h \in ScheduledInstant(zone, t.day, t.first)..
                (ScheduledInstant(zone, t.day, t.first) + t.ride)
    BY <1>4 DEF Served, Departs
  <2>2. /\ h \in ExpectedHours(zone, t.day)
        /\ t.first >= 24 => h \in ExpectedHours(zone, t.day + 1)
    BY <1>1, <2>1, WindowHoldsTheTrip
  <2> QED BY <1>3, <2>2
<1>5. Served(t) \subseteq Listed(t)
  BY <1>1, <1>2 DEF Served, Listed
<1> QED BY <1>3, <1>4, <1>5

(* Assembling a closed day keeps what is known of the facts.               *)
LEMMA AssembleKeeps ==
  ASSUME DayCycleAssumption, IInv, NEW d, NEW partials, partials \subseteq Hours,
         Assemble(d, partials), Closes(zone, d) <= now,
         zone' = zone, known' = known
  PROVE  /\ fact' \in [Days -> (SUBSET (Trips \X Hours)) \union {NotMerged}]
         /\ polled' \in [Days -> (SUBSET Rows) \union {NotMerged}]
         /\ merges' \in [Days -> SUBSET Hours]
         /\ whole' \in [Days -> BOOLEAN]
         /\ \A e \in Days : \A t \in merges'[e] : Closes(zone, e) <= t
         /\ PolledWhole' /\ FiledByDate' /\ WholeWhenCovered'
<1>1. /\ d \in Days
      /\ polled' = [polled EXCEPT ![d] = CollectorRun(d)]
      /\ fact' = [fact EXCEPT ![d] = TripRows(d, partials)]
      /\ whole' = [whole EXCEPT ![d] = ExpectedHours(zone, d) \subseteq partials]
      /\ merges' = [merges EXCEPT ![d] = @ \union {now}]
  BY DEF Assemble
<1>2. /\ TypeOK /\ now \in Hours /\ d \in Int /\ zone \in Zones
      /\ merges \in [Days -> SUBSET Hours] /\ whole \in [Days -> BOOLEAN]
  BY <1>1 DEF IInv, TypeOK, DayCycleAssumption
<1>3. CollectorRun(d) = DayRows(d)
  BY <1>1, <1>2, ClosedDayIsOnDisk
<1>4. \A x \in TripRows(d, partials) :
        x \in Trips \X Hours /\ DateOfTrip(x[1]) = d
  BY DEF TripRows
<1>5. fact' \in [Days -> (SUBSET (Trips \X Hours)) \union {NotMerged}]
  BY <1>1, <1>2, <1>4 DEF TypeOK
<1>6. polled' \in [Days -> (SUBSET Rows) \union {NotMerged}]
  BY <1>1, <1>2 DEF TypeOK, CollectorRun
<1>7. merges' \in [Days -> SUBSET Hours] /\ whole' \in [Days -> BOOLEAN]
  BY <1>1, <1>2
<1>8. ASSUME NEW e \in Days, NEW t \in merges'[e]
      PROVE  Closes(zone, e) <= t
  <2>1. CASE e = d /\ t = now
    BY <2>1
  <2>2. CASE t \in merges[e]
    BY <2>2 DEF IInv, InOrder
  <2> QED BY <1>1, <1>2, <2>1, <2>2
<1>9. PolledWhole'
  <2>1. \A e : DayRows(e)' = DayRows(e)
    BY DEF DayRows
  <2>2. ASSUME NEW e \in Days, polled'[e] # NotMerged
        PROVE  polled'[e] = DayRows(e)
    BY <1>1, <1>2, <1>3, <2>2 DEF IInv, PolledWhole, TypeOK
  <2> QED BY <2>1, <2>2 DEF PolledWhole
<1>10. \A t \in Trips : /\ DateOfTrip(t)' = DateOfTrip(t)
                        /\ Served(t)' = Served(t)
  BY DEF DateOfTrip, Served, Departs
<1>11. FiledByDate'
  <2>1. ASSUME NEW e \in Days, NEW x \in fact'[e], x # <<>>
        PROVE  x \in Trips \X Hours /\ DateOfTrip(x[1]) = e
    <3>1. CASE e = d
      BY <1>1, <1>2, <1>4, <2>1, <3>1 DEF TypeOK
    <3>2. CASE e # d
      BY <1>1, <1>2, <2>1, <3>2 DEF IInv, FiledByDate, TypeOK
    <3> QED BY <3>1, <3>2
  <2>2. \A x \in Trips \X Hours : DateOfTrip(x[1])' = DateOfTrip(x[1])
    BY <1>10
  <2> QED BY <2>1, <2>2 DEF FiledByDate
<1>12. WholeWhenCovered'
  <2>1. ASSUME NEW e \in Days, NEW t \in Trips, whole'[e], DateOfTrip(t) = e
        PROVE  {t} \X Served(t) \subseteq fact'[e]
    <3>1. CASE e # d
      BY <1>1, <1>2, <2>1, <3>1 DEF IInv, WholeWhenCovered, TypeOK
    <3>2. CASE e = d
      <4>1. ExpectedHours(zone, d) \subseteq partials
        BY <1>1, <1>2, <2>1, <3>2
      <4>2. /\ Label(t) \in Labels(d)
            /\ Served(t) \subseteq ExpectedHours(zone, d)
            /\ Served(t) \subseteq Listed(t)
        BY <1>2, <2>1, <3>2, ServedInWindow
      <4>3. ASSUME NEW h \in Served(t)
            PROVE  <<t, h>> \in TripRows(d, partials)
        <5>1. h \in partials /\ DateOf(h) \in PartitionBounds(zone, d)
          BY <1>2, <4>1, <4>2, WindowInBounds
        <5> QED BY <2>1, <3>2, <4>2, <5>1 DEF TripRows
      <4>4. fact'[d] = TripRows(d, partials)
        BY <1>1, <1>2 DEF TypeOK
      <4> QED BY <3>2, <4>3, <4>4
    <3> QED BY <3>1, <3>2
  <2> QED BY <1>10, <2>1 DEF WholeWhenCovered
<1> QED BY <1>5, <1>6, <1>7, <1>8, <1>9, <1>11, <1>12

-----------------------------------------------------------------------------
(* The invariant is inductive.                                             *)

LEMMA InitHolds ==
  ASSUME DayCycleAssumption, Init
  PROVE  IInv
<1>1. TypeOK /\ zone \in Changes
  BY DEF DayCycleAssumption, Init, TypeOK
<1>2. InOrder /\ PolledWhole /\ WholeWhenCovered /\ ShortIsLate
  BY DEF Init, InOrder, PolledWhole, WholeWhenCovered, ShortIsLate
<1>3. FiledByDate
  BY DEF Init, FiledByDate, NotMerged
<1> QED BY <1>1, <1>2, <1>3 DEF IInv

(* The step leaves the facts alone, and puts no record before its time.    *)
LEMMA FactsKept ==
  ASSUME DayCycleAssumption, IInv, TypeOK', InOrder',
         zone' = zone, known' = known, merges' = merges, whole' = whole,
         fact' = fact, polled' = polled, now <= now',
         \A h \in Hours : \A t \in ran'[h] : t \in ran[h] \/ t >= now
  PROVE  IInv'
<1>1. PolledWhole'
  BY DEF IInv, PolledWhole, DayRows
<1>2. FiledByDate'
  BY DEF IInv, FiledByDate, DateOfTrip
<1>3. WholeWhenCovered'
  BY DEF IInv, WholeWhenCovered, DateOfTrip, Served, Departs
<1>4. ShortIsLate'
  <2>1. ASSUME NEW d \in Days, merges[d] # {}, ~whole[d]
        PROVE  \E h \in ExpectedHours(zone, d) \intersect Hours :
                 h + 1 < now' /\ h + 1 \notin ran'[h]
    <3>1. PICK h \in ExpectedHours(zone, d) \intersect Hours :
            h + 1 < now /\ h + 1 \notin ran[h]
      BY <2>1 DEF IInv, ShortIsLate
    <3>2. h \in Int /\ now \in Int /\ now' \in Int
      BY DEF IInv, TypeOK, DayCycleAssumption
    <3> QED BY <3>1, <3>2
  <2> QED BY <2>1 DEF ShortIsLate
<1> QED BY <1>1, <1>2, <1>3, <1>4 DEF IInv

(* A merge of a closed day that finds its window short finds an hour of it *)
(* that was not compacted, and all of them were due before this one.       *)
LEMMA ShortNow ==
  ASSUME DayCycleAssumption, IInv, NEW d \in Days,
         Closes(zone, d) <= now,
         NEW runs \in [Hours -> SUBSET Hours],
         ~(ExpectedHours(zone, d) \subseteq Compacted(runs))
  PROVE  \E h \in ExpectedHours(zone, d) \intersect Hours :
           h + 1 <= Closes(zone, d) /\ runs[h] = {}
<1>1. PICK h \in ExpectedHours(zone, d) : h \notin Compacted(runs)
  OBVIOUS
<1>2. /\ zone \in Zones /\ zone \in Changes /\ d \in Int /\ now \in Start..End
      /\ Start \in Int /\ End \in Int
  BY DEF IInv, TypeOK, DayCycleAssumption
<1>3. /\ Opens(zone, d) \in Int /\ Closes(zone, d) \in Int
      /\ Start <= Opens(zone, d)
  BY <1>2, WindowLength DEF DayCycleAssumption
<1>4. h \in Int /\ Opens(zone, d) <= h /\ h < Closes(zone, d)
  BY <1>3 DEF ExpectedHours
<1>5. h \in Hours
  BY <1>2, <1>3, <1>4
<1> QED BY <1>1, <1>3, <1>4, <1>5 DEF Compacted

LEMMA NextKeeps ==
  ASSUME DayCycleAssumption, IInv, Next
  PROVE  IInv'
<1>0. /\ TypeOK /\ zone \in Changes /\ zone \in Zones /\ now \in Int
      /\ InOrder /\ PolledWhole /\ FiledByDate /\ WholeWhenCovered /\ ShortIsLate
      /\ Start \in Int /\ End \in Int
  BY DEF IInv, TypeOK, DayCycleAssumption
<1>1. CASE Tick
  <2>1. /\ now' = now + 1 /\ now < End /\ due' = JobsAt(now + 1)
        /\ UNCHANGED <<zone, known, failures, ran, checks, merges, whole, fact,
                       polled>>
    BY <1>1 DEF Tick
  <2>2. TypeOK'
    BY <1>0, <2>1 DEF TypeOK, JobsAt
  <2>3. "merger" \in due' => Wall(zone, now') % 24 = 8
    BY <2>1 DEF JobsAt
  <2>4. InOrder'
    BY <1>0, <2>1, <2>3 DEF InOrder, TypeOK
  <2> QED BY <1>0, <2>1, <2>2, <2>4, FactsKept DEF TypeOK
<1>2. ASSUME NEW job \in {"compactor", "merger", "loader"}, JobFails(job)
      PROVE  IInv'
  <2>1. /\ UNCHANGED <<zone, known, now, ran, checks, merges, whole, fact, polled>>
        /\ due' = due \ {job} /\ failures' = failures + 1 /\ failures < MaxFailures
    BY <1>2 DEF JobFails, Done
  <2>2. TypeOK'
    BY <1>0, <2>1 DEF TypeOK, DayCycleAssumption
  <2>3. InOrder'
    BY <1>0, <2>1 DEF InOrder
  <2> QED BY <1>0, <2>1, <2>2, <2>3, FactsKept DEF TypeOK
<1>3. CASE Compact
  <2>1. /\ UNCHANGED <<zone, known, now, failures, checks, merges, whole, fact,
                       polled>>
        /\ due' = due \ {"compactor"}
        /\ ran' = [ran EXCEPT ![now - 1] = @ \union {now}]
    BY <1>3 DEF Compact, Done
  <2>2. \A h \in Hours : \A t \in ran'[h] : t \in ran[h] \/ (t = now /\ h = now - 1)
    BY <1>0, <2>1 DEF TypeOK
  <2>3. TypeOK'
    BY <1>0, <2>1 DEF TypeOK
  <2>4. InOrder'
    BY <1>0, <2>1, <2>2 DEF InOrder
  <2> QED BY <1>0, <2>1, <2>2, <2>3, <2>4, FactsKept DEF TypeOK
<1>4. CASE Check
  <2>1. /\ UNCHANGED <<zone, known, now, failures, ran, merges, whole, fact,
                       polled>>
        /\ due' = due \ {"loader"} /\ checks' = checks \union {now}
    BY <1>4 DEF Check, Done
  <2>2. TypeOK'
    BY <1>0, <2>1 DEF TypeOK
  <2>3. InOrder'
    BY <1>0, <2>1 DEF InOrder
  <2> QED BY <1>0, <2>1, <2>2, <2>3, FactsKept DEF TypeOK
<1>5. CASE Merge
  <2> DEFINE d == Yesterday(zone, now)
  <2>1. /\ UNCHANGED <<zone, known, now, failures, ran, checks>>
        /\ "merger" \in due /\ due' = due \ {"merger"}
        /\ Assemble(d, Compacted(ran))
    BY <1>5 DEF Merge, Done
  <2>2. Closes(zone, d) < now /\ d \in Days /\ d \in Int
    BY <1>0, <2>1, ClosedByEight DEF InOrder, Assemble
  <2> HIDE DEF d
  <2>3. Closes(zone, d) \in Int
    BY <1>0, <2>2, WindowLength
  <2>4. Compacted(ran) \subseteq Hours
    BY DEF Compacted
  <2>5. /\ fact' \in [Days -> (SUBSET (Trips \X Hours)) \union {NotMerged}]
        /\ polled' \in [Days -> (SUBSET Rows) \union {NotMerged}]
        /\ merges' \in [Days -> SUBSET Hours]
        /\ whole' \in [Days -> BOOLEAN]
        /\ \A e \in Days : \A t \in merges'[e] : Closes(zone, e) <= t
        /\ PolledWhole' /\ FiledByDate' /\ WholeWhenCovered'
    BY <1>0, <2>1, <2>2, <2>3, <2>4, AssembleKeeps
  <2>6. TypeOK'
    BY <1>0, <2>1, <2>5 DEF TypeOK
  <2>7. InOrder'
    BY <1>0, <2>1, <2>5 DEF InOrder
  <2>8. ShortIsLate'
    <3>1. ASSUME NEW e \in Days, merges'[e] # {}, ~whole'[e]
          PROVE  \E h \in ExpectedHours(zone, e) \intersect Hours :
                   h + 1 < now /\ h + 1 \notin ran[h]
      <4>1. CASE e # d
        BY <1>0, <2>1, <3>1, <4>1 DEF Assemble, TypeOK, ShortIsLate
      <4>2. CASE e = d
        <5>1. ~(ExpectedHours(zone, d) \subseteq Compacted(ran))
          BY <1>0, <2>1, <2>2, <3>1, <4>2 DEF Assemble, TypeOK
        <5>2. PICK h \in ExpectedHours(zone, d) \intersect Hours :
                h + 1 <= Closes(zone, d) /\ ran[h] = {}
          <6>1. ran \in [Hours -> SUBSET Hours] /\ Closes(zone, d) <= now
            BY <1>0, <2>2, <2>3 DEF TypeOK
          <6> QED BY <2>2, <5>1, <6>1, ShortNow
        <5> QED BY <1>0, <2>2, <2>3, <4>2, <5>2
      <4> QED BY <4>1, <4>2
    <3> QED BY <2>1, <3>1 DEF ShortIsLate
  <2> QED BY <1>0, <2>1, <2>5, <2>6, <2>7, <2>8 DEF IInv
<1>6. CASE MergeNothing
  <2>1. /\ UNCHANGED <<zone, known, now, failures, ran, checks, merges, whole,
                       fact, polled>>
        /\ due' = due \ {"merger"}
    BY <1>6 DEF MergeNothing, Done
  <2>2. TypeOK'
    BY <1>0, <2>1 DEF TypeOK
  <2>3. InOrder'
    BY <1>0, <2>1 DEF InOrder
  <2> QED BY <1>0, <2>1, <2>2, <2>3, FactsKept DEF TypeOK
<1>7. ASSUME NEW h \in Fragile, Backfill(h)
      PROVE  IInv'
  <2>1. /\ UNCHANGED <<zone, known, now, due, failures, checks, merges, whole,
                       fact, polled>>
        /\ ran' = [ran EXCEPT ![h] = @ \union {now}]
        /\ h < now /\ h \in Hours
    BY <1>7 DEF Backfill, DayCycleAssumption
  <2>2. \A g \in Hours : \A t \in ran'[g] : t \in ran[g] \/ (t = now /\ g = h)
    BY <1>0, <2>1 DEF TypeOK
  <2>3. TypeOK'
    BY <1>0, <2>1 DEF TypeOK
  <2>4. InOrder'
    BY <1>0, <2>1, <2>2 DEF InOrder
  <2>5. \A g \in Hours : \A t \in ran'[g] : t \in ran[g] \/ t >= now
    BY <1>0, <2>2
  <2>6. now <= now'
    BY <1>0, <2>1
  <2> QED BY <2>1, <2>3, <2>4, <2>5, <2>6, FactsKept
<1>8. ASSUME NEW d \in Days, Replay(d)
      PROVE  IInv'
  <2>1. /\ UNCHANGED <<zone, known, now, due, failures, checks>>
        /\ d <= LastCompleteDay(zone, now) /\ d \in Int
        /\ ran' = [h \in Hours |->
                     IF h \in ExpectedHours(zone, d) /\ h < now
                     THEN ran[h] \union {now} ELSE ran[h]]
        /\ Assemble(d, Compacted(ran'))
    BY <1>8 DEF Replay, DayCycleAssumption
  <2>2. Closes(zone, d) <= now
    BY <1>0, <2>1, LastCompleteIsClosed
  <2>3. Closes(zone, d) \in Int
    BY <1>0, <2>1, WindowLength
  <2>4. /\ ran' \in [Hours -> SUBSET Hours] /\ Compacted(ran') \subseteq Hours
        /\ \A h \in Hours : \A t \in ran'[h] : t \in ran[h] \/ (t = now /\ h < now)
        /\ \A h \in ExpectedHours(zone, d) \intersect Hours : h < now => ran'[h] # {}
    BY <1>0, <2>1 DEF TypeOK, Compacted
  <2>5. /\ fact' \in [Days -> (SUBSET (Trips \X Hours)) \union {NotMerged}]
        /\ polled' \in [Days -> (SUBSET Rows) \union {NotMerged}]
        /\ merges' \in [Days -> SUBSET Hours]
        /\ whole' \in [Days -> BOOLEAN]
        /\ \A e \in Days : \A t \in merges'[e] : Closes(zone, e) <= t
        /\ PolledWhole' /\ FiledByDate' /\ WholeWhenCovered'
    BY <1>0, <2>1, <2>2, <2>4, AssembleKeeps
  <2>6. TypeOK'
    BY <1>0, <2>1, <2>4, <2>5 DEF TypeOK
  <2>7. InOrder'
    BY <1>0, <2>1, <2>4, <2>5 DEF InOrder
  <2>8. ShortIsLate'
    <3>1. ASSUME NEW e \in Days, merges'[e] # {}, ~whole'[e]
          PROVE  \E h \in ExpectedHours(zone, e) \intersect Hours :
                   h + 1 < now /\ h + 1 \notin ran'[h]
      <4>1. CASE e # d
        <5>1. PICK h \in ExpectedHours(zone, e) \intersect Hours :
                h + 1 < now /\ h + 1 \notin ran[h]
          BY <1>0, <2>1, <3>1, <4>1 DEF Assemble, TypeOK, ShortIsLate
        <5> QED BY <1>0, <2>4, <5>1
      <4>2. CASE e = d
        <5>1. ~(ExpectedHours(zone, d) \subseteq Compacted(ran'))
          BY <1>0, <2>1, <2>2, <3>1, <4>2 DEF Assemble, TypeOK
        <5>2. PICK h \in ExpectedHours(zone, d) \intersect Hours :
                h + 1 <= Closes(zone, d) /\ ran'[h] = {}
          BY <1>0, <2>2, <2>4, <5>1, ShortNow
        <5>3. h < now
          BY <1>0, <2>2, <2>3, <5>2
        <5> QED BY <2>4, <5>2, <5>3
      <4> QED BY <4>1, <4>2
    <3> QED BY <2>1, <3>1 DEF ShortIsLate
  <2> QED BY <1>0, <2>1, <2>5, <2>6, <2>7, <2>8 DEF IInv
<1>9. CASE Rest
  BY <1>9 DEF Rest, vars, IInv, TypeOK, InOrder, PolledWhole, DayRows,
              FiledByDate, DateOfTrip, WholeWhenCovered, Served, Departs,
              ShortIsLate
<1> QED BY <1>1, <1>2, <1>3, <1>4, <1>5, <1>6, <1>7, <1>8, <1>9 DEF Next

LEMMA StutterKeeps ==
  ASSUME IInv, UNCHANGED vars
  PROVE  IInv'
BY DEF vars, IInv, TypeOK, InOrder, PolledWhole, DayRows, FiledByDate,
       DateOfTrip, WholeWhenCovered, Served, Departs, ShortIsLate

(* The invariant that the theorems below follow from.                      *)
THEOREM Inductive == Spec => []IInv
<1>1. Init => IInv
  BY InitHolds, DayCycleAssumption
<1>2. IInv /\ [Next]_vars => IInv'
  BY NextKeeps, StutterKeeps, DayCycleAssumption
<1> QED BY <1>1, <1>2, PTL DEF Spec

-----------------------------------------------------------------------------
(* The properties.                                                         *)

(* Every variable keeps its type, for every set of days, trips and hours.  *)
THEOREM TypeCorrect == Spec => []TypeOK
BY Inductive, PTL DEF IInv

LEMMA PolledFollows ==
  ASSUME DayCycleAssumption, IInv
  PROVE  PolledOnce
<1> SUFFICES ASSUME NEW r \in Rows, OnDisk(r), ServiceDateFor(zone, r[2]) \in Days
             PROVE  {d \in Days : r \in FetchDay(d)} = {ServiceDateFor(zone, r[2])}
  BY DEF PolledOnce, OneDay
<1>1. zone \in Zones /\ r[1] \in Int /\ r[2] \in Int /\ r[1] - r[2] \in {-1, 0, 1}
  BY RowsAreRows DEF IInv, TypeOK
<1>2. ASSUME NEW d \in Days
      PROVE  r \in FetchDay(d) <=> ServiceDateFor(zone, r[2]) = d
  <2>1. d \in Int
    BY DEF DayCycleAssumption
  <2>2. ServiceDateFor(zone, r[2]) = d <=> InDay(zone, d, r[2])
    BY <1>1, <2>1, DaysTile
  <2>3. InDay(zone, d, r[2]) => DateOf(r[1]) \in SourceDayGlobs(d)
    BY <1>1, <2>1, GlobsHoldTheDay
  <2>4. polled[d] # NotMerged => polled[d] = DayRows(d)
    BY DEF IInv, PolledWhole
  <2> QED BY <2>2, <2>3, <2>4 DEF FetchDay, CollectorRun, DayRows
<1> QED BY <1>2

(* Every poll on disk is reported in exactly one day, from whichever store *)
(* the checker reads it and whatever the clocks do.                        *)
THEOREM PollsReportedOnce == Spec => []PolledOnce
<1>1. IInv => PolledOnce
  BY PolledFollows, DayCycleAssumption
<1> QED BY <1>1, Inductive, PTL

LEMMA TripFollows ==
  ASSUME IInv
  PROVE  EachTripOnce
<1> SUFFICES ASSUME NEW t \in Trips, NEW d \in Days, NEW e \in Days,
                    NEW h \in Hours, <<t, h>> \in fact[d],
                    NEW g \in Hours, <<t, g>> \in fact[e]
             PROVE  d = e
  BY DEF EachTripOnce
<1>1. <<t, h>> # <<>> /\ <<t, g>> # <<>>
  OBVIOUS
<1> QED BY <1>1 DEF IInv, FiledByDate

(* No trip has rows in the trip facts of two days.                         *)
THEOREM TripsFactedOnce == Spec => []EachTripOnce
<1>1. IInv => EachTripOnce
  BY TripFollows
<1> QED BY <1>1, Inductive, PTL

(* A merge that found its window whole has the whole of every trip of its  *)
(* day, on a day of any length.                                            *)
THEOREM CoveredIsWhole == Spec => []WholeWhenCovered
BY Inductive, PTL DEF IInv

LEMMA ShortFollows ==
  ASSUME IInv
  PROVE  NoFalseShort
BY DEF IInv, ShortIsLate, NoFalseShort

(* No merge reports a day short that was compacted on schedule.            *)
THEOREM ShortIsTrue == Spec => []NoFalseShort
<1>1. IInv => NoFalseShort
  BY ShortFollows
<1> QED BY <1>1, Inductive, PTL

LEMMA MissedFollows ==
  ASSUME DayCycleAssumption, IInv
  PROVE  MissedOnce
<1>1. zone \in Zones /\ Days \subseteq Int /\ checks \subseteq Hours /\ Hours \subseteq Int
  BY DEF IInv, TypeOK, DayCycleAssumption
<1>2. ASSUME NEW h \in Hours, ran[h] = {}, ServiceDateFor(zone, h) \in Days
      PROVE  {d \in Days : h \in Missing(d)} = {ServiceDateFor(zone, h)}
  <2>1. ASSUME NEW d \in Days
        PROVE  h \in Missing(d) <=> ServiceDateFor(zone, h) = d
    <3>1. /\ h \in ExpectedHourPartitions(zone, d) <=> InDay(zone, d, h)
          /\ ServiceDateFor(zone, h) = d <=> InDay(zone, d, h)
      BY <1>1, PartitionsAreTheDay, DaysTile
    <3> QED BY <1>2, <3>1 DEF Missing, SeenIn
  <2> QED BY <1>2, <2>1
<1>3. ASSUME NEW t \in checks, ServiceDateFor(zone, t) \in Days
      PROVE  {d \in Days : t \in ChecksSeen(d)} = {ServiceDateFor(zone, t)}
  <2>1. ASSUME NEW d \in Days, ServiceDateFor(zone, t) = d
        PROVE  DateOf(t) \in DayGlobs(d)
    <3>1. InDay(zone, d, t) /\ Midnight(zone, d + 1) \in Int
      BY <1>1, <2>1, DaysTile, MidnightsNear
    <3>2. Midnight(zone, d) <= t /\ t < Midnight(zone, d + 1) + 24
      BY <1>1, <3>1 DEF InDay
    <3> QED BY <1>1, <3>2, GlobsHoldTheRecords
  <2> QED BY <1>3, <2>1 DEF ChecksSeen, SeenIn
<1> QED BY <1>2, <1>3 DEF MissedOnce, OneDay

(* An hour never compacted is missing from exactly one day's report.       *)
THEOREM MissedIsReportedOnce == Spec => []MissedOnce
<1>1. IInv => MissedOnce
  BY MissedFollows, DayCycleAssumption
<1> QED BY <1>1, Inductive, PTL

LEMMA PhantomFollows ==
  ASSUME DayCycleAssumption, IInv
  PROVE  NoPhantom
<1>1. zone \in Zones /\ Days \subseteq Int /\ Hours \subseteq Int
  BY DEF IInv, TypeOK, DayCycleAssumption
<1>2. ASSUME NEW d \in Days, NEW h \in Missing(d), NEW t \in ran[h]
      PROVE  t > h + 24
  <2>1. h \in Hours /\ t \in Hours /\ h < t /\ DateOf(t) \notin DayGlobs(d)
    BY <1>2 DEF Missing, SeenIn, IInv, InOrder, TypeOK
  <2>2. InDay(zone, d, h)
    BY <1>1, <1>2, <2>1, PartitionsAreTheDay DEF Missing
  <2>3. ~(Midnight(zone, d) <= t /\ t < Midnight(zone, d + 1) + 24)
    BY <1>1, <2>1, GlobsHoldTheRecords
  <2>4. Midnight(zone, d) \in Int /\ Midnight(zone, d + 1) \in Int
    BY <1>1, MidnightsNear
  <2> QED BY <1>1, <2>1, <2>2, <2>3, <2>4 DEF InDay
<1>3. ASSUME NEW d \in Days, NEW t \in merges[d], t < Midnight(zone, d + 1) + 24
      PROVE  MergeSeen(d)
  <2>1. t \in Int /\ Closes(zone, d) <= t
    BY <1>1 DEF IInv, InOrder, TypeOK
  <2>2. /\ Midnight(zone, d) \in Int /\ Opens(zone, d) \in Int /\ Closes(zone, d) \in Int
        /\ Opens(zone, d) < Midnight(zone, d) /\ Midnight(zone, d + 1) \in Int
        /\ Midnight(zone, d + 1) + 5 < Closes(zone, d)
    BY <1>1, MidnightsNear, WindowLength
  <2>3. Midnight(zone, d) <= Midnight(zone, d + 1)
    BY <1>1, ZoneFields DEF Midnight, Instant, Later
  <2>4. DateOf(t) \in DayGlobs(d)
    BY <1>1, <1>3, <2>1, <2>2, <2>3, GlobsHoldTheRecords
  <2> QED BY <2>4 DEF MergeSeen, SeenIn
<1> QED BY <1>2, <1>3 DEF NoPhantom

(* What was done within a day is never reported as not done.               *)
THEOREM DoneIsSeen == Spec => []NoPhantom
<1>1. IInv => NoPhantom
  BY PhantomFollows, DayCycleAssumption
<1> QED BY <1>1, Inductive, PTL
=============================================================================
