--------------------------- MODULE CheckerProofs ---------------------------
(***************************************************************************)
(* Proofs about Checker, over any audit trail the collector can leave.     *)
(* What the report says of minutes rests on the trail being sound          *)
(* (CollectorProofs), and what it expects of a day on when a first         *)
(* attempt's polls can be made (Timely).                                   *)
(***************************************************************************)
EXTENDS Checker, CollectorProofs, FiniteLemmas

(* The day has no two minutes of one HH:MM: it is not the one of 25 hours. *)
OneFace == MinuteAt(Horizon) < FaceMinutes

(* The lambda may live for a whole number of minutes, as it does           *)
(* (template.yaml: Timeout 120, rate(1 minute)).                           *)
WholeMinutes == Timeout % Period = 0

-----------------------------------------------------------------------------
(* The rows of a day.                                                      *)

LEMMA KeptIs ==
  ASSUME TypeOK
  PROVE  /\ IsFiniteSet(Recorded) /\ IsFiniteSet(Kept)
         /\ \A k \in Kept :
              /\ k[1] \in Invocations /\ k[1] \in Recorded /\ k[2] \in Polls
              /\ trail[k[1]] \in [Polls -> Entries]
              /\ trail[k[1]][k[2]] \in Entries
<1> USE CollectorAssumption DEF CollectorAssumption
<1>1. IsFiniteSet(Invocations)
  BY FS_Interval DEF Invocations
<1>2. IsFiniteSet(Recorded)
  BY <1>1, FS_Subset DEF Recorded
<1>3. IsFiniteSet(Kept)
  BY <1>2, FS_Product DEF Kept
<1>4. ASSUME NEW k \in Kept
      PROVE  /\ k[1] \in Invocations /\ k[1] \in Recorded /\ k[2] \in Polls
             /\ trail[k[1]] \in [Polls -> Entries]
  BY DEF Kept, Recorded, TypeOK
<1> QED
  BY <1>2, <1>3, <1>4

LEMMA DayRowsAre ==
  ASSUME TypeOK
  PROVE  /\ DOMAIN DayRows = Kept
         /\ \A k \in Kept :
              /\ DayRows[k].feed = Schedule[k[2]].feed
              /\ DayRows[k].error = trail[k[1]][k[2]].error
              /\ DayRows[k].fetched = trail[k[1]][k[2]].fetched
              /\ DayRows[k].fetched \in Seconds
BY KeptIs DEF DayRows, Rows, Row, Entries

LEMMA MinuteIs ==
  ASSUME NEW s \in Nat
  PROVE  /\ MinuteAt(s) \in Nat
         /\ \A t \in Nat : s <= t => MinuteAt(s) <= MinuteAt(t)
         /\ \A t \in Nat : s <= t =>
              MinuteAt(t) - MinuteAt(s) <= (t - s) \div Period + 1
<1> USE CollectorAssumption, CheckerAssumption
    DEF CollectorAssumption, CheckerAssumption
<1>1. Period \in Nat \ {0} /\ Phase \in Nat
  OBVIOUS
<1>2. MinuteAt(s) \in Nat
  BY <1>1 DEF MinuteAt
<1>3. ASSUME NEW t \in Nat, s <= t
      PROVE  /\ MinuteAt(s) <= MinuteAt(t)
             /\ MinuteAt(t) - MinuteAt(s) <= (t - s) \div Period + 1
  <2> DEFINE a == s + Phase
             b == t + Phase
             qa == a \div Period
             qb == b \div Period
             qd == (t - s) \div Period
  <2>1. /\ a \in Nat /\ b \in Nat /\ t - s \in Nat
        /\ b - a = t - s
    BY <1>1, <1>3
  <2>2. /\ qa \in Int /\ Period * qa <= a /\ a < Period * (qa + 1)
        /\ qb \in Int /\ Period * qb <= b /\ b < Period * (qb + 1)
        /\ qd \in Int /\ Period * qd <= t - s /\ t - s < Period * (qd + 1)
    BY <1>1, <2>1
  <2> HIDE DEF a, b, qa, qb, qd
  <2>3. Period * qa < Period * (qb + 1)
    BY <1>1, <1>3, <2>1, <2>2
  <2>4. qa < qb + 1
    BY <1>1, <2>2, <2>3
  <2>5. Period * qb < Period * (qa + 1) + Period * (qd + 1)
    BY <1>1, <2>1, <2>2
  <2>6. Period * qb < Period * (qa + qd + 2)
    BY <1>1, <2>2, <2>5
  <2>7. qb < qa + qd + 2
    BY <1>1, <2>2, <2>6
  <2>8. qa <= qb /\ qb - qa <= qd + 1
    BY <2>2, <2>4, <2>7
  <2> QED
    BY <2>8 DEF a, b, qa, qb, qd, MinuteAt
<1> QED
  BY <1>2, <1>3

(* The observed window runs from the first fetch on record to the last.    *)
LEMMA WindowIs ==
  ASSUME TypeOK, Kept # {}
  PROVE  LET w == CollectionWindow(DayRows) IN
         /\ w.start \in Seconds /\ w.end \in Seconds /\ w.start <= w.end
         /\ \E k \in Kept : w.start = trail[k[1]][k[2]].fetched
         /\ \E k \in Kept : w.end = trail[k[1]][k[2]].fetched
         /\ \A k \in Kept : /\ w.start <= trail[k[1]][k[2]].fetched
                            /\ trail[k[1]][k[2]].fetched <= w.end
         /\ w.minutes = (w.end - w.start) \div Period + 1
<1> DEFINE f == [k \in Kept |-> trail[k[1]][k[2]].fetched]
           Fetches == {f[k] : k \in Kept}
<1>1. {DayRows[k].fetched : k \in DOMAIN DayRows} = Fetches
  BY DayRowsAre
<1>2. IsFiniteSet(Fetches)
  <2> HIDE DEF f
  <2> QED  BY KeptIs, ImageFinite
<1>3. Fetches \subseteq Seconds /\ Fetches # {}
  BY KeptIs DEF Entries
<1>4. Seconds \subseteq Int
  BY CollectorAssumption DEF CollectorAssumption, Seconds
<1>5. /\ Min(Fetches) \in Fetches /\ Max(Fetches) \in Fetches
      /\ \A n \in Fetches : Min(Fetches) <= n /\ n <= Max(Fetches)
  <2> HIDE DEF Fetches
  <2>1. Fetches \in SUBSET Int
    BY <1>3, <1>4
  <2> QED
    BY <1>2, <1>3, <2>1, MaxIs, MinIs
<1>6. \A k \in Kept : f[k] = trail[k[1]][k[2]].fetched /\ f[k] \in Fetches
  OBVIOUS
<1>7. \A n \in Fetches : \E k \in Kept : n = trail[k[1]][k[2]].fetched
  OBVIOUS
<1> HIDE DEF f, Fetches
<1>8. CollectionWindow(DayRows) =
        [start |-> Min(Fetches), end |-> Max(Fetches),
         minutes |-> (Max(Fetches) - Min(Fetches)) \div Period + 1]
  BY <1>1 DEF CollectionWindow
<1>9. Min(Fetches) \in Seconds /\ Max(Fetches) \in Seconds
      /\ Min(Fetches) <= Max(Fetches)
  BY <1>3, <1>5
<1> QED
  BY <1>5, <1>6, <1>7, <1>8, <1>9

-----------------------------------------------------------------------------
(* Minutes.                                                                *)

CountedIn(label) ==
  {k \in Covering(DayRows) : Label(MinuteAt(DayRows[k].fetched)) = label}

LEMMA CountedIsFinite ==
  ASSUME TypeOK, NEW label
  PROVE  /\ IsFiniteSet(CountedIn(label))
         /\ PerMinute(DayRows, label) = Cardinality(CountedIn(label))
         /\ PerMinute(DayRows, label) \in Nat
<1>1. CountedIn(label) \subseteq Kept
  BY DayRowsAre DEF CountedIn, Covering
<1>2. IsFiniteSet(CountedIn(label))
  BY <1>1, KeptIs, FS_Subset
<1> QED
  BY <1>2, FS_CardinalityType DEF CountedIn, PerMinute

LEMMA ExpectedType ==
  ASSUME NEW f PROVE Expected(f) \in Nat
<1>1. IsFiniteSet({p \in Polls : Schedule[p].feed = f})
  BY FS_Subset, CollectorAssumption DEF CollectorAssumption
<1> QED
  BY <1>1, FS_CardinalityType DEF Expected

(* A row counted for a minute of a day of one face is a vehicle poll of    *)
(* that very minute, with what it fetched in the bucket.                   *)
LEMMA CountedAreHeld ==
  ASSUME TypeOK, AuditSound, OneFace,
         NEW m \in Nat, m <= MinuteAt(Horizon)
  PROVE  CountedIn(Label(m)) \subseteq HeldIn(m)
<1> SUFFICES ASSUME NEW k \in CountedIn(Label(m)) PROVE k \in HeldIn(m)
  OBVIOUS
<1> DEFINE e == trail[k[1]][k[2]]
<1>1. /\ k \in Kept /\ Schedule[k[2]].feed = "vehiclepos" /\ e.error = "none"
      /\ Label(MinuteAt(e.fetched)) = Label(m) /\ e.fetched \in Seconds
  BY DayRowsAre DEF CountedIn, Covering
<1>2. MinuteAt(e.fetched) = m
  <2>1. /\ e.fetched \in Nat /\ e.fetched <= Horizon /\ Horizon \in Nat
    BY <1>1, CollectorAssumption DEF CollectorAssumption, Seconds
  <2>2. /\ MinuteAt(e.fetched) \in Nat /\ MinuteAt(Horizon) \in Nat
        /\ MinuteAt(e.fetched) <= MinuteAt(Horizon)
    <3> HIDE DEF e
    <3> QED  BY <2>1, MinuteIs
  <2>3. MinuteAt(e.fetched) < FaceMinutes /\ m < FaceMinutes /\ FaceMinutes \in Nat
    BY <2>2, CheckerAssumption DEF OneFace, CheckerAssumption
  <2> HIDE DEF e
  <2>4. Label(MinuteAt(e.fetched)) = MinuteAt(e.fetched) /\ Label(m) = m
    BY <2>2, <2>3 DEF Label
  <2> QED
    BY <1>1, <2>4
<1>3. k \in Recorded \X Vehicles
  BY <1>1, KeptIs DEF Kept, Vehicles
<1>4. e.body => raw[<<"vehiclepos", e.fetched>>] # Nobody
  BY <1>1, KeptIs DEF AuditSound, Recorded
<1> QED
  BY <1>1, <1>2, <1>3, <1>4 DEF HeldIn

LEMMA LossFollows ==
  ASSUME TypeOK, AuditSound, OneFace PROVE LossShows
<1> DEFINE w == CollectionWindow(DayRows)
<1> SUFFICES ASSUME Kept # {},
                    NEW m \in MinuteAt(w.start)..(MinuteAt(w.end) - 1),
                    Label(m) \notin Gaps(DayRows)
             PROVE  Cardinality(HeldIn(m)) >= Expected("vehiclepos")
  BY DEF LossShows
<1>1. /\ w.start \in Nat /\ w.end \in Nat /\ w.start <= w.end
      /\ w.end <= Horizon /\ Horizon \in Nat
      /\ w.minutes = (w.end - w.start) \div Period + 1
  BY WindowIs, CollectorAssumption DEF CollectorAssumption, Seconds
<1> DEFINE a == MinuteAt(w.start)
           z == MinuteAt(w.end)
           n == w.minutes
<1>2. /\ a \in Nat /\ z \in Nat /\ MinuteAt(Horizon) \in Nat
      /\ z <= MinuteAt(Horizon) /\ z - a <= n
  <2> HIDE DEF w
  <2>1. /\ MinuteAt(w.start) \in Nat
        /\ MinuteAt(w.end) - MinuteAt(w.start) <= (w.end - w.start) \div Period + 1
    BY <1>1, MinuteIs
  <2>2. MinuteAt(w.end) \in Nat /\ MinuteAt(w.end) <= MinuteAt(Horizon)
    BY <1>1, MinuteIs
  <2>3. MinuteAt(Horizon) \in Nat
    BY <1>1, MinuteIs
  <2> QED
    BY <1>1, <2>1, <2>2, <2>3
<1>3. n \in Int
  <2> HIDE DEF w
  <2> QED
    BY <1>1, CollectorAssumption DEF CollectorAssumption
<1>4. m \in a..(z - 1)
  OBVIOUS
<1>5. Label(m) \in MinuteLabels(w)
  <2>1. m = MinuteAt(w.start) + (m - a) /\ m - a \in 0..(n - 1)
    <3> HIDE DEF w, n, z
    <3> QED  BY <1>2, <1>3, <1>4
  <2> QED
    BY <2>1 DEF MinuteLabels
<1>6. m \in Nat /\ m <= MinuteAt(Horizon)
  <2> HIDE DEF w, a, z
  <2> QED  BY <1>2, <1>4
<1>7. ~(PerMinute(DayRows, Label(m)) < Expected("vehiclepos"))
  BY <1>5, DayRowsAre DEF Gaps
<1>8. Cardinality(CountedIn(Label(m))) >= Expected("vehiclepos")
  BY <1>7, CountedIsFinite, ExpectedType
<1>9. IsFiniteSet(HeldIn(m))
  <2>1. HeldIn(m) \subseteq Kept
    BY DEF HeldIn, Kept, Vehicles
  <2> QED  BY <2>1, KeptIs, FS_Subset
<1>10. /\ Cardinality(CountedIn(Label(m))) <= Cardinality(HeldIn(m))
       /\ Cardinality(CountedIn(Label(m))) \in Nat
       /\ Cardinality(HeldIn(m)) \in Nat
  BY <1>6, <1>9, CountedAreHeld, CountedIsFinite, FS_Subset, FS_CardinalityType
<1> QED
  BY <1>8, <1>10, ExpectedType

LEMMA GapsFollow ==
  ASSUME TypeOK PROVE GapsAreReal
<1> SUFFICES ASSUME NEW m \in 0..MinuteAt(Horizon),
                    Cardinality(DueIn(m)) = Expected("vehiclepos"),
                    \A k \in DueIn(m) : k[1] \in Recorded /\ k \in HeldIn(m),
                    Label(m) \in Gaps(DayRows)
             PROVE  FALSE
  BY DEF GapsAreReal
<1>1. DueIn(m) \subseteq CountedIn(Label(m))
  <2> SUFFICES ASSUME NEW k \in DueIn(m) PROVE k \in CountedIn(Label(m))
    OBVIOUS
  <2>1. k \in HeldIn(m) /\ k \in Recorded \X Vehicles
    BY DEF HeldIn
  <2>2. k \in Kept /\ Schedule[k[2]].feed = "vehiclepos"
    BY <2>1 DEF Kept, Vehicles
  <2>3. trail[k[1]][k[2]].error = "none" /\ MinuteAt(trail[k[1]][k[2]].fetched) = m
    BY <2>1 DEF HeldIn
  <2> QED
    BY <2>2, <2>3, DayRowsAre DEF CountedIn, Covering
<1>2. Cardinality(DueIn(m)) <= PerMinute(DayRows, Label(m))
  BY <1>1, CountedIsFinite, FS_Subset
<1>3. PerMinute(DayRows, Label(m)) < Expected("vehiclepos")
  BY DEF Gaps
<1> QED
  BY <1>2, <1>3, CountedIsFinite, ExpectedType

-----------------------------------------------------------------------------
(* When a first attempt's polls are made.                                  *)

(* A first attempt begins in its minute, none outlives its deadline, and   *)
(* what it fetched it fetched in between, on record too.                   *)
TimelyAt(i) ==
  /\ phase[i] = "idle" => attempt[i] = 0 /\ trail[i] = NoRecord
  /\ attempt[i] = 1 => started[i] = Period * i
  /\ phase[i] = "running" => started[i] <= now /\ now <= Deadline(i)
  /\ attempt[i] = 1 =>
       \A p \in Polls :
         /\ poll[i][p].at \in {"fetching", "storing", "done"} =>
              started[i] <= poll[i][p].fetched /\ poll[i][p].fetched <= now
         /\ trail[i] # NoRecord =>
              /\ started[i] <= trail[i][p].fetched
              /\ trail[i][p].fetched <= Deadline(i)

Timely == \A i \in Invocations : TimelyAt(i)

LEMMA Numbers ==
  ASSUME TypeOK
  PROVE  /\ now \in Nat /\ Timeout \in Nat /\ Period \in Nat
         /\ \A i \in Invocations :
              /\ i \in Nat /\ started[i] \in Nat /\ attempt[i] \in Nat
              /\ poll[i] \in [Polls -> Threads]
              /\ \A p \in Polls :
                   poll[i][p] \in Threads /\ poll[i][p].fetched \in Int
BY CollectorAssumption
   DEF CollectorAssumption, TypeOK, Seconds, Invocations, Threads, NoTime

LEMMA TimelyInit == Init => Timely
BY DEF Init, Timely, TimelyAt

LEMMA TimelyTick ==
  ASSUME IInv, Timely, Tick PROVE Timely'
<1> SUFFICES ASSUME NEW i \in Invocations PROVE TimelyAt(i)'
  BY DEF Timely
<1>1. TimelyAt(i) /\ TypeOK
  BY DEF Timely, IInv
<1>2. now' = now + 1 /\ UNCHANGED <<phase, attempt, started, poll, trail>>
  BY DEF Tick
<1>3. phase[i] = "running" => now < Deadline(i)
  BY DEF Tick, Running
<1>4. now \in Nat /\ started[i] \in Nat /\ Timeout \in Nat
      /\ \A p \in Polls : poll[i][p].fetched \in Int
  BY <1>1, Numbers
<1>5. phase[i] = "running" => started[i] <= now' /\ now' <= Deadline(i)
  BY <1>1, <1>2, <1>3, <1>4 DEF TimelyAt, Deadline
<1>6. \A p \in Polls :
        started[i] <= poll[i][p].fetched /\ poll[i][p].fetched <= now =>
          started[i] <= poll[i][p].fetched /\ poll[i][p].fetched <= now'
  BY <1>2, <1>4
<1> QED
  BY <1>1, <1>2, <1>5, <1>6 DEF TimelyAt, Deadline

LEMMA TimelyBegin ==
  ASSUME IInv, Timely, NEW i \in Invocations, Trigger(i) \/ Retry(i)
  PROVE  Timely'
<1> SUFFICES ASSUME NEW j \in Invocations PROVE TimelyAt(j)'
  BY DEF Timely
<1>1. TimelyAt(j) /\ TypeOK /\ Inert
  BY DEF Timely, IInv
<1>2. /\ Begin(i) /\ UNCHANGED <<now, poll, trail>>
      /\ attempt' = [attempt EXCEPT ![i] = @ + 1]
      /\ started' = [started EXCEPT ![i] = now]
      /\ phase' \in {[phase EXCEPT ![i] = o] : o \in {"running", "unrecorded"}}
  BY DEF Trigger, Retry, Begin
<1>3. CASE j # i
  <2>1. attempt'[j] = attempt[j] /\ started'[j] = started[j]
        /\ phase'[j] = phase[j]
    BY <1>1, <1>2, <1>3 DEF TypeOK
  <2> QED
    BY <1>1, <1>2, <2>1 DEF TimelyAt, Deadline
<1>4. CASE j = i
  <2>1. /\ attempt'[i] = attempt[i] + 1 /\ started'[i] = now
        /\ phase'[i] \in {"running", "unrecorded"}
    BY <1>1, <1>2 DEF TypeOK
  <2>2. now <= now + Timeout /\ now \in Nat /\ attempt[i] \in Nat
    BY <1>1, Numbers
  <2>3. phase[i] # "running"
    BY DEF Trigger, Retry, Failed
  <2>4. \A p \in Polls : poll[i][p].at = "waiting"
    BY <1>1, <2>3 DEF Inert, Waiting
  <2>5. attempt'[i] = 1 => now = Period * i /\ trail[i] = NoRecord
    <3>1. CASE Trigger(i)
      BY <1>1, <1>4, <3>1 DEF Trigger, TimelyAt
    <3>2. CASE Retry(i)
      BY <1>1, <2>1, <2>2, <3>2 DEF Retry, Failed, Inert
    <3> QED
      BY <3>1, <3>2
  <2> QED
    BY <1>2, <1>4, <2>1, <2>2, <2>4, <2>5 DEF TimelyAt, Deadline
<1> QED
  BY <1>3, <1>4

LEMMA TimelyEnd ==
  ASSUME IInv, Timely, NEW i \in Invocations, phase[i] = "running",
         NEW ending \in Phases \ {"idle", "running"}, End(i, ending),
         \/ UNCHANGED trail
         \/ Gathered(i) /\ PutRunRecord(i)
  PROVE  Timely'
<1> SUFFICES ASSUME NEW j \in Invocations PROVE TimelyAt(j)'
  BY DEF Timely
<1>1. TimelyAt(j) /\ TypeOK
  BY DEF Timely, IInv
<1>2. /\ UNCHANGED <<now, attempt, started>>
      /\ phase' = [phase EXCEPT ![i] = ending]
      /\ poll' = [poll EXCEPT ![i] = [p \in Polls |-> Waiting]]
  BY DEF End
<1>3. CASE j # i
  <2>1. phase'[j] = phase[j] /\ poll'[j] = poll[j] /\ trail'[j] = trail[j]
    BY <1>1, <1>2, <1>3 DEF TypeOK, PutRunRecord
  <2> QED
    BY <1>1, <1>2, <2>1 DEF TimelyAt, Deadline
<1>4. CASE j = i
  <2>1. phase'[i] = ending /\ poll'[i] = [p \in Polls |-> Waiting]
    BY <1>1, <1>2 DEF TypeOK
  <2>2. \A p \in Polls : poll'[i][p].at = "waiting"
    BY <2>1 DEF Waiting
  <2>3. ASSUME attempt[i] = 1, trail'[i] # NoRecord, NEW p \in Polls
        PROVE  started[i] <= trail'[i][p].fetched
               /\ trail'[i][p].fetched <= Deadline(i)
    <3>1. CASE UNCHANGED trail
      BY <1>1, <1>4, <2>3, <3>1 DEF TimelyAt
    <3>2. CASE Gathered(i) /\ PutRunRecord(i)
      <4>1. trail'[i][p] = Entry(i, p)
        BY <1>1, <3>2 DEF PutRunRecord, TypeOK
      <4>2. Entry(i, p).fetched = IF poll[i][p].at = "crashed" THEN now
                                  ELSE poll[i][p].fetched
        BY DEF Entry, Crashed
      <4>3. poll[i][p].at \in {"done", "crashed"}
        BY <3>2 DEF Gathered, Ended
      <4>4. started[i] <= now /\ now <= Deadline(i)
        BY <1>1, <1>4 DEF TimelyAt
      <4>5. poll[i][p].at = "done" =>
              started[i] <= poll[i][p].fetched /\ poll[i][p].fetched <= now
        BY <1>1, <1>4, <2>3 DEF TimelyAt
      <4>6. /\ now \in Nat /\ started[i] \in Nat /\ Timeout \in Nat
            /\ poll[i][p].fetched \in Int
        BY <1>1, Numbers
      <4>7. poll[i][p].at = "done" => poll[i][p].fetched <= Deadline(i)
        BY <4>4, <4>5, <4>6 DEF Deadline
      <4> QED
        BY <4>1, <4>2, <4>3, <4>4, <4>5, <4>7
    <3> QED
      BY <3>1, <3>2
  <2> QED
    BY <1>1, <1>2, <1>4, <2>1, <2>2, <2>3 DEF TimelyAt, Deadline
<1> QED
  BY <1>3, <1>4

LEMMA TimelyThread ==
  ASSUME IInv, Timely, NEW i \in Invocations, NEW p \in Polls, StepOf(i, p)
  PROVE  Timely'
<1> SUFFICES ASSUME NEW j \in Invocations PROVE TimelyAt(j)'
  BY DEF Timely
<1>1. TimelyAt(j) /\ TypeOK
  BY DEF Timely, IInv
<1>2. /\ phase[i] = "running"
      /\ UNCHANGED <<now, phase, attempt, started, trail>>
  BY DEF StepOf, Issue, Due, FetchEnds, FetchCrashes, StoreNothing,
         StorePayload, StoreFails, StoreCrashes, Thread
<1>3. PICK t \in Threads :
        /\ Becomes(i, p, t)
        /\ t.at \in {"fetching", "storing", "done"} =>
             \/ poll[i][p].at = "waiting" /\ t.fetched = now
             \/ /\ poll[i][p].at \in {"fetching", "storing"}
                /\ t.fetched = poll[i][p].fetched
  <2>1. poll[i][p] \in Threads /\ now \in Seconds
    BY <1>1, Numbers DEF TypeOK
  <2>2. CASE Issue(i, p)
    <3> DEFINE t == [Waiting EXCEPT !.at = "fetching", !.fetched = now]
    <3>1. t \in Threads /\ t.fetched = now
      BY <2>1 DEF Threads, Waiting, Errors
    <3> QED
      BY <2>2, <3>1 DEF Issue, Due, Thread
  <2>3. CASE FetchEnds(i, p)
    <3>1. PICK answer \in {"payload", "blank", "failed"} :
            Becomes(i, p, [poll[i][p] EXCEPT
              !.at = "storing",
              !.body = (answer = "payload"),
              !.error = IF answer = "failed" THEN "fetch" ELSE "none"])
      BY <2>3 DEF FetchEnds
    <3> DEFINE t == [poll[i][p] EXCEPT
              !.at = "storing",
              !.body = (answer = "payload"),
              !.error = IF answer = "failed" THEN "fetch" ELSE "none"]
    <3>2. t \in Threads /\ t.fetched = poll[i][p].fetched
      BY <2>1 DEF Threads, Errors
    <3> QED
      BY <2>3, <3>1, <3>2 DEF FetchEnds, Thread
  <2>4. CASE FetchCrashes(i, p) \/ StoreCrashes(i, p)
    <3> DEFINE t == [Waiting EXCEPT !.at = "crashed"]
    <3>1. t \in Threads /\ t.at = "crashed"
      BY DEF Threads, Waiting, Errors, Ended
    <3> QED
      BY <2>4, <3>1 DEF FetchCrashes, StoreCrashes
  <2>5. CASE StoreNothing(i, p)
    <3> DEFINE t == [poll[i][p] EXCEPT !.at = "done"]
    <3>1. t \in Threads /\ t.fetched = poll[i][p].fetched
      BY <2>1 DEF Threads, Ended
    <3> QED
      BY <2>5, <3>1 DEF StoreNothing, Thread
  <2>6. CASE StorePayload(i, p)
    <3> DEFINE t == [poll[i][p] EXCEPT !.at = "done", !.stored = TRUE]
    <3>1. t \in Threads /\ t.fetched = poll[i][p].fetched
      BY <2>1 DEF Threads, Ended
    <3> QED
      BY <2>6, <3>1 DEF StorePayload, Thread
  <2>7. CASE StoreFails(i, p)
    <3> DEFINE t == [poll[i][p] EXCEPT !.at = "done", !.error = "storage"]
    <3>1. t \in Threads /\ t.fetched = poll[i][p].fetched
      BY <2>1 DEF Threads, Ended, Errors
    <3> QED
      BY <2>7, <3>1 DEF StoreFails, Thread
  <2> QED
    BY <2>2, <2>3, <2>4, <2>5, <2>6, <2>7 DEF StepOf
<1>4. /\ poll'[i][p] = t
      /\ \A g \in Invocations, q \in Polls :
           g # i \/ q # p => poll'[g][q] = poll[g][q]
  BY <1>1, <1>3, OneThreadMoves
<1>5. CASE j # i
  BY <1>1, <1>2, <1>4, <1>5 DEF TimelyAt, Deadline
<1>6. CASE j = i
  <2>1. started[i] <= now /\ now \in Nat
    BY <1>1, <1>2, <1>6, Numbers DEF TimelyAt
  <2>2. attempt[i] = 1 /\ t.at \in {"fetching", "storing", "done"} =>
          started[i] <= t.fetched /\ t.fetched <= now
    BY <1>1, <1>3, <1>6, <2>1 DEF TimelyAt
  <2>3. \A q \in Polls :
          attempt[i] = 1 /\ poll'[i][q].at \in {"fetching", "storing", "done"} =>
            started[i] <= poll'[i][q].fetched /\ poll'[i][q].fetched <= now
    BY <1>1, <1>4, <1>6, <2>2 DEF TimelyAt
  <2> QED
    BY <1>1, <1>2, <1>6, <2>3 DEF TimelyAt, Deadline
<1> QED
  BY <1>5, <1>6

LEMMA TimelyNext == IInv /\ Timely /\ [Next]_vars => Timely'
<1> SUFFICES ASSUME IInv, Timely, [Next]_vars PROVE Timely'
  OBVIOUS
<1>1. CASE UNCHANGED vars
  BY <1>1 DEF vars, Timely, TimelyAt, Deadline
<1>2. CASE Tick
  BY <1>2, TimelyTick
<1>3. ASSUME NEW i \in Invocations, Trigger(i) \/ Retry(i) PROVE Timely'
  BY <1>3, TimelyBegin
<1>4. ASSUME NEW i \in Invocations, Kill(i) PROVE Timely'
  BY <1>4, TimelyEnd DEF Kill, Phases, Failed
<1>5. ASSUME NEW i \in Invocations, RecordRun(i) PROVE Timely'
  <2>1. PICK ending \in {"returned", "raised"} : End(i, ending)
    BY <1>5 DEF RecordRun
  <2> QED
    BY <1>5, <2>1, TimelyEnd DEF RecordRun, Phases, Failed
<1>6. ASSUME NEW i \in Invocations, RecordFails(i) PROVE Timely'
  BY <1>6, TimelyEnd DEF RecordFails, Phases, Failed
<1>7. ASSUME NEW i \in Invocations, NEW p \in Polls, StepOf(i, p) PROVE Timely'
  BY <1>7, TimelyThread
<1> QED
  BY <1>1, <1>2, <1>3, <1>4, <1>5, <1>6, <1>7 DEF Next, Rest

-----------------------------------------------------------------------------
(* What a day is expected to hold.                                         *)

(* Minutes enough for the first record and the last, and never more than   *)
(* a lambda's life too many.                                               *)
LEMMA MinutesNear ==
  ASSUME NEW P \in Nat \ {0}, NEW K \in Nat, NEW m \in Nat,
         NEW s \in Nat, NEW e \in Nat, s <= P * K, P * m <= e,
         e <= P * m + P * K, s <= e
  PROVE  LET n == (e - s) \div P + 1 IN
         n \in Int /\ n <= m + 1 + K /\ m + 1 <= n + K
<1> DEFINE q == (e - s) \div P
<1>1. /\ e - s \in Nat
      /\ P * m \in Nat /\ P * K \in Nat
  OBVIOUS
<1>2. q \in Int /\ P * q <= e - s /\ e - s < P * (q + 1)
  BY <1>1
<1> HIDE DEF q
<1>3. P * q <= P * m + P * K /\ P * m - P * K < P * (q + 1)
  BY <1>1, <1>2
<1>4. P * q <= P * (m + K) /\ P * m < P * (q + 1 + K)
  BY <1>1, <1>2, <1>3
<1>5. q <= m + K /\ m < q + 1 + K
  BY <1>2, <1>4
<1> QED
  BY <1>2, <1>5 DEF q

LEMMA TimesIsMonotone ==
  ASSUME NEW x \in Int, NEW y \in Int, NEW n \in Nat, x <= y
  PROVE  x * n <= y * n
OBVIOUS

LEMMA TimesDistributes ==
  ASSUME NEW x \in Int, NEW y \in Int, NEW n \in Int
  PROVE  /\ (x + y) * n = x * n + n * y
         /\ x * n \in Int /\ n * y \in Int
OBVIOUS

LEMMA NearFollows ==
  ASSUME IInv, Timely, WholeMinutes PROVE ExpectedIsNear
<1> SUFFICES ASSUME Recorded # {}, Recorded = 0..Max(Recorded),
                    \A i \in Recorded : attempt[i] = 1,
                    NEW f \in Feeds
             PROVE  LET count == FeedCounts(DayRows)[f]
                        slack == Expected(f) * (Timeout \div Period) IN
                    /\ count.expected - count.actual <= slack
                    /\ count.actual - count.expected <= slack
  BY DEF ExpectedIsNear
<1> DEFINE M == Max(Recorded)
           E == Expected(f)
           K == Timeout \div Period
           w == CollectionWindow(DayRows)
           Sent == {p \in Polls : Schedule[p].feed = f}
<1>1. TypeOK /\ Timely
  BY DEF IInv
<1>2. /\ Polls # {}
      /\ IsFiniteSet(Sent) /\ Sent \subseteq Polls /\ E = Cardinality(Sent) /\ E \in Nat
  BY FS_Subset, ExpectedType, CollectorAssumption
     DEF CollectorAssumption, Feeds, Expected
<1>3. M \in Nat /\ M \in Recorded /\ 0 \in Recorded /\ Recorded = 0..M
  <2>1. Recorded \in SUBSET Int
    BY CollectorAssumption DEF Recorded, Invocations, CollectorAssumption
  <2>2. M \in Recorded
    BY <1>1, <2>1, KeptIs, MaxIs
  <2>3. M \in Int
    BY <2>1, <2>2
  <2>4. Recorded = 0..M
    OBVIOUS
  <2> HIDE DEF M
  <2>5. M \in Nat /\ 0 \in 0..M
    BY <2>2, <2>3, <2>4
  <2> QED
    BY <2>2, <2>4, <2>5
<1>4. /\ Period \in Nat \ {0} /\ Timeout \in Nat /\ K \in Nat
      /\ Timeout = Period * K
  BY CollectorAssumption DEF CollectorAssumption, WholeMinutes
<1>5. \A k \in Kept :
        /\ k[1] \in Nat /\ k[1] <= M
        /\ trail[k[1]][k[2]].fetched \in Nat
        /\ Period * k[1] <= trail[k[1]][k[2]].fetched
        /\ trail[k[1]][k[2]].fetched <= Period * k[1] + Timeout
  <2> SUFFICES ASSUME NEW k \in Kept
               PROVE  /\ k[1] \in Nat /\ k[1] <= M
                      /\ trail[k[1]][k[2]].fetched \in Nat
                      /\ Period * k[1] <= trail[k[1]][k[2]].fetched
                      /\ trail[k[1]][k[2]].fetched <= Period * k[1] + Timeout
    OBVIOUS
  <2>1. /\ k[1] \in Invocations /\ k[1] \in Recorded /\ k[2] \in Polls
        /\ trail[k[1]][k[2]] \in Entries
    BY <1>1, KeptIs
  <2>2. attempt[k[1]] = 1 /\ trail[k[1]] # NoRecord /\ TimelyAt(k[1])
    BY <1>1, <2>1 DEF Recorded, Timely
  <2>3. /\ Period * k[1] <= trail[k[1]][k[2]].fetched
        /\ trail[k[1]][k[2]].fetched <= Period * k[1] + Timeout
    BY <2>1, <2>2 DEF TimelyAt, Deadline
  <2>4. trail[k[1]][k[2]].fetched \in Nat
    BY <2>1, CollectorAssumption DEF Entries, Seconds, CollectorAssumption
  <2>5. k[1] \in 0..M
    BY <1>3, <2>1
  <2> HIDE DEF M
  <2> QED
    BY <1>3, <2>3, <2>4, <2>5
<1>6. PICK p0 \in Polls : TRUE
  BY <1>2
<1>7. /\ <<0, p0>> \in Kept /\ <<M, p0>> \in Kept
  BY <1>3, <1>6 DEF Kept
<1>8. /\ w.start \in Nat /\ w.end \in Nat /\ w.start <= w.end
      /\ w.minutes = (w.end - w.start) \div Period + 1
      /\ w.start <= Period * K
      /\ Period * M <= w.end
      /\ w.end <= Period * M + Period * K
  <2> HIDE DEF M, K, w
  <2>1. /\ w.start \in Nat /\ w.end \in Nat /\ w.start <= w.end
        /\ w.minutes = (w.end - w.start) \div Period + 1
        /\ \A k \in Kept : /\ w.start <= trail[k[1]][k[2]].fetched
                           /\ trail[k[1]][k[2]].fetched <= w.end
        /\ \E k \in Kept : w.end = trail[k[1]][k[2]].fetched
    BY <1>1, <1>7, WindowIs, CollectorAssumption
       DEF CollectorAssumption, Seconds, w
  <2>2. w.start <= trail[0][p0].fetched /\ trail[0][p0].fetched <= Timeout
        /\ trail[0][p0].fetched \in Nat
    <3>1. /\ w.start <= trail[0][p0].fetched
          /\ trail[0][p0].fetched <= Period * 0 + Timeout
          /\ trail[0][p0].fetched \in Nat
      BY <1>5, <1>7, <2>1, Zenon
    <3> QED
      BY <1>4, <3>1
  <2>3. Period * M <= trail[M][p0].fetched /\ trail[M][p0].fetched <= w.end
        /\ trail[M][p0].fetched \in Nat
    BY <1>5, <1>7, <2>1, Zenon
  <2>4. PICK k \in Kept : w.end = trail[k[1]][k[2]].fetched
    BY <2>1
  <2>5. k[1] \in Nat /\ k[1] <= M /\ w.end <= Period * k[1] + Timeout
    BY <1>5, <2>4
  <2>6. Period * k[1] <= Period * M /\ Period * k[1] \in Nat /\ Period * M \in Nat
    BY <1>3, <1>4, <2>5
  <2> DEFINE last == Period * M
             own == Period * k[1]
             first == trail[0][p0].fetched
             final == trail[M][p0].fetched
  <2>7. w.start \in Nat /\ w.end \in Nat /\ Timeout \in Nat
    BY <1>4, <2>1
  <2>8. /\ own <= last /\ own \in Nat /\ last \in Nat
        /\ w.start <= first /\ first <= Timeout /\ first \in Nat
        /\ last <= final /\ final <= w.end /\ final \in Nat
        /\ w.end <= own + Timeout
    BY <2>2, <2>3, <2>5, <2>6
  <2> HIDE DEF last, own, first, final
  <2>9. w.start <= Timeout /\ last <= w.end /\ w.end <= last + Timeout
    BY <2>7, <2>8
  <2>10. Timeout = Period * K
    BY <1>4
  <2> QED
    BY <2>1, <2>9, <2>10 DEF last
<1>9. /\ w.minutes \in Int
      /\ w.minutes <= M + 1 + K /\ M + 1 <= w.minutes + K
  <2> HIDE DEF M, K, w
  <2> DEFINE n == (w.end - w.start) \div Period + 1
  <2>1. n \in Int /\ n <= M + 1 + K /\ M + 1 <= n + K
    BY <1>3, <1>4, <1>8, MinutesNear, Zenon
  <2> HIDE DEF n
  <2>2. w.minutes = n
    BY <1>8 DEF n
  <2> QED
    BY <2>1, <2>2
<1>10. Cardinality({k \in DOMAIN DayRows : DayRows[k].feed = f}) = (M + 1) * E
  <2>1. {k \in DOMAIN DayRows : DayRows[k].feed = f} = Recorded \X Sent
    <3>1. \A k \in Kept : DayRows[k].feed = f <=> k[2] \in Sent
      BY <1>1, DayRowsAre, KeptIs
    <3>2. Kept = Recorded \X Polls
      BY DEF Kept
    <3> QED
      BY <1>1, <1>2, <3>1, <3>2, DayRowsAre
  <2> HIDE DEF M, E, Sent
  <2>2. IsFiniteSet(0..M) /\ Cardinality(0..M) = M + 1
    BY <1>3, FS_Interval
  <2>3. Cardinality(Recorded \X Sent) = Cardinality(Recorded) * Cardinality(Sent)
    BY <1>2, <1>3, <2>2, FS_Product
  <2> QED
    BY <1>2, <1>3, <2>1, <2>2, <2>3
<1>11. /\ FeedCounts(DayRows)[f].actual = (M + 1) * E
       /\ FeedCounts(DayRows)[f].expected = w.minutes * E
  <2>1. DOMAIN DayRows # {}
    BY <1>1, <1>7, DayRowsAre
  <2>2. FeedCounts(DayRows)[f] =
          [actual |-> Cardinality({k \in DOMAIN DayRows : DayRows[k].feed = f}),
           expected |-> w.minutes * E]
    BY <2>1 DEF FeedCounts
  <2> HIDE DEF w, E, M
  <2> QED
    BY <1>10, <2>2
<1> HIDE DEF M, E, K, w
<1>12. w.minutes * E <= (M + 1 + K) * E /\ (M + 1) * E <= (w.minutes + K) * E
  <2>1. /\ w.minutes \in Int /\ M + 1 + K \in Int /\ M + 1 \in Int
        /\ w.minutes + K \in Int /\ E \in Nat
    BY <1>2, <1>3, <1>4, <1>9
  <2> QED
    BY <1>9, <2>1, TimesIsMonotone, Zenon
<1>13. /\ (M + 1 + K) * E = (M + 1) * E + E * K
       /\ (w.minutes + K) * E = w.minutes * E + E * K
       /\ (M + 1) * E \in Int /\ w.minutes * E \in Int /\ E * K \in Int
  <2>1. M + 1 \in Int /\ K \in Int /\ E \in Int /\ w.minutes \in Int
    BY <1>2, <1>3, <1>4, <1>9
  <2>2. /\ (M + 1 + K) * E = (M + 1) * E + E * K
        /\ (M + 1) * E \in Int /\ E * K \in Int
    BY <2>1, TimesDistributes, Zenon
  <2>3. /\ (w.minutes + K) * E = w.minutes * E + E * K
        /\ w.minutes * E \in Int
    BY <2>1, TimesDistributes, Zenon
  <2> QED
    BY <2>2, <2>3, Zenon
<1>14. /\ w.minutes * E - (M + 1) * E <= E * K
       /\ (M + 1) * E - w.minutes * E <= E * K
  <2> DEFINE expected == w.minutes * E
             actual   == (M + 1) * E
             slack    == E * K
             most     == (M + 1 + K) * E
             least    == (w.minutes + K) * E
  <2>1. expected <= most /\ actual <= least
    BY <1>12, Zenon
  <2>2. most = actual + slack /\ least = expected + slack
    BY <1>13, Zenon
  <2>3. expected \in Int /\ actual \in Int /\ slack \in Int
    BY <1>13, Zenon
  <2> HIDE DEF expected, actual, slack, most, least
  <2>4. expected - actual <= slack /\ actual - expected <= slack
    BY <2>1, <2>2, <2>3
  <2> QED
    BY <2>4, Zenon DEF expected, actual, slack
<1> QED
  BY <1>11, <1>14 DEF E, K

(* A minute of the observed window that is not put down as short has every *)
(* vehicle poll it should, in the bucket, for any schedule, crashes,       *)
(* failures and retries, on a day whose labels do not repeat               *)
(* (_coverage_summary).                                                    *)
THEOREM LossIsShown == ASSUME OneFace PROVE Spec => []LossShows
<1>1. IInv => LossShows
  BY LossFollows DEF IInv
<1> QED
  BY <1>1, InductiveInvariant, PTL

(* A minute whose polls were all made in it and kept is never put down as  *)
(* short, not even where HH:MM repeats (_coverage_summary).                *)
THEOREM ShortMinutesAreShort == Spec => []GapsAreReal
<1>1. IInv => GapsAreReal
  BY GapsFollow DEF IInv
<1> QED
  BY <1>1, InductiveInvariant, PTL

(* When every invocation so far left its record at the first attempt, a    *)
(* feed's expected polls are its actual ones but for those of the minutes  *)
(* one invocation may live, for any schedule and any delays                *)
(* (_feed_counts, _collection_window).                                     *)
THEOREM ExpectedStaysNear == ASSUME WholeMinutes PROVE Spec => []ExpectedIsNear
<1>1. IInv /\ Timely => ExpectedIsNear
  BY NearFollows
<1>2. IInv /\ Timely /\ [Next]_vars => (IInv /\ Timely)'
  BY NextKeepsIInv, TimelyNext
<1> QED
  BY <1>1, <1>2, InitIInv, TimelyInit, PTL DEF Spec
=============================================================================
