------------------------ MODULE ScheduleLoaderProofs ------------------------
(***************************************************************************)
(* Proofs about ScheduleLoader, for any bundles, any number of runs at     *)
(* once and any length of a day.  What is on record is put long after what *)
(* it vouches for, so the invariant follows each run: nothing of its       *)
(* snapshot exists before it puts it (Untouched), what it has put so far   *)
(* is exactly what it says (InHand), and no other run has its label        *)
(* (OwnLabel).                                                             *)
(***************************************************************************)
EXTENDS ScheduleLoader, FiniteLemmas

(* The dimensions before the nth.                                          *)
Done(n) == {Dimensions[i] : i \in 1..(n - 1)}

(* All of them, as Complete has them.                                      *)
AllDimensions == {Dimensions[i] : i \in DOMAIN Dimensions}

LEMMA DimensionsDiffer ==
  /\ DOMAIN Dimensions = 1..8
  /\ \A i, j \in 1..8 : i # j => Dimensions[i] # Dimensions[j]
BY DEF Dimensions

LEMMA DoneGrows ==
  ASSUME NEW n \in 1..8
  PROVE  /\ Done(n + 1) = Done(n) \union {Dimensions[n]}
         /\ Dimensions[n] \notin Done(n)
<1>1. 1..(n + 1 - 1) = 1..(n - 1) \union {n}
  OBVIOUS
<1>2. Done(n + 1) = Done(n) \union {Dimensions[n]}
  BY <1>1 DEF Done
<1>3. Dimensions[n] \notin Done(n)
  BY DimensionsDiffer DEF Done
<1> QED
  BY <1>2, <1>3

LEMMA DoneAll == Done(9) = AllDimensions
BY DimensionsDiffer DEF Done, AllDimensions

-----------------------------------------------------------------------------
(* The inductive invariant.                                                *)

Active(r) == ~At(r, "idle")

OwnLabel ==
  /\ \A r \in Loaders : Active(r) => run[r].checked < now
  /\ \A r, s \in Loaders :
       Active(r) /\ Active(s) /\ r # s => run[r].checked # run[s].checked
  /\ DOMAIN archive \subseteq 0..(now - 1)
  /\ DOMAIN snapshot \subseteq 0..(now - 1)

Untouched ==
  \A r \in Loaders :
    run[r].at \in {"fetching", "comparing", "archiving"} =>
      /\ run[r].next = 1
      /\ run[r].checked \notin DOMAIN archive
      /\ run[r].checked \notin DOMAIN snapshot

(* A snapshot holds its first dimensions, all of one bundle.               *)
Holds(l, n, b) ==
  /\ DOMAIN DimensionsAt(l) = Done(n)
  /\ \A d \in Done(n) : DimensionsAt(l)[d] = b

Captured(b) == \E l \in DOMAIN snapshot : Complete(l, b)

RunInHand(r) ==
  /\ run[r].at \in {"comparing", "archiving", "writing", "recording"} =>
       run[r].bundle \in Bundles
  /\ run[r].at \in {"archiving", "writing"} => run[r].changed
  /\ run[r].at = "writing" =>
       /\ Label(r) \in DOMAIN archive
       /\ archive[Label(r)] = run[r].bundle
       /\ Holds(Label(r), run[r].next, run[r].bundle)
  /\ run[r].at = "recording" =>
       IF run[r].changed THEN Complete(Label(r), run[r].bundle)
       ELSE Captured(run[r].bundle)

InHand == \A r \in Loaders : RunInHand(r)

Prefixes ==
  \A l \in DOMAIN snapshot : \E n \in 2..9, b \in Bundles : Holds(l, n, b)

IInv ==
  /\ TypeOK
  /\ OwnLabel
  /\ Untouched
  /\ InHand
  /\ Prefixes
  /\ RecordIsBacked

LEMMA ConstantTypes ==
  /\ Horizon \in Nat /\ Horizon > 0 /\ DayLength \in Nat /\ DayLength > 0
  /\ None \notin Bundles /\ Corrupt \subseteq Bundles
BY ScheduleLoaderAssumption

RunType ==
  [at : {"idle", "fetching", "comparing", "archiving", "writing", "recording"},
   checked : 0..Horizon, bundle : Bundles \union {None},
   changed : BOOLEAN, next : DOMAIN Dimensions]

LEMMA InitIInv == Init => IInv
<1> SUFFICES ASSUME Init PROVE IInv
  OBVIOUS
<1> USE ScheduleLoaderAssumption DEF Init
<1>1. DOMAIN archive = {} /\ DOMAIN snapshot = {}
  OBVIOUS
<1>2. \A r \in Loaders : run[r] = Idle
  OBVIOUS
<1>3. TypeOK
  <2>1. 1 \in DOMAIN Dimensions
    BY DimensionsDiffer
  <2> QED
    BY <1>1, <2>1 DEF TypeOK, Idle
<1>4. OwnLabel /\ Untouched /\ InHand
  BY <1>1, <1>2 DEF OwnLabel, Untouched, InHand, RunInHand, Active, At, Idle
<1>5. Prefixes /\ RecordIsBacked
  BY <1>1 DEF Prefixes, RecordIsBacked
<1> QED
  BY <1>3, <1>4, <1>5 DEF IInv

-----------------------------------------------------------------------------
(* Steps that leave the bucket alone.                                      *)

Bucket == <<archive, snapshot, checks>>

LEMMA BucketKept ==
  ASSUME IInv, UNCHANGED Bucket
  PROVE  /\ Prefixes' /\ RecordIsBacked'
         /\ \A l, n, b : Holds(l, n, b)' = Holds(l, n, b)
         /\ \A l, b : Complete(l, b)' = Complete(l, b)
         /\ \A b : Captured(b)' = Captured(b)
<1>0. archive' = archive /\ snapshot' = snapshot /\ checks' = checks
  BY DEF Bucket
<1>1. \A l, n, b : Holds(l, n, b)' = Holds(l, n, b)
  BY <1>0 DEF Holds, DimensionsAt
<1>2. \A l, b : Complete(l, b)' = Complete(l, b)
  BY <1>0 DEF Complete
<1>3. \A b : Captured(b)' = Captured(b)
  BY <1>0 DEF Captured, Complete
<1>4. Prefixes'
  BY <1>0, <1>1 DEF IInv, Prefixes
<1>5. RecordIsBacked'
  BY <1>0, <1>2 DEF IInv, RecordIsBacked
<1> QED
  BY <1>1, <1>2, <1>3, <1>4, <1>5

LEMMA PublishIInv ==
  ASSUME IInv, NEW b \in Bundles, Publish(b)
  PROVE  IInv'
<1> UNCHANGED <<now, run>> /\ UNCHANGED Bucket
  BY DEF Publish, Bucket
<1>1. TypeOK'
  BY DEF IInv, TypeOK, Publish, Bucket
<1>2. OwnLabel' /\ Untouched'
  BY DEF IInv, OwnLabel, Untouched, Active, At, Bucket
<1>3. InHand'
  BY BucketKept DEF IInv, InHand, RunInHand, Label, Bucket
<1> QED
  BY <1>1, <1>2, <1>3, BucketKept DEF IInv

LEMMA BeginIInv ==
  ASSUME IInv, NEW r \in Loaders, Begin(r)
  PROVE  IInv'
<1> DEFINE begun == [Idle EXCEPT !.at = "fetching", !.checked = now]
<1> UNCHANGED Bucket /\ now \in 0..Horizon /\ now < Horizon /\ now' = now + 1
  BY DEF Begin, Bucket, IInv, TypeOK
<1>1. /\ run' = [run EXCEPT ![r] = begun]
      /\ \A s \in Loaders : run'[s] = IF s = r THEN begun ELSE run[s]
  BY DEF Begin, IInv, TypeOK
<1>2. /\ begun.at = "fetching" /\ begun.checked = now /\ begun.next = 1
      /\ begun.bundle = None /\ begun.changed = FALSE
  BY DEF Idle
<1>3. TypeOK'
  <2>1. 1 \in DOMAIN Dimensions /\ 0 \in 0..Horizon
    BY DimensionsDiffer, ConstantTypes
  <2>2. begun \in RunType
    BY <2>1 DEF Idle, RunType
  <2>3. run' \in [Loaders -> RunType] /\ now' \in 0..Horizon
    <3> HIDE DEF begun
    <3>1. run \in [Loaders -> RunType]
      BY DEF IInv, TypeOK, RunType
    <3> QED
      BY <1>1, <2>2, <3>1, ConstantTypes
  <2> QED
    BY <2>3 DEF Begin, IInv, TypeOK, RunType, Bucket
<1> HIDE DEF begun
<1>4. OwnLabel'
  <2>1. \A s \in Loaders : Active(s)' => s = r \/ Active(s)
    BY <1>1 DEF Active, At
  <2>2. \A s \in Loaders : Active(s)' => run'[s].checked < now'
    BY <1>1, <1>2, <2>1 DEF IInv, TypeOK, OwnLabel
  <2>3. \A s, t \in Loaders :
          Active(s)' /\ Active(t)' /\ s # t => run'[s].checked # run'[t].checked
    BY <1>1, <1>2, <2>1 DEF IInv, TypeOK, OwnLabel
  <2> QED
    BY <2>2, <2>3 DEF IInv, OwnLabel, Bucket
<1>5. Untouched'
  BY <1>1, <1>2, ConstantTypes
     DEF IInv, TypeOK, OwnLabel, Untouched, Bucket
<1>6. InHand'
  BY <1>1, <1>2, BucketKept DEF IInv, InHand, RunInHand, Label, Bucket
<1> QED
  BY <1>3, <1>4, <1>5, <1>6, BucketKept DEF IInv

LEMMA FailIInv ==
  ASSUME IInv, NEW r \in Loaders, Fail(r)
  PROVE  IInv'
<1> UNCHANGED Bucket /\ UNCHANGED now
  BY DEF Fail, Bucket
<1>1. \A s \in Loaders : run'[s] = IF s = r THEN Idle ELSE run[s]
  BY DEF Fail, IInv, TypeOK
<1>2. TypeOK'
  <2>1. 1 \in DOMAIN Dimensions /\ 0 \in 0..Horizon
    BY DimensionsDiffer, ConstantTypes
  <2>2. Idle \in RunType
    BY <2>1 DEF Idle, RunType
  <2> QED
    BY <2>2 DEF Fail, IInv, TypeOK, RunType, Bucket
<1>3. OwnLabel' /\ Untouched'
  BY <1>1 DEF IInv, OwnLabel, Untouched, Active, At, Idle, Bucket
<1>4. InHand'
  BY <1>1, BucketKept DEF IInv, InHand, RunInHand, Label, Idle, Bucket
<1> QED
  BY <1>2, <1>3, <1>4, BucketKept DEF IInv

LEMMA FetchIInv ==
  ASSUME IInv, NEW r \in Loaders, Fetch(r)
  PROVE  IInv'
<1> DEFINE fetched == [run[r] EXCEPT !.at = "comparing", !.bundle = offered]
<1> UNCHANGED Bucket /\ UNCHANGED now /\ run[r].at = "fetching"
  BY DEF Fetch, At, Bucket
<1>0. run \in [Loaders -> RunType] /\ offered \in Bundles
  BY DEF IInv, TypeOK, RunType
<1>1. \A s \in Loaders : run'[s] = IF s = r THEN fetched ELSE run[s]
  BY <1>0 DEF Fetch
<1>2. /\ fetched.at = "comparing" /\ fetched.bundle = offered
      /\ fetched.checked = run[r].checked /\ fetched.next = run[r].next
      /\ fetched \in RunType
  BY <1>0 DEF RunType
<1>3. TypeOK'
  <2>1. run' \in [Loaders -> RunType]
    BY <1>0, <1>1, <1>2 DEF Fetch
  <2> QED
    BY <2>1 DEF Fetch, IInv, TypeOK, RunType, Bucket
<1> HIDE DEF fetched
<1>4. OwnLabel' /\ Untouched'
  BY <1>1, <1>2 DEF IInv, OwnLabel, Untouched, Active, At, Bucket
<1>5. InHand'
  BY <1>0, <1>1, <1>2, BucketKept DEF IInv, InHand, RunInHand, Label, Bucket
<1> QED
  BY <1>3, <1>4, <1>5, BucketKept DEF IInv

(* The last check is on record, and so what it vouches for was captured.   *)
LEMMA LatestCaptured ==
  ASSUME IInv, checks # {}
  PROVE  Captured(Latest)
<1> DEFINE times == {c.at : c \in checks}
<1>1. times \in SUBSET (0..Horizon) /\ times # {}
  BY ConstantTypes DEF IInv, TypeOK
<1>2. PICK t \in times : \A u \in times : t >= u
  <2> HIDE DEF times
  <2> QED  BY <1>1, GreatestExists, ConstantTypes
<1>3. \E c \in checks : \A d \in checks : d.at <= c.at
  BY <1>1, <1>2
<1>4. PICK c \in checks : Latest = c.bundle
  BY <1>3 DEF Latest
<1>5. \E l \in DOMAIN snapshot : Complete(l, c.bundle)
  BY <1>4 DEF IInv, RecordIsBacked, Complete
<1> QED
  BY <1>4, <1>5 DEF Captured

LEMMA CompareIInv ==
  ASSUME IInv, NEW r \in Loaders, Compare(r)
  PROVE  IInv'
<1> DEFINE changed  == run[r].bundle # Latest
           compared == [run[r] EXCEPT
             !.changed = changed,
             !.at = IF changed THEN "archiving" ELSE "recording"]
<1> UNCHANGED Bucket /\ UNCHANGED now /\ run[r].at = "comparing"
  BY DEF Compare, At, Bucket
<1>0. run \in [Loaders -> RunType]
  BY DEF IInv, TypeOK, RunType
<1>1. \A s \in Loaders : run'[s] = IF s = r THEN compared ELSE run[s]
  BY <1>0 DEF Compare
<1>2. /\ compared.at = IF changed THEN "archiving" ELSE "recording"
      /\ compared.changed = changed
      /\ compared.bundle = run[r].bundle
      /\ compared.checked = run[r].checked /\ compared.next = run[r].next
      /\ compared \in RunType
  BY <1>0 DEF RunType
<1>3. TypeOK'
  <2>1. run' \in [Loaders -> RunType]
    BY <1>0, <1>1, <1>2 DEF Compare
  <2> QED
    BY <2>1 DEF Compare, IInv, TypeOK, RunType, Bucket
<1>4. run[r].bundle \in Bundles
  BY DEF IInv, InHand, RunInHand
<1>5. ~changed => Captured(run[r].bundle)
  BY <1>4, LatestCaptured, ConstantTypes DEF Latest
<1> HIDE DEF compared, changed
<1>6. OwnLabel' /\ Untouched'
  BY <1>1, <1>2 DEF IInv, OwnLabel, Untouched, Active, At, Bucket
<1>7. InHand'
  BY <1>1, <1>2, <1>4, <1>5, BucketKept DEF IInv, InHand, RunInHand, Label, Bucket
<1> QED
  BY <1>3, <1>6, <1>7, BucketKept DEF IInv

-----------------------------------------------------------------------------
(* Steps that put something.                                               *)

LEMMA ArchiveIInv ==
  ASSUME IInv, NEW r \in Loaders, ArchiveBundle(r)
  PROVE  IInv'
<1> DEFINE L     == Label(r)
           moved == [run[r] EXCEPT !.at = "writing"]
<1> /\ UNCHANGED now /\ UNCHANGED snapshot /\ UNCHANGED checks
    /\ run[r].at = "archiving"
  BY DEF ArchiveBundle, At
<1>0. run \in [Loaders -> RunType] /\ run[r].bundle \in Bundles
  BY DEF IInv, TypeOK, RunType, InHand, RunInHand
<1>1. \A s \in Loaders : run'[s] = IF s = r THEN moved ELSE run[s]
  BY <1>0 DEF ArchiveBundle
<1>2. /\ moved.at = "writing" /\ moved.changed = run[r].changed
      /\ moved.bundle = run[r].bundle
      /\ moved.checked = run[r].checked /\ moved.next = run[r].next
      /\ moved \in RunType
  BY <1>0 DEF RunType
<1>3. /\ L = run[r].checked /\ L \notin DOMAIN archive
      /\ L \notin DOMAIN snapshot /\ run[r].next = 1 /\ run[r].changed
      /\ L < now /\ L \in 0..(Horizon - 1)
  <2>1. now \in 0..Horizon /\ run[r].checked \in 0..Horizon
    BY <1>0 DEF RunType, IInv, TypeOK
  <2>2. run[r].checked < now
    BY DEF IInv, OwnLabel, Active, At
  <2> QED
    BY <2>1, <2>2, ConstantTypes DEF IInv, Untouched, InHand, RunInHand, Label
<1>4. /\ DOMAIN archive' = DOMAIN archive \union {L}
      /\ archive'[L] = run[r].bundle
      /\ \A l \in DOMAIN archive : archive'[l] = archive[l]
  BY <1>3 DEF ArchiveBundle
<1>5. TypeOK'
  <2>1. run' \in [Loaders -> RunType]
    BY <1>0, <1>1, <1>2 DEF ArchiveBundle
  <2>2. DOMAIN archive' \subseteq 0..(Horizon - 1)
    BY <1>3, <1>4 DEF IInv, TypeOK
  <2>3. \A l \in DOMAIN archive' : archive'[l] \in Bundles
    BY <1>0, <1>4 DEF IInv, TypeOK
  <2> QED
    BY <2>1, <2>2, <2>3 DEF ArchiveBundle, IInv, TypeOK, RunType
<1>6. /\ \A l, b : Complete(l, b) => Complete(l, b)'
      /\ \A b : Captured(b) => Captured(b)'
  BY <1>4 DEF Complete, Captured
<1>7. \A l, n, b : Holds(l, n, b)' = Holds(l, n, b)
  BY DEF Holds, DimensionsAt
<1>8. Holds(L, 1, run[r].bundle)
  BY <1>3 DEF Holds, DimensionsAt, Done
<1> HIDE DEF moved
<1>9. OwnLabel'
  <2>1. \A s \in Loaders : Active(s)' = Active(s)
    BY <1>1, <1>2 DEF Active, At
  <2>2. DOMAIN archive' \subseteq 0..(now' - 1)
    BY <1>3, <1>4 DEF IInv, OwnLabel, TypeOK
  <2> QED
    BY <1>1, <1>2, <2>1, <2>2 DEF IInv, OwnLabel
<1>10. Untouched'
  <2> SUFFICES ASSUME NEW s \in Loaders,
                      run'[s].at \in {"fetching", "comparing", "archiving"}
               PROVE  /\ run'[s].next = 1
                      /\ run'[s].checked \notin DOMAIN archive'
                      /\ run'[s].checked \notin DOMAIN snapshot'
    BY DEF Untouched
  <2>1. s # r /\ run'[s] = run[s]
    BY <1>1, <1>2
  <2>2. run[s].checked # run[r].checked
    BY <2>1 DEF IInv, OwnLabel, Active, At
  <2> QED
    BY <1>3, <1>4, <2>1, <2>2 DEF IInv, Untouched
<1>11. InHand'
  <2> SUFFICES ASSUME NEW s \in Loaders PROVE RunInHand(s)'
    BY DEF InHand
  <2>1. CASE s = r
    <3>1. /\ run'[s].at = "writing" /\ run'[s].changed
          /\ run'[s].bundle = run[r].bundle /\ run'[s].bundle \in Bundles
          /\ run'[s].next = 1 /\ run'[s].checked = L
      BY <2>1, <1>0, <1>1, <1>2, <1>3
    <3>2. /\ Label(s)' \in DOMAIN archive'
          /\ archive'[Label(s)'] = run'[s].bundle
      BY <3>1, <1>4 DEF Label
    <3>3. Holds(Label(s), run[s].next, run[s].bundle)'
      BY <3>1, <1>8 DEF Holds, DimensionsAt, Label
    <3> QED
      BY <3>1, <3>2, <3>3 DEF RunInHand
  <2>2. CASE s # r
    <3>1. run'[s] = run[s]
      BY <2>2, <1>1
    <3>2. RunInHand(s)
      BY DEF IInv, InHand
    <3> QED
      BY <3>1, <3>2, <1>4, <1>6, <1>7 DEF RunInHand, Label
  <2> QED
    BY <2>1, <2>2
<1>12. Prefixes'
  BY <1>7 DEF IInv, Prefixes
<1>13. RecordIsBacked'
  BY <1>6 DEF IInv, RecordIsBacked
<1> QED
  BY <1>5, <1>9, <1>10, <1>11, <1>12, <1>13 DEF IInv

LEMMA WriteIInv ==
  ASSUME IInv, NEW r \in Loaders, WriteDimension(r)
  PROVE  IInv'
<1> DEFINE L     == run[r].checked
           n     == run[r].next
           b     == run[r].bundle
           moved == IF n = 8 THEN [run[r] EXCEPT !.at = "recording"]
                    ELSE [run[r] EXCEPT !.next = n + 1]
<1> /\ UNCHANGED now /\ UNCHANGED archive /\ UNCHANGED checks
    /\ UNCHANGED offered /\ run[r].at = "writing"
  BY DEF WriteDimension, Put, At
<1>0. /\ run \in [Loaders -> RunType] /\ b \in Bundles \ Corrupt /\ n \in 1..8
      /\ run[r].changed /\ L \in DOMAIN archive /\ archive[L] = b
      /\ Holds(L, n, b) /\ L < now /\ L \in 0..(now - 1)
  <2>1. RunInHand(r) /\ b \notin Corrupt
    BY DEF IInv, InHand, WriteDimension, Put
  <2>2. run \in [Loaders -> RunType] /\ n \in 1..8
    BY DimensionsDiffer DEF IInv, TypeOK, RunType
  <2>3. L \in 0..(now - 1)
    BY <2>1 DEF IInv, OwnLabel, RunInHand, Label
  <2> QED
    BY <2>1, <2>2, <2>3 DEF RunInHand, Label, IInv, OwnLabel, Active, At
<1>1. \A s \in Loaders : run'[s] = IF s = r THEN moved ELSE run[s]
  <2>1. Len(Dimensions) = 8
    BY DEF Dimensions
  <2>2. run' = [run EXCEPT ![r] =
                  IF n = Len(Dimensions) THEN [run[r] EXCEPT !.at = "recording"]
                  ELSE [run[r] EXCEPT !.next = n + 1]]
    BY DEF WriteDimension
  <2>3. run' = [run EXCEPT ![r] = moved]
    BY <2>1, <2>2
  <2> HIDE DEF moved
  <2> QED
    BY <1>0, <2>3
<1>2. /\ moved.at = IF n = 8 THEN "recording" ELSE "writing"
      /\ moved.next = IF n = 8 THEN 8 ELSE n + 1
      /\ moved.changed = run[r].changed /\ moved.bundle = b
      /\ moved.checked = L /\ moved \in RunType
  <2>1. run[r] \in RunType
    BY <1>0
  <2>2. CASE n = 8
    BY <2>1, <2>2 DEF RunType
  <2>3. CASE n # 8
    <3>1. n + 1 \in DOMAIN Dimensions
      BY <2>3, <1>0, DimensionsDiffer
    <3> QED
      BY <2>1, <2>3, <3>1 DEF RunType
  <2> QED
    BY <2>2, <2>3
<1>3. /\ DOMAIN snapshot' = DOMAIN snapshot \union {L}
      /\ snapshot'[L] = WithDimension(L, Dimensions[n], b)
      /\ \A l \in DOMAIN snapshot : l # L => snapshot'[l] = snapshot[l]
  BY DEF WriteDimension, Put, Label
<1>4. /\ snapshot'[L] = [d \in Done(n + 1) |-> b]
  <2>1. DOMAIN DimensionsAt(L) \union {Dimensions[n]} = Done(n + 1)
    BY <1>0, DoneGrows DEF Holds
  <2>2. \A d \in Done(n) : d # Dimensions[n] /\ snapshot[L][d] = b
    BY <1>0, DoneGrows DEF Holds, DimensionsAt
  <2>3. \A d \in Done(n + 1) : d = Dimensions[n] \/ d \in Done(n)
    BY <1>0, DoneGrows
  <2> QED
    BY <1>3, <2>1, <2>2, <2>3 DEF WithDimension
<1> HIDE DEF moved
<1>5. \A l, k, a : l # L => Holds(l, k, a)' = Holds(l, k, a)
  <2>1. \A l : l # L => DimensionsAt(l)' = DimensionsAt(l)
    BY <1>3 DEF DimensionsAt
  <2> QED
    BY <2>1 DEF Holds
<1>6. \A l, a : Complete(l, a) => l # L
  <2> SUFFICES ASSUME NEW a, Complete(L, a) PROVE FALSE
    OBVIOUS
  <2>1. DimensionsAt(L) = [d \in AllDimensions |-> a]
    BY DEF Complete, DimensionsAt, AllDimensions
  <2>2. Dimensions[n] \in AllDimensions /\ Dimensions[n] \notin Done(n)
    BY <1>0, DimensionsDiffer, DoneGrows DEF AllDimensions
  <2> QED
    BY <1>0, <2>1, <2>2 DEF Holds
<1>7. \A l, a : Complete(l, a) => Complete(l, a)'
  BY <1>3, <1>6 DEF Complete
<1>8. \A a : Captured(a) => Captured(a)'
  BY <1>3, <1>7 DEF Captured
<1>9. TypeOK'
  <2>1. run' \in [Loaders -> RunType]
    BY <1>0, <1>1, <1>2 DEF WriteDimension
  <2>2. \A l \in DOMAIN snapshot' : \A d \in DOMAIN snapshot'[l] :
          snapshot'[l][d] \in Bundles \ Corrupt
    <3> SUFFICES ASSUME NEW l \in DOMAIN snapshot',
                        NEW d \in DOMAIN snapshot'[l]
                 PROVE  snapshot'[l][d] \in Bundles \ Corrupt
      OBVIOUS
    <3>1. CASE l = L
      BY <3>1, <1>0, <1>4
    <3>2. CASE l # L
      BY <3>2, <1>3 DEF IInv, TypeOK
    <3> QED
      BY <3>1, <3>2
  <2> QED
    BY <2>1, <2>2 DEF IInv, TypeOK, RunType
<1>10. OwnLabel'
  <2>1. \A s \in Loaders : Active(s)' = Active(s)
    BY <1>1, <1>2 DEF Active, At
  <2>2. DOMAIN snapshot' \subseteq 0..(now' - 1)
    BY <1>0, <1>3 DEF IInv, OwnLabel
  <2> QED
    BY <1>1, <1>2, <2>1, <2>2 DEF IInv, OwnLabel
<1>11. Untouched'
  <2> SUFFICES ASSUME NEW s \in Loaders,
                      run'[s].at \in {"fetching", "comparing", "archiving"}
               PROVE  /\ run'[s].next = 1
                      /\ run'[s].checked \notin DOMAIN archive'
                      /\ run'[s].checked \notin DOMAIN snapshot'
    BY DEF Untouched
  <2>1. s # r /\ run'[s] = run[s]
    BY <1>1, <1>2
  <2>2. run[s].checked # L
    BY <2>1 DEF IInv, OwnLabel, Active, At
  <2> QED
    BY <1>3, <2>1, <2>2 DEF IInv, Untouched
<1>12. RunInHand(r)'
  <2>1. CASE n = 8
    <3>1. Complete(Label(r), run[r].bundle)'
      BY <2>1, <1>0, <1>1, <1>2, <1>3, <1>4, DoneAll
         DEF Complete, AllDimensions, Label
    <3>2. /\ run'[r].at = "recording" /\ run'[r].changed
          /\ run'[r].bundle \in Bundles
      BY <2>1, <1>0, <1>1, <1>2
    <3> QED
      BY <3>1, <3>2 DEF RunInHand
  <2>2. CASE n # 8
    <3>1. /\ run'[r].at = "writing" /\ run'[r].changed /\ run'[r].checked = L
          /\ run'[r].bundle = b /\ run'[r].next = n + 1
      BY <2>2, <1>0, <1>1, <1>2
    <3>2. Holds(Label(r), run[r].next, run[r].bundle)'
      BY <3>1, <1>3, <1>4 DEF Holds, DimensionsAt, Label
    <3> QED
      BY <3>1, <3>2, <1>0 DEF RunInHand, Label
  <2> QED
    BY <2>1, <2>2
<1>13. InHand'
  <2> SUFFICES ASSUME NEW s \in Loaders, s # r PROVE RunInHand(s)'
    BY <1>12 DEF InHand
  <2>1. run'[s] = run[s] /\ RunInHand(s)
    BY <1>1 DEF IInv, InHand
  <2>2. run[s].at = "writing" => run[s].checked # L
    BY DEF IInv, OwnLabel, Active, At
  <2> QED
    BY <2>1, <2>2, <1>5, <1>7, <1>8 DEF RunInHand, Label
<1>14. Prefixes'
  <2> SUFFICES ASSUME NEW l \in DOMAIN snapshot'
               PROVE  \E k \in 2..9, a \in Bundles : Holds(l, k, a)'
    BY DEF Prefixes
  <2>1. CASE l = L
    <3>1. PICK k \in 2..9, a \in Bundles : k = n + 1 /\ a = b
      BY <1>0
    <3>2. Holds(l, k, a)'
      BY <2>1, <3>1, <1>3, <1>4 DEF Holds, DimensionsAt
    <3> QED
      BY <3>2
  <2>2. CASE l # L
    BY <2>2, <1>3, <1>5 DEF IInv, Prefixes
  <2> QED
    BY <2>1, <2>2
<1>15. RecordIsBacked'
  <2> SUFFICES ASSUME NEW c \in checks
               PROVE  IF c.changed THEN Complete(c.label, c.bundle)'
                      ELSE \E l \in DOMAIN snapshot' : Complete(l, c.bundle)'
    BY DEF RecordIsBacked
  <2> QED
    BY <1>3, <1>7 DEF IInv, RecordIsBacked
<1> QED
  BY <1>9, <1>10, <1>11, <1>13, <1>14, <1>15 DEF IInv

LEMMA PutCheckIInv ==
  ASSUME IInv, NEW r \in Loaders, PutCheck(r)
  PROVE  IInv'
<1> DEFINE check == [at |-> run[r].checked, bundle |-> run[r].bundle,
                     changed |-> run[r].changed,
                     label |-> IF run[r].changed THEN Label(r) ELSE NoLabel]
<1> /\ UNCHANGED now /\ UNCHANGED archive /\ UNCHANGED snapshot
    /\ UNCHANGED offered /\ run[r].at = "recording"
  BY DEF PutCheck, At
<1>0. /\ run \in [Loaders -> RunType] /\ RunInHand(r)
      /\ run[r].checked \in 0..(Horizon - 1)
  <2>1. run \in [Loaders -> RunType] /\ RunInHand(r) /\ now \in 0..Horizon
    BY DEF IInv, TypeOK, RunType, InHand
  <2>2. run[r].checked \in 0..Horizon /\ run[r].checked < now
    BY <2>1 DEF RunType, IInv, OwnLabel, Active, At
  <2> QED
    BY <2>1, <2>2, ConstantTypes
<1>1. \A s \in Loaders : run'[s] = IF s = r THEN Idle ELSE run[s]
  BY <1>0 DEF PutCheck
<1>2. checks' = checks \union {check}
  BY DEF PutCheck
<1>3. /\ \A l, n, b : Holds(l, n, b)' = Holds(l, n, b)
      /\ \A l, b : Complete(l, b)' = Complete(l, b)
      /\ \A b : Captured(b)' = Captured(b)
  BY DEF Holds, DimensionsAt, Complete, Captured
<1>4. TypeOK'
  <2>1. 1 \in DOMAIN Dimensions /\ 0 \in 0..Horizon
    BY DimensionsDiffer, ConstantTypes
  <2>2. Idle \in RunType
    BY <2>1 DEF Idle, RunType
  <2>3. run' \in [Loaders -> RunType]
    BY <1>0, <2>2 DEF PutCheck
  <2>4. check.at \in 0..(Horizon - 1) /\ check.bundle \in Bundles
    BY <1>0 DEF RunInHand
  <2> QED
    BY <1>2, <2>3, <2>4 DEF IInv, TypeOK, RunType
<1>5. OwnLabel' /\ Untouched'
  BY <1>1 DEF IInv, OwnLabel, Untouched, Active, At, Idle
<1>6. InHand'
  BY <1>1, <1>3 DEF IInv, InHand, RunInHand, Label, Idle
<1>7. Prefixes'
  BY <1>3 DEF IInv, Prefixes
<1>8. IF check.changed THEN Complete(check.label, check.bundle)
      ELSE Captured(check.bundle)
  BY <1>0 DEF RunInHand
<1>9. RecordIsBacked'
  <2> SUFFICES ASSUME NEW c \in checks'
               PROVE  IF c.changed THEN Complete(c.label, c.bundle)'
                      ELSE \E l \in DOMAIN snapshot : Complete(l, c.bundle)'
    BY DEF RecordIsBacked
  <2> HIDE DEF check
  <2>1. CASE c = check
    BY <2>1, <1>3, <1>8 DEF Captured
  <2>2. CASE c \in checks
    BY <2>2, <1>3 DEF IInv, RecordIsBacked
  <2> QED
    BY <2>1, <2>2, <1>2
<1> QED
  BY <1>4, <1>5, <1>6, <1>7, <1>9 DEF IInv

-----------------------------------------------------------------------------
(* What is proved.                                                         *)

LEMMA NextIInv == IInv /\ [Next]_vars => IInv'
<1> SUFFICES ASSUME IInv, [Next]_vars PROVE IInv'
  OBVIOUS
<1>1. ASSUME NEW b \in Bundles \ {offered}, Publish(b) PROVE IInv'
  BY <1>1, PublishIInv
<1>2. ASSUME NEW r \in Loaders, LoaderStep(r) PROVE IInv'
  BY <1>2, BeginIInv, FetchIInv, CompareIInv, ArchiveIInv, WriteIInv,
     PutCheckIInv, FailIInv DEF LoaderStep
<1>3. CASE UNCHANGED vars
  <2> UNCHANGED <<now, offered, run>> /\ UNCHANGED Bucket
    BY <1>3 DEF vars, Bucket
  <2>1. TypeOK'
    BY DEF IInv, TypeOK, Bucket
  <2>2. OwnLabel' /\ Untouched'
    BY DEF IInv, OwnLabel, Untouched, Active, At, Bucket
  <2>3. InHand'
    BY BucketKept DEF IInv, InHand, RunInHand, Label, Bucket
  <2> QED
    BY <2>1, <2>2, <2>3, BucketKept DEF IInv
<1> QED
  BY <1>1, <1>2, <1>3 DEF Next, Rest

(* Every variable of the loader keeps its type (ScheduleLoader).           *)
THEOREM TypeCorrect == Spec => []TypeOK
<1>1. IInv => TypeOK
  BY DEF IInv
<1> QED
  BY <1>1, InitIInv, NextIInv, PTL DEF Spec

(* Every timetable on record was captured whole, whatever runs failed,     *)
(* were tried again or overlapped (handler's order of puts).               *)
THEOREM WhatIsOnRecordIsBacked == Spec => []RecordIsBacked
<1>1. IInv => RecordIsBacked
  BY DEF IInv
<1> QED
  BY <1>1, InitIInv, NextIInv, PTL DEF Spec

(* Nothing archived or put under a label is ever replaced by anything else *)
(* (snapshot_label).                                                       *)
THEOREM NothingIsOverwritten == Spec => NeverOverwritten
<1> DEFINE Kept ==
      /\ \A l \in DOMAIN archive : archive'[l] = archive[l]
      /\ \A l \in DOMAIN snapshot : \A d \in DOMAIN snapshot[l] :
           snapshot'[l][d] = snapshot[l][d]
<1>1. ASSUME IInv, [Next]_vars PROVE [Kept]_<<archive, snapshot>>
  <2>1. ASSUME NEW r \in Loaders, ArchiveBundle(r) PROVE Kept
    <3>1. Label(r) \notin DOMAIN archive
      BY <1>1, <2>1 DEF ArchiveBundle, At, IInv, Untouched, Label
    <3> QED
      BY <2>1, <3>1 DEF ArchiveBundle
  <2>2. ASSUME NEW r \in Loaders, WriteDimension(r) PROVE Kept
    <3> DEFINE n == run[r].next
    <3>1. /\ n \in 1..8 /\ DOMAIN DimensionsAt(Label(r)) = Done(n)
          /\ Put(r)
      BY <1>1, <2>2, DimensionsDiffer
         DEF IInv, TypeOK, InHand, RunInHand, Holds, WriteDimension, Put, At
    <3>2. Dimensions[n] \notin DOMAIN DimensionsAt(Label(r))
      BY <3>1, DoneGrows
    <3> QED
      BY <3>1, <3>2 DEF Put, WithDimension, DimensionsAt
  <2>3. CASE UNCHANGED <<archive, snapshot>>
    BY <2>3
  <2> QED
    BY <1>1, <2>1, <2>2, <2>3
       DEF Next, Rest, vars, Publish, LoaderStep, Begin, Fetch, Compare,
           PutCheck, Fail
<1> QED
  BY <1>1, InitIInv, NextIInv, PTL DEF Spec, NeverOverwritten

(* The merger and the marts read one timetable: a snapshot that has stop   *)
(* times has trips, and both are of one bundle (write_dimensions' order;   *)
(* valid_from_for, service_day).                                           *)
THEOREM MergerAndMartsAgree == Spec => []OneTimetable
<1> DEFINE Timed == Having({"scheduled_stop_time"})
<1>1. ASSUME IInv PROVE OneTimetable
  <2>1. /\ Dimensions[4] = "trip" /\ Dimensions[5] = "scheduled_stop_time"
        /\ \A n \in 2..9 : Dimensions[5] \in Done(n) => Dimensions[4] \in Done(n)
    <3>1. \A n \in 2..9 : Dimensions[5] \in Done(n) => n > 5
      BY DimensionsDiffer DEF Done
    <3>2. \A n \in 2..9 : n > 5 => 4 \in 1..(n - 1)
      OBVIOUS
    <3> QED
      BY <3>1, <3>2 DEF Done, Dimensions
  <2>2. ASSUME NEW l \in Timed
        PROVE  /\ "trip" \in DOMAIN snapshot[l]
               /\ snapshot[l]["trip"] = snapshot[l]["scheduled_stop_time"]
    <3>1. l \in DOMAIN snapshot /\ "scheduled_stop_time" \in DOMAIN snapshot[l]
      BY DEF Having
    <3>2. PICK n \in 2..9, b \in Bundles : Holds(l, n, b)
      BY <1>1, <3>1 DEF IInv, Prefixes
    <3> QED
      BY <3>1, <3>2, <2>1 DEF Holds, DimensionsAt
  <2>3. Having({"scheduled_stop_time", "trip"}) = Timed
    BY <2>2 DEF Having
  <2>4. \A day : TripsFor(day) = StopTimesFor(day)
    BY <2>3 DEF TripsFor, StopTimesFor
  <2>5. \A day : StopTimesFor(day) # NoLabel => StopTimesFor(day) \in Timed
    <3> SUFFICES ASSUME NEW day, StopTimesFor(day) # NoLabel
                 PROVE  InEffect(Timed, day) \in Timed
      BY DEF StopTimesFor
    <3>1. Timed \subseteq 0..Horizon
      BY <1>1, ConstantTypes DEF Having, IInv, OwnLabel, TypeOK
    <3>2. CASE Eligible(Timed, day) # {}
      <4>1. Eligible(Timed, day) \subseteq Timed
        BY DEF Eligible
      <4>2. \E m \in Eligible(Timed, day) :
              \A l \in Eligible(Timed, day) : m >= l
        BY <3>1, <3>2, <4>1, GreatestExists, ConstantTypes
      <4> QED
        BY <3>2, <4>1, <4>2 DEF InEffect, Max
    <3>3. CASE Eligible(Timed, day) = {} /\ Timed # {}
      <4>1. \E m \in Timed : \A l \in Timed : m <= l
        BY <3>1, <3>3, LeastExists
      <4> QED
        BY <3>3, <4>1 DEF InEffect, Min
    <3> QED
      BY <3>2, <3>3 DEF StopTimesFor, InEffect
  <2> QED
    BY <2>2, <2>4, <2>5 DEF OneTimetable
<1> QED
  BY <1>1, InitIInv, NextIInv, PTL DEF Spec

(* Merging a day again gives it the timetable it had: with no run of the   *)
(* day or earlier under way, whatever is put next is of a later day, and   *)
(* the snapshots the day chooses from stay as they are (valid_from_for).   *)
THEOREM ServedDaysStay == Spec => DaySettled
<1> DEFINE Timed == Having({"scheduled_stop_time"})
           Settled(day) ==
             /\ DayOf(now) > day /\ ~Pending(day)
             /\ Eligible(Timed, day) # {}
             => StopTimesFor(day)' = StopTimesFor(day)
<1>1. ASSUME IInv, [Next]_vars, NEW day \in Days PROVE Settled(day)
  <2> SUFFICES ASSUME ~Pending(day), Eligible(Timed, day) # {}
               PROVE  StopTimesFor(day)' = StopTimesFor(day)
    OBVIOUS
  <2>1. Eligible(Timed, day)' = Eligible(Timed, day)
    <3>1. ASSUME NEW r \in Loaders, WriteDimension(r)
          PROVE  Eligible(Timed, day)' = Eligible(Timed, day)
      <4>1. ~(DayOf(Label(r)) <= day)
        BY <3>1 DEF WriteDimension, Put, At, Pending, Label
      <4>2. /\ DOMAIN snapshot' = DOMAIN snapshot \union {Label(r)}
            /\ \A l \in DOMAIN snapshot : l # Label(r) => snapshot'[l] = snapshot[l]
        BY <3>1 DEF WriteDimension, Put
      <4> QED
        BY <4>1, <4>2 DEF Eligible, Having
    <3>2. CASE UNCHANGED snapshot
      BY <3>2 DEF Eligible, Having
    <3> QED
      BY <1>1, <3>1, <3>2
         DEF Next, Rest, vars, Publish, LoaderStep, Begin, Fetch, Compare,
             ArchiveBundle, PutCheck, Fail
  <2> QED
    BY <2>1 DEF StopTimesFor, InEffect
<1>2. IInv /\ [Next]_vars => [\A day \in Days : Settled(day)]_vars
  BY <1>1
<1> QED
  BY <1>2, InitIInv, NextIInv, PTL DEF Spec, DaySettled
=============================================================================
