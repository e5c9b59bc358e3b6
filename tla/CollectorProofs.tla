-------------------------- MODULE CollectorProofs --------------------------
(***************************************************************************)
(* Proofs about Collector, for any schedule, any number of minutes, any    *)
(* semaphore and any times.  The safety properties are not inductive by    *)
(* themselves: they rest on what a thread in each place has done so far    *)
(* (ThreadSound) and on an attempt that is not running having left nothing *)
(* behind (Inert).                                                         *)
(***************************************************************************)
EXTENDS Collector, FiniteSetTheorems, TLAPS

(* Between attempts an invocation has all its permits and fresh polls, and *)
(* one that is not idle has begun an attempt.                              *)
Inert ==
  \A i \in Invocations :
    /\ phase[i] # "running" =>
         /\ permits[i] = MaxConcurrentPolls
         /\ poll[i] = [p \in Polls |-> Waiting]
    /\ phase[i] # "idle" => attempt[i] > 0

(* What a thread has done by the time it is at each place.                 *)
ThreadSound ==
  \A i \in Invocations, p \in Polls :
    LET t == poll[i][p] IN
    /\ t.at \in {"fetching", "storing", "done"} => t.fetched \in Seconds
    /\ t.at = "storing" /\ t.body => t.error = "none"
    /\ t.at \in {"fetching", "storing"} => ~t.stored
    /\ t.at = "done" /\ t.stored => raw[RawKey(i, p)] # Nobody

IInv ==
  /\ TypeOK
  /\ Inert
  /\ PermitsConserved
  /\ ThreadSound
  /\ StoredIsAudited
  /\ AuditSound

-----------------------------------------------------------------------------
(* The permits and the fetches that hold them.                             *)

LEMMA FetchingFinite ==
  ASSUME NEW i \in Invocations
  PROVE  IsFiniteSet(Fetching(i)) /\ Cardinality(Fetching(i)) \in Nat
  <1>1. Fetching(i) \subseteq Polls
    BY DEF Fetching
  <1>2. IsFiniteSet(Fetching(i))
    BY <1>1, FS_Subset, CollectorAssumption DEF CollectorAssumption
  <1> QED
    BY <1>2, FS_CardinalityType

(* What one thread's step does to all the threads.                         *)
LEMMA OneThreadMoves ==
  ASSUME TypeOK, NEW i \in Invocations, NEW p \in Polls, NEW t \in Threads,
         Becomes(i, p, t)
  PROVE  /\ poll' \in [Invocations -> [Polls -> Threads]]
         /\ poll'[i][p] = t
         /\ \A j \in Invocations, q \in Polls :
              j # i \/ q # p => poll'[j][q] = poll[j][q]
  BY DEF TypeOK, Becomes

(* A fetch that begins takes one permit, one that ends gives it back, and  *)
(* no other step of a thread changes what is being fetched.                *)
LEMMA OneFetchMoves ==
  ASSUME TypeOK, NEW i \in Invocations, NEW p \in Polls, NEW t \in Threads,
         Becomes(i, p, t)
  PROVE  /\ \A j \in Invocations : j # i => Fetching(j)' = Fetching(j)
         /\ poll[i][p].at # "fetching" /\ t.at = "fetching" =>
              Cardinality(Fetching(i)') = Cardinality(Fetching(i)) + 1
         /\ poll[i][p].at = "fetching" /\ t.at # "fetching" =>
              Cardinality(Fetching(i)') = Cardinality(Fetching(i)) - 1
         /\ poll[i][p].at # "fetching" /\ t.at # "fetching" =>
              Fetching(i)' = Fetching(i)
  <1>1. /\ poll'[i][p] = t
        /\ \A j \in Invocations, q \in Polls :
             j # i \/ q # p => poll'[j][q] = poll[j][q]
    BY OneThreadMoves
  <1>2. IsFiniteSet(Fetching(i))
    BY FetchingFinite
  <1>3. \A j \in Invocations : j # i => Fetching(j)' = Fetching(j)
    BY <1>1 DEF Fetching
  <1>4. ASSUME poll[i][p].at # "fetching", t.at = "fetching"
        PROVE  Cardinality(Fetching(i)') = Cardinality(Fetching(i)) + 1
    <2>1. Fetching(i)' = Fetching(i) \union {p} /\ p \notin Fetching(i)
      BY <1>1, <1>4 DEF Fetching
    <2> QED
      BY <1>2, <2>1, FS_AddElement
  <1>5. ASSUME poll[i][p].at = "fetching", t.at # "fetching"
        PROVE  Cardinality(Fetching(i)') = Cardinality(Fetching(i)) - 1
    <2>1. Fetching(i)' = Fetching(i) \ {p} /\ p \in Fetching(i)
      BY <1>1, <1>5 DEF Fetching
    <2> QED
      BY <1>2, <2>1, FS_RemoveElement
  <1>6. ASSUME poll[i][p].at # "fetching", t.at # "fetching"
        PROVE  Fetching(i)' = Fetching(i)
    BY <1>1, <1>6 DEF Fetching
  <1> QED
    BY <1>3, <1>4, <1>5, <1>6

-----------------------------------------------------------------------------
(* The inductive invariant.                                                *)

LEMMA InitIInv == Init => IInv
  <1> SUFFICES ASSUME Init PROVE IInv
    OBVIOUS
  <1> USE CollectorAssumption DEF CollectorAssumption
  <1>1. TypeOK
    BY DEF Init, TypeOK, Seconds, Phases, Threads, Waiting, Errors, NoTime,
           Nobody, NoRecord
  <1>2. Inert
    BY DEF Init, Inert
  <1>3. PermitsConserved
    BY DEF Init, PermitsConserved, Running
  <1>4. ThreadSound
    BY DEF Init, ThreadSound, Waiting
  <1>5. StoredIsAudited
    BY DEF Init, StoredIsAudited, Waiting
  <1>6. AuditSound
    BY DEF Init, AuditSound
  <1> QED
    BY <1>1, <1>2, <1>3, <1>4, <1>5, <1>6 DEF IInv

(* A record stays sound while no object goes away.                         *)
LEMMA AuditStaysSound ==
  ASSUME TypeOK, AuditSound, UNCHANGED trail,
         \A k \in Keys : raw[k] # Nobody => raw'[k] # Nobody
  PROVE  AuditSound'
  <1> SUFFICES ASSUME NEW i \in Invocations, trail[i] # NoRecord,
                      NEW p \in Polls,
                      trail[i][p].body, trail[i][p].error = "none"
               PROVE  raw'[<<Schedule[p].feed, trail[i][p].fetched>>] # Nobody
    BY DEF AuditSound
  <1>1. trail[i] \in [Polls -> Entries]
    BY DEF TypeOK
  <1>2. <<Schedule[p].feed, trail[i][p].fetched>> \in Keys
    BY <1>1 DEF Keys, Feeds, Entries
  <1> QED
    BY <1>2 DEF AuditSound

(* What a thread's step keeps, whichever step it is: its invocation goes   *)
(* on running, no record changes, no object goes away.                     *)
LEMMA ThreadStepKeeps ==
  ASSUME IInv, NEW i \in Invocations, NEW p \in Polls, NEW t \in Threads,
         phase[i] = "running", poll[i][p].at \notin Ended, Becomes(i, p, t),
         \/ UNCHANGED raw
         \/ poll[i][p].at = "storing" /\ PutRaw(i, p),
         UNCHANGED <<now, phase, attempt, started, trail>>,
         permits' \in [Invocations -> 0..MaxConcurrentPolls],
         \A j \in Invocations : j # i => permits'[j] = permits[j],
         permits'[i] + Cardinality(Fetching(i)') = MaxConcurrentPolls,
         t.at \in {"fetching", "storing", "done"} => t.fetched \in Seconds,
         t.at = "storing" /\ t.body => t.error = "none",
         t.at \in {"fetching", "storing"} => ~t.stored,
         t.at = "done" => (t.stored <=> t.body /\ t.error = "none"),
         t.at = "done" /\ t.stored =>
           raw'[<<Schedule[p].feed, t.fetched>>] # Nobody
  PROVE  IInv'
  <1>1. TypeOK
    BY DEF IInv
  <1>2. /\ poll' \in [Invocations -> [Polls -> Threads]]
        /\ poll'[i][p] = t
        /\ \A j \in Invocations, q \in Polls :
             j # i \/ q # p => poll'[j][q] = poll[j][q]
    BY <1>1, OneThreadMoves
  <1>3. /\ raw' \in [Keys -> Writers \union {Nobody}]
        /\ \A k \in Keys : raw[k] # Nobody => raw'[k] # Nobody
    <2>1. CASE UNCHANGED raw
      BY <1>1, <2>1 DEF TypeOK
    <2>2. CASE poll[i][p].at = "storing" /\ PutRaw(i, p)
      <3>1. attempt[i] \in 1..MaxAttempts
        <4>1. attempt[i] \in 0..MaxAttempts
          BY <1>1 DEF TypeOK
        <4>2. attempt[i] > 0
          <5>1. phase[i] # "idle"
            OBVIOUS
          <5> QED
            BY <5>1 DEF IInv, Inert
        <4>3. MaxAttempts \in Nat
          BY CollectorAssumption DEF CollectorAssumption
        <4> QED
          BY <4>1, <4>2, <4>3
      <3>2. <<i, attempt[i], p>> \in Writers /\ <<i, attempt[i], p>> # Nobody
        BY <3>1 DEF Writers, Nobody
      <3> QED
        BY <1>1, <2>2, <3>2 DEF TypeOK, PutRaw
    <2> QED
      BY <2>1, <2>2
  <1>4. TypeOK'
    BY <1>1, <1>2, <1>3 DEF TypeOK
  <1>5. Inert'
    BY <1>2 DEF IInv, Inert
  <1>6. PermitsConserved'
    <2>1. \A j \in Invocations : j # i => Fetching(j)' = Fetching(j)
      BY <1>2 DEF Fetching
    <2> QED
      BY <2>1 DEF IInv, PermitsConserved, Running
  <1>7. ThreadSound'
    <2> SUFFICES ASSUME NEW j \in Invocations, NEW q \in Polls
                 PROVE  LET u == poll'[j][q] IN
                        /\ u.at \in {"fetching", "storing", "done"} =>
                             u.fetched \in Seconds
                        /\ u.at = "storing" /\ u.body => u.error = "none"
                        /\ u.at \in {"fetching", "storing"} => ~u.stored
                        /\ u.at = "done" /\ u.stored => raw'[RawKey(j, q)'] # Nobody
      BY DEF ThreadSound
    <2>1. CASE j = i /\ q = p
      BY <1>2, <2>1 DEF RawKey
    <2>2. CASE j # i \/ q # p
      <3>1. poll'[j][q] = poll[j][q]
        BY <1>2, <2>2
      <3>2. poll[j][q].at = "done" => RawKey(j, q) \in Keys
        BY DEF IInv, ThreadSound, RawKey, Keys, Feeds
      <3> QED
        BY <1>3, <3>1, <3>2 DEF IInv, ThreadSound, RawKey
    <2> QED
      BY <2>1, <2>2
  <1>8. StoredIsAudited'
    <2> SUFFICES ASSUME NEW j \in Invocations, NEW q \in Polls
                 PROVE  LET u == poll'[j][q] IN
                        u.at = "done" => (u.stored <=> u.body /\ u.error = "none")
      BY DEF StoredIsAudited
    <2>1. CASE j = i /\ q = p
      BY <1>2, <2>1
    <2>2. CASE j # i \/ q # p
      BY <1>2, <2>2 DEF IInv, StoredIsAudited
    <2> QED
      BY <2>1, <2>2
  <1>9. AuditSound'
    BY <1>1, <1>3, AuditStaysSound DEF IInv
  <1> QED
    BY <1>4, <1>5, <1>6, <1>7, <1>8, <1>9 DEF IInv

LEMMA IssueKeeps ==
  ASSUME IInv, NEW i \in Invocations, NEW p \in Polls, Issue(i, p)
  PROVE  IInv'
  <1> DEFINE t == [Waiting EXCEPT !.at = "fetching", !.fetched = now]
  <1>1. t \in Threads /\ t.at = "fetching" /\ t.fetched \in Seconds /\ ~t.stored
    BY DEF IInv, TypeOK, Waiting, Threads, Errors
  <1>2. Becomes(i, p, t) /\ poll[i][p].at = "waiting" /\ phase[i] = "running"
    BY DEF Issue, Due, Thread
  <1>3. /\ permits' \in [Invocations -> 0..MaxConcurrentPolls]
        /\ \A j \in Invocations : j # i => permits'[j] = permits[j]
        /\ permits'[i] = permits[i] - 1
    BY CollectorAssumption DEF IInv, TypeOK, Issue, CollectorAssumption
  <1>4. Cardinality(Fetching(i)') = Cardinality(Fetching(i)) + 1
    BY <1>1, <1>2, OneFetchMoves DEF IInv
  <1>5. permits'[i] + Cardinality(Fetching(i)') = MaxConcurrentPolls
    BY <1>2, <1>3, <1>4, FetchingFinite, CollectorAssumption
       DEF IInv, TypeOK, PermitsConserved, Running, CollectorAssumption
  <1> QED
    BY <1>1, <1>2, <1>3, <1>5, ThreadStepKeeps DEF Issue, Ended

(* Both ways a fetch ends give its permit back.                            *)
LEMMA ReleaseKeepsPermits ==
  ASSUME IInv, NEW i \in Invocations, NEW p \in Polls, NEW t \in Threads,
         Thread(i, p, "fetching"), t.at # "fetching", Becomes(i, p, t),
         Release(i)
  PROVE  /\ permits' \in [Invocations -> 0..MaxConcurrentPolls]
         /\ \A j \in Invocations : j # i => permits'[j] = permits[j]
         /\ permits'[i] + Cardinality(Fetching(i)') = MaxConcurrentPolls
  <1>1. permits[i] + Cardinality(Fetching(i)) = MaxConcurrentPolls
    BY DEF IInv, PermitsConserved, Running, Thread
  <1>2. Cardinality(Fetching(i)') = Cardinality(Fetching(i)) - 1
    BY OneFetchMoves DEF IInv, Thread
  <1>3. IsFiniteSet(Fetching(i)) /\ p \in Fetching(i)
    BY FetchingFinite DEF Fetching, Thread
  <1>4. Cardinality(Fetching(i)) \in Nat /\ Cardinality(Fetching(i)) # 0
    BY <1>3, FetchingFinite, FS_EmptySet
  <1>5. permits \in [Invocations -> 0..MaxConcurrentPolls]
    BY DEF IInv, TypeOK
  <1>6. permits[i] + 1 \in 0..MaxConcurrentPolls
    BY <1>1, <1>4, <1>5, CollectorAssumption DEF CollectorAssumption
  <1>7. /\ permits' \in [Invocations -> 0..MaxConcurrentPolls]
        /\ permits'[i] = permits[i] + 1
        /\ \A j \in Invocations : j # i => permits'[j] = permits[j]
    BY <1>5, <1>6 DEF Release
  <1> QED
    BY <1>1, <1>2, <1>4, <1>5, <1>7

LEMMA FetchEndsKeeps ==
  ASSUME IInv, NEW i \in Invocations, NEW p \in Polls, FetchEnds(i, p)
  PROVE  IInv'
  <1> PICK answer \in {"payload", "blank", "failed"} :
        Becomes(i, p, [poll[i][p] EXCEPT
          !.at = "storing",
          !.body = (answer = "payload"),
          !.error = IF answer = "failed" THEN "fetch" ELSE "none"])
    BY DEF FetchEnds
  <1> DEFINE t == [poll[i][p] EXCEPT
                     !.at = "storing",
                     !.body = (answer = "payload"),
                     !.error = IF answer = "failed" THEN "fetch" ELSE "none"]
  <1>1. Thread(i, p, "fetching") /\ Becomes(i, p, t) /\ Release(i)
    BY DEF FetchEnds
  <1>2. poll[i][p] \in Threads
    BY DEF IInv, TypeOK
  <1>3. /\ t \in Threads
        /\ t.at = "storing"
        /\ t.fetched = poll[i][p].fetched
        /\ t.body => t.error = "none"
        /\ t.stored = poll[i][p].stored
    BY <1>2 DEF Threads, Errors
  <1>4. t.fetched \in Seconds /\ ~t.stored
    BY <1>1, <1>3 DEF IInv, ThreadSound, Thread
  <1>5. /\ permits' \in [Invocations -> 0..MaxConcurrentPolls]
        /\ \A j \in Invocations : j # i => permits'[j] = permits[j]
        /\ permits'[i] + Cardinality(Fetching(i)') = MaxConcurrentPolls
    BY <1>1, <1>3, ReleaseKeepsPermits
  <1> HIDE DEF t
  <1> QED
    BY <1>1, <1>3, <1>4, <1>5, ThreadStepKeeps DEF FetchEnds, Ended, Thread

LEMMA FetchCrashesKeeps ==
  ASSUME IInv, NEW i \in Invocations, NEW p \in Polls, FetchCrashes(i, p)
  PROVE  IInv'
  <1> DEFINE t == [Waiting EXCEPT !.at = "crashed"]
  <1>1. Thread(i, p, "fetching") /\ Becomes(i, p, t) /\ Release(i)
    BY DEF FetchCrashes
  <1>2. t \in Threads /\ t.at = "crashed"
    BY DEF Waiting, Threads, Errors, Ended
  <1>3. /\ permits' \in [Invocations -> 0..MaxConcurrentPolls]
        /\ \A j \in Invocations : j # i => permits'[j] = permits[j]
        /\ permits'[i] + Cardinality(Fetching(i)') = MaxConcurrentPolls
    BY <1>1, <1>2, ReleaseKeepsPermits
  <1> HIDE DEF t
  <1> QED
    BY <1>1, <1>2, <1>3, ThreadStepKeeps DEF FetchCrashes, Ended, Thread

(* A thread that is storing holds no permit, so its last step moves none.  *)
LEMMA StoreKeepsPermits ==
  ASSUME IInv, NEW i \in Invocations, NEW p \in Polls, NEW t \in Threads,
         Thread(i, p, "storing"), t.at # "fetching", Becomes(i, p, t),
         UNCHANGED permits
  PROVE  /\ permits' \in [Invocations -> 0..MaxConcurrentPolls]
         /\ \A j \in Invocations : j # i => permits'[j] = permits[j]
         /\ permits'[i] + Cardinality(Fetching(i)') = MaxConcurrentPolls
  <1>1. permits[i] + Cardinality(Fetching(i)) = MaxConcurrentPolls
    BY DEF IInv, PermitsConserved, Running, Thread
  <1>2. Fetching(i)' = Fetching(i)
    BY OneFetchMoves DEF IInv, Thread
  <1> QED
    BY <1>1, <1>2 DEF IInv, TypeOK

LEMMA StoreNothingKeeps ==
  ASSUME IInv, NEW i \in Invocations, NEW p \in Polls, StoreNothing(i, p)
  PROVE  IInv'
  <1> DEFINE t == [poll[i][p] EXCEPT !.at = "done"]
  <1>1. Thread(i, p, "storing") /\ Becomes(i, p, t) /\ ~poll[i][p].body
    BY DEF StoreNothing
  <1>2. poll[i][p] \in Threads /\ poll[i][p].fetched \in Seconds /\ ~poll[i][p].stored
    BY <1>1 DEF IInv, TypeOK, ThreadSound, Thread
  <1>3. /\ t \in Threads /\ t.at = "done" /\ t.fetched \in Seconds
        /\ ~t.stored /\ ~t.body
    BY <1>1, <1>2 DEF Threads, Ended
  <1>4. /\ permits' \in [Invocations -> 0..MaxConcurrentPolls]
        /\ \A j \in Invocations : j # i => permits'[j] = permits[j]
        /\ permits'[i] + Cardinality(Fetching(i)') = MaxConcurrentPolls
    BY <1>1, <1>3, StoreKeepsPermits DEF StoreNothing
  <1> HIDE DEF t
  <1> QED
    BY <1>1, <1>3, <1>4, ThreadStepKeeps DEF StoreNothing, Ended, Thread

LEMMA StorePayloadKeeps ==
  ASSUME IInv, NEW i \in Invocations, NEW p \in Polls, StorePayload(i, p)
  PROVE  IInv'
  <1> DEFINE t == [poll[i][p] EXCEPT !.at = "done", !.stored = TRUE]
  <1>1. /\ Thread(i, p, "storing") /\ Becomes(i, p, t) /\ poll[i][p].body
        /\ PutRaw(i, p)
    BY DEF StorePayload
  <1>2. /\ poll[i][p] \in Threads /\ poll[i][p].fetched \in Seconds
        /\ poll[i][p].error = "none"
    BY <1>1 DEF IInv, TypeOK, ThreadSound, Thread
  <1>3. /\ t \in Threads /\ t.at = "done" /\ t.fetched \in Seconds
        /\ t.stored /\ t.body /\ t.error = "none"
        /\ t.fetched = poll[i][p].fetched
    BY <1>1, <1>2 DEF Threads, Ended
  <1>4. RawKey(i, p) \in Keys /\ RawKey(i, p) = <<Schedule[p].feed, t.fetched>>
    BY <1>2, <1>3 DEF RawKey, Keys, Feeds
  <1>5. raw'[<<Schedule[p].feed, t.fetched>>] # Nobody
    BY <1>1, <1>4 DEF PutRaw, Nobody, IInv, TypeOK
  <1>6. /\ permits' \in [Invocations -> 0..MaxConcurrentPolls]
        /\ \A j \in Invocations : j # i => permits'[j] = permits[j]
        /\ permits'[i] + Cardinality(Fetching(i)') = MaxConcurrentPolls
    BY <1>1, <1>3, StoreKeepsPermits DEF StorePayload
  <1> HIDE DEF t
  <1> QED
    BY <1>1, <1>3, <1>5, <1>6, ThreadStepKeeps DEF StorePayload, Ended, Thread

LEMMA StoreFailsKeeps ==
  ASSUME IInv, NEW i \in Invocations, NEW p \in Polls, StoreFails(i, p)
  PROVE  IInv'
  <1> DEFINE t == [poll[i][p] EXCEPT !.at = "done", !.error = "storage"]
  <1>1. Thread(i, p, "storing") /\ Becomes(i, p, t)
    BY DEF StoreFails
  <1>2. poll[i][p] \in Threads /\ poll[i][p].fetched \in Seconds /\ ~poll[i][p].stored
    BY <1>1 DEF IInv, TypeOK, ThreadSound, Thread
  <1>3. /\ t \in Threads /\ t.at = "done" /\ t.fetched \in Seconds
        /\ ~t.stored /\ t.error = "storage"
    BY <1>2 DEF Threads, Ended, Errors
  <1>4. /\ permits' \in [Invocations -> 0..MaxConcurrentPolls]
        /\ \A j \in Invocations : j # i => permits'[j] = permits[j]
        /\ permits'[i] + Cardinality(Fetching(i)') = MaxConcurrentPolls
    BY <1>1, <1>3, StoreKeepsPermits DEF StoreFails
  <1> HIDE DEF t
  <1> QED
    BY <1>1, <1>3, <1>4, ThreadStepKeeps DEF StoreFails, Ended, Thread

LEMMA StoreCrashesKeeps ==
  ASSUME IInv, NEW i \in Invocations, NEW p \in Polls, StoreCrashes(i, p)
  PROVE  IInv'
  <1> DEFINE t == [Waiting EXCEPT !.at = "crashed"]
  <1>1. Thread(i, p, "storing") /\ Becomes(i, p, t)
    BY DEF StoreCrashes
  <1>2. t \in Threads /\ t.at = "crashed"
    BY DEF Waiting, Threads, Errors, Ended
  <1>3. /\ permits' \in [Invocations -> 0..MaxConcurrentPolls]
        /\ \A j \in Invocations : j # i => permits'[j] = permits[j]
        /\ permits'[i] + Cardinality(Fetching(i)') = MaxConcurrentPolls
    BY <1>1, <1>2, StoreKeepsPermits DEF StoreCrashes
  <1> HIDE DEF t
  <1> QED
    BY <1>1, <1>2, <1>3, ThreadStepKeeps DEF StoreCrashes, Ended, Thread

-----------------------------------------------------------------------------
(* The steps of the clock, of Lambda and of the handler's own thread.      *)

LEMMA TickKeeps ==
  ASSUME IInv, Tick
  PROVE  IInv'
  <1>1. TypeOK'
    BY CollectorAssumption
       DEF IInv, TypeOK, Tick, Seconds, CollectorAssumption
  <1>2. \A i \in Invocations : Fetching(i)' = Fetching(i)
    BY DEF Tick, Fetching
  <1>3. Inert' /\ PermitsConserved'
    BY <1>2 DEF IInv, Tick, Inert, PermitsConserved, Running
  <1>4. ThreadSound'
    BY DEF IInv, Tick, ThreadSound, RawKey
  <1>5. StoredIsAudited' /\ AuditSound'
    BY DEF IInv, Tick, StoredIsAudited, AuditSound
  <1> QED
    BY <1>1, <1>3, <1>4, <1>5 DEF IInv

LEMMA BeginKeeps ==
  ASSUME IInv, NEW i \in Invocations, phase[i] # "running", Begin(i)
  PROVE  IInv'
  <1>1. TypeOK'
    BY CollectorAssumption
       DEF IInv, TypeOK, Begin, Phases, Failed, CollectorAssumption
  <1>2. attempt'[i] > 0
    BY CollectorAssumption DEF IInv, TypeOK, Begin, CollectorAssumption
  <1>3. Inert'
    BY <1>2 DEF IInv, TypeOK, Begin, Inert
  <1>4. Fetching(i)' = {} /\ permits'[i] = MaxConcurrentPolls
    BY DEF IInv, Begin, Inert, Fetching, Waiting
  <1>5. \A j \in Invocations : j # i => Fetching(j)' = Fetching(j)
    BY DEF Begin, Fetching
  <1>6. PermitsConserved'
    <2> SUFFICES ASSUME NEW j \in Invocations, phase'[j] = "running"
                 PROVE  permits'[j] + Cardinality(Fetching(j)') = MaxConcurrentPolls
      BY DEF PermitsConserved, Running
    <2>1. CASE j = i
      BY <1>4, <2>1, FS_EmptySet, CollectorAssumption DEF CollectorAssumption
    <2>2. CASE j # i
      BY <1>5, <2>2 DEF IInv, TypeOK, Begin, PermitsConserved, Running
    <2> QED
      BY <2>1, <2>2
  <1>7. ThreadSound'
    BY DEF IInv, Begin, ThreadSound, RawKey
  <1>8. StoredIsAudited' /\ AuditSound'
    BY DEF IInv, Begin, StoredIsAudited, AuditSound
  <1> QED
    BY <1>1, <1>3, <1>6, <1>7, <1>8 DEF IInv

(* Every way an attempt ends: its threads go, and its record, if one is    *)
(* put, is sound.                                                          *)
LEMMA EndKeeps ==
  ASSUME IInv, NEW i \in Invocations, NEW ending \in Phases \ {"idle", "running"},
         phase[i] = "running", End(i, ending),
         trail' \in [Invocations -> [Polls -> Entries] \union {NoRecord}],
         AuditSound'
  PROVE  IInv'
  <1>1. \A p \in Polls : Waiting \in Threads
    BY DEF Waiting, Threads, Errors
  <1>2. TypeOK'
    <2>1. phase' \in [Invocations -> Phases]
      BY DEF IInv, TypeOK, End
    <2>2. permits' \in [Invocations -> 0..MaxConcurrentPolls]
      BY CollectorAssumption DEF IInv, TypeOK, End, CollectorAssumption
    <2>3. [p \in Polls |-> Waiting] \in [Polls -> Threads]
      BY <1>1
    <2>4. poll' \in [Invocations -> [Polls -> Threads]]
      BY <2>3 DEF IInv, TypeOK, End
    <2> QED
      BY <2>1, <2>2, <2>4 DEF IInv, TypeOK, End
  <1>3. Inert'
    BY DEF IInv, TypeOK, End, Inert
  <1>4. \A j \in Invocations : j # i => Fetching(j)' = Fetching(j)
    BY DEF IInv, TypeOK, End, Fetching
  <1>5. PermitsConserved'
    BY <1>4 DEF IInv, TypeOK, End, PermitsConserved, Running
  <1>6. ThreadSound'
    <2> SUFFICES ASSUME NEW j \in Invocations, NEW q \in Polls
                 PROVE  LET u == poll'[j][q] IN
                        /\ u.at \in {"fetching", "storing", "done"} =>
                             u.fetched \in Seconds
                        /\ u.at = "storing" /\ u.body => u.error = "none"
                        /\ u.at \in {"fetching", "storing"} => ~u.stored
                        /\ u.at = "done" /\ u.stored => raw'[RawKey(j, q)'] # Nobody
      BY DEF ThreadSound
    <2>1. CASE j = i
      <3>1. poll'[j][q] = Waiting
        BY <2>1 DEF IInv, TypeOK, End
      <3> QED
        BY <3>1 DEF Waiting
    <2>2. CASE j # i
      BY <2>2 DEF IInv, TypeOK, End, ThreadSound, RawKey
    <2> QED
      BY <2>1, <2>2
  <1>7. StoredIsAudited'
    <2> SUFFICES ASSUME NEW j \in Invocations, NEW q \in Polls
                 PROVE  LET u == poll'[j][q] IN
                        u.at = "done" => (u.stored <=> u.body /\ u.error = "none")
      BY DEF StoredIsAudited
    <2>1. CASE j = i
      BY <2>1 DEF IInv, TypeOK, End, Waiting
    <2>2. CASE j # i
      BY <2>2 DEF IInv, TypeOK, End, StoredIsAudited
    <2> QED
      BY <2>1, <2>2
  <1> QED
    BY <1>2, <1>3, <1>5, <1>6, <1>7 DEF IInv

(* A record put once every poll has ended is sound.                        *)
LEMMA RecordIsSound ==
  ASSUME IInv, NEW i \in Invocations, Gathered(i), UNCHANGED raw,
         PutRunRecord(i)
  PROVE  /\ trail' \in [Invocations -> [Polls -> Entries] \union {NoRecord}]
         /\ AuditSound'
  <1>1. \A p \in Polls :
          /\ Entry(i, p) \in Entries
          /\ Entry(i, p).body /\ Entry(i, p).error = "none" =>
               raw[<<Schedule[p].feed, Entry(i, p).fetched>>] # Nobody
    <2> SUFFICES ASSUME NEW p \in Polls
                 PROVE  /\ Entry(i, p) \in Entries
                        /\ Entry(i, p).body /\ Entry(i, p).error = "none" =>
                             raw[<<Schedule[p].feed, Entry(i, p).fetched>>] # Nobody
      OBVIOUS
    <2>1. poll[i][p] \in Threads /\ now \in Seconds
      BY DEF IInv, TypeOK
    <2>2. CASE p \in Crashed(i)
      BY <2>1, <2>2 DEF Entry, Entries, Errors
    <2>3. CASE p \notin Crashed(i)
      <3>1. poll[i][p].at = "done"
        BY <2>3 DEF Crashed, Gathered, Ended
      <3>2. poll[i][p].fetched \in Seconds
        BY <3>1 DEF IInv, ThreadSound
      <3>3. Entry(i, p) = [fetched |-> poll[i][p].fetched,
                           error |-> poll[i][p].error, body |-> poll[i][p].body]
        BY <2>3 DEF Entry
      <3>4. Entry(i, p) \in Entries
        BY <2>1, <3>2, <3>3 DEF Entries, Threads
      <3>5. poll[i][p].body /\ poll[i][p].error = "none" => poll[i][p].stored
        BY <3>1 DEF IInv, StoredIsAudited
      <3>6. poll[i][p].stored => raw[RawKey(i, p)] # Nobody
        BY <3>1 DEF IInv, ThreadSound
      <3> QED
        BY <3>3, <3>4, <3>5, <3>6 DEF RawKey
    <2> QED
      BY <2>2, <2>3
  <1>2. trail \in [Invocations -> [Polls -> Entries] \union {NoRecord}]
    BY DEF IInv, TypeOK
  <1>3. [p \in Polls |-> Entry(i, p)] \in [Polls -> Entries]
    BY <1>1
  <1>4. /\ trail' \in [Invocations -> [Polls -> Entries] \union {NoRecord}]
        /\ trail'[i] = [p \in Polls |-> Entry(i, p)]
        /\ \A j \in Invocations : j # i => trail'[j] = trail[j]
    BY <1>2, <1>3 DEF PutRunRecord
  <1>5. AuditSound'
    <2> SUFFICES ASSUME NEW j \in Invocations, trail'[j] # NoRecord,
                        NEW p \in Polls,
                        trail'[j][p].body, trail'[j][p].error = "none"
                 PROVE  raw[<<Schedule[p].feed, trail'[j][p].fetched>>] # Nobody
      BY DEF AuditSound
    <2>1. CASE j = i
      <3>1. trail'[j][p] = Entry(i, p)
        BY <1>4, <2>1
      <3> QED
        BY <1>1, <3>1
    <2>2. CASE j # i
      BY <1>4, <2>2 DEF IInv, AuditSound
    <2> QED
      BY <2>1, <2>2
  <1> QED
    BY <1>4, <1>5

LEMMA KillKeeps ==
  ASSUME IInv, NEW i \in Invocations, Kill(i)
  PROVE  IInv'
  <1>1. AuditSound'
    BY DEF IInv, Kill, End, AuditSound
  <1> QED
    BY <1>1, EndKeeps DEF IInv, TypeOK, Kill, Phases, Failed

LEMMA RecordRunKeeps ==
  ASSUME IInv, NEW i \in Invocations, RecordRun(i)
  PROVE  IInv'
  <1> PICK ending \in {"returned", "raised"} : End(i, ending)
    BY DEF RecordRun
  <1>1. /\ trail' \in [Invocations -> [Polls -> Entries] \union {NoRecord}]
        /\ AuditSound'
    BY RecordIsSound DEF RecordRun, End
  <1> QED
    BY <1>1, EndKeeps DEF RecordRun, Phases, Failed

LEMMA RecordFailsKeeps ==
  ASSUME IInv, NEW i \in Invocations, RecordFails(i)
  PROVE  IInv'
  <1>1. /\ trail' \in [Invocations -> [Polls -> Entries] \union {NoRecord}]
        /\ AuditSound'
    <2>1. CASE PutRunRecord(i)
      BY <2>1, RecordIsSound DEF RecordFails, End
    <2>2. CASE UNCHANGED trail
      BY <2>2 DEF IInv, TypeOK, AuditSound, RecordFails, End
    <2> QED
      BY <2>1, <2>2 DEF RecordFails
  <1> QED
    BY <1>1, EndKeeps DEF RecordFails, Phases, Failed

-----------------------------------------------------------------------------
LEMMA NextKeepsIInv == IInv /\ [Next]_vars => IInv'
  <1> SUFFICES ASSUME IInv, [Next]_vars PROVE IInv'
    OBVIOUS
  <1>1. CASE Tick
    BY <1>1, TickKeeps
  <1>2. ASSUME NEW i \in Invocations, Trigger(i) \/ Retry(i) PROVE IInv'
    BY <1>2, BeginKeeps DEF Trigger, Retry, Failed
  <1>3. ASSUME NEW i \in Invocations, Kill(i) PROVE IInv'
    BY <1>3, KillKeeps
  <1>4. ASSUME NEW i \in Invocations, RecordRun(i) \/ RecordFails(i) PROVE IInv'
    BY <1>4, RecordRunKeeps, RecordFailsKeeps
  <1>5. ASSUME NEW i \in Invocations, NEW p \in Polls, StepOf(i, p) PROVE IInv'
    BY <1>5, IssueKeeps, FetchEndsKeeps, FetchCrashesKeeps, StoreNothingKeeps,
       StorePayloadKeeps, StoreFailsKeeps, StoreCrashesKeeps DEF StepOf
  <1>6. CASE UNCHANGED vars
    <2>1. \A i \in Invocations : Fetching(i)' = Fetching(i)
      BY <1>6 DEF vars, Fetching
    <2> QED
      BY <1>6, <2>1 DEF vars, IInv, TypeOK, Inert, PermitsConserved, Running,
         ThreadSound, RawKey, StoredIsAudited, AuditSound
  <1> QED
    BY <1>1, <1>2, <1>3, <1>4, <1>5, <1>6 DEF Next, Rest

LEMMA InductiveInvariant == Spec => []IInv
  BY InitIInv, NextKeepsIInv, PTL DEF Spec

(* Every variable keeps its type.                                          *)
THEOREM TypeCorrect == Spec => []TypeOK
  BY InductiveInvariant, PTL DEF IInv

(* However many polls an invocation has, and however its fetches end, its  *)
(* semaphore's permits are all accounted for (poll_at).                    *)
THEOREM PermitsAreConserved == Spec => []PermitsConserved
  BY InductiveInvariant, PTL DEF IInv

(* No invocation has more than MAX_CONCURRENT_POLLS fetches under way.     *)
THEOREM ConcurrencyBound ==
  Spec => [](\A i \in Running : Cardinality(Fetching(i)) <= MaxConcurrentPolls)
  <1>1. IInv => \A i \in Running : Cardinality(Fetching(i)) <= MaxConcurrentPolls
    <2> SUFFICES ASSUME IInv, NEW i \in Running
                 PROVE  Cardinality(Fetching(i)) <= MaxConcurrentPolls
      OBVIOUS
    <2>1. i \in Invocations /\ permits[i] \in 0..MaxConcurrentPolls
      BY DEF IInv, TypeOK, Running
    <2>2. permits[i] + Cardinality(Fetching(i)) = MaxConcurrentPolls
      BY DEF IInv, PermitsConserved
    <2> QED
      BY <2>1, <2>2, FetchingFinite, CollectorAssumption DEF CollectorAssumption
  <1> QED
    BY <1>1, InductiveInvariant, PTL

(* A poll is stored exactly when the record it leaves says so.             *)
THEOREM StoredPollsAreAudited == Spec => []StoredIsAudited
  BY InductiveInvariant, PTL DEF IInv

(* The audit trail never claims an object the bucket does not hold.        *)
THEOREM AuditTrailIsSound == Spec => []AuditSound
  BY InductiveInvariant, PTL DEF IInv

-----------------------------------------------------------------------------
(* Every object is accounted for.                                          *)

\* What a thread is left as by having written to k.
WroteTo(t, k) ==
  /\ t.at \in Ended
  /\ \/ t.at = "crashed"
     \/ t.error = "storage"
     \/ t.error = "none" /\ t.body /\ t.fetched = k[2]

(* An object's writer has begun; in its first attempt its thread shows the *)
(* write, and once that attempt is over its record does.                   *)
Owned(k) ==
  LET i == raw[k][1]
      p == raw[k][3]
  IN /\ phase[i] # "idle"
     /\ attempt[i] = 1 /\ phase[i] = "running" => WroteTo(poll[i][p], k)
     /\ attempt[i] = 1 /\ WriterOver(k) => Accounted(k)

AllOwned == \A k \in Keys : raw[k] # Nobody => Owned(k)

LEMMA WriterType ==
  ASSUME TypeOK, NEW k \in Keys, raw[k] # Nobody
  PROVE  raw[k][1] \in Invocations /\ raw[k][3] \in Polls
  BY DEF TypeOK, Writers

(* A thread's step that puts nothing is not one of a thread that wrote.    *)
LEMMA OwnedWithoutPut ==
  ASSUME IInv, AllOwned, NEW i \in Invocations, NEW p \in Polls, NEW t \in Threads,
         poll[i][p].at \notin Ended, Becomes(i, p, t),
         phase[i] = "running",
         UNCHANGED <<phase, attempt, trail>>,
         NEW k \in Keys, raw'[k] = raw[k], raw[k] # Nobody
  PROVE  Owned(k)'
  <1> DEFINE j == raw[k][1]
             q == raw[k][3]
  <1>1. j \in Invocations /\ q \in Polls
    BY WriterType DEF IInv
  <1>2. Owned(k)
    BY DEF AllOwned
  <1>3. attempt[j] = 1 /\ phase[j] = "running" => poll'[j][q] = poll[j][q]
    <2> SUFFICES ASSUME attempt[j] = 1, phase[j] = "running"
                 PROVE  poll'[j][q] = poll[j][q]
      OBVIOUS
    <2>1. poll[j][q].at \in Ended
      BY <1>2 DEF Owned, WroteTo
    <2>2. j # i \/ q # p
      BY <2>1
    <2> QED
      BY <1>1, <2>2, OneThreadMoves DEF IInv
  <1>4. WriterOver(k)' <=> WriterOver(k)
    BY DEF WriterOver
  <1>5. Accounted(k)' <=> Accounted(k)
    BY DEF Accounted
  <1> QED
    BY <1>2, <1>3, <1>4, <1>5 DEF Owned

(* A put, applied or not, is shown by the thread that made it.             *)
LEMMA OwnedPut ==
  ASSUME IInv, AllOwned, NEW i \in Invocations, NEW p \in Polls, NEW t \in Threads,
         Thread(i, p, "storing"), Becomes(i, p, t),
         PutRaw(i, p) \/ UNCHANGED raw,
         WroteTo(t, RawKey(i, p)),
         UNCHANGED <<phase, attempt, trail>>
  PROVE  AllOwned'
  <1> SUFFICES ASSUME NEW k \in Keys, raw'[k] # Nobody
               PROVE  Owned(k)'
    BY DEF AllOwned
  <1>1. phase[i] = "running" /\ poll[i][p].at = "storing"
    BY DEF Thread
  <1>2. CASE raw'[k] = raw[k]
    BY <1>1, <1>2, OwnedWithoutPut DEF Ended
  <1>3. CASE raw'[k] # raw[k]
    <2>1. k = RawKey(i, p) /\ raw'[k] = <<i, attempt[i], p>>
      BY <1>3 DEF PutRaw, IInv, TypeOK
    <2>2. raw'[k][1] = i /\ raw'[k][3] = p
      BY <2>1
    <2>3. poll'[i][p] = t
      BY OneThreadMoves DEF IInv
    <2>4. WroteTo(poll'[i][p], k)
      BY <2>1, <2>3
    <2> QED
      BY <1>1, <2>2, <2>4 DEF Owned, WriterOver
  <1> QED
    BY <1>2, <1>3

LEMMA OwnedThread ==
  ASSUME IInv, AllOwned, NEW i \in Invocations, NEW p \in Polls, StepOf(i, p)
  PROVE  AllOwned'
  <1>1. poll[i][p] \in Threads /\ now \in Seconds
    BY DEF IInv, TypeOK
  <1>2. ASSUME NEW t \in Threads, Becomes(i, p, t), poll[i][p].at \notin Ended,
               phase[i] = "running", UNCHANGED <<raw, phase, attempt, trail>>
        PROVE  AllOwned'
    <2> SUFFICES ASSUME NEW k \in Keys, raw'[k] # Nobody
                 PROVE  Owned(k)'
      BY DEF AllOwned
    <2> QED
      BY <1>2, OwnedWithoutPut
  <1>3. CASE Issue(i, p)
    <2>1. [Waiting EXCEPT !.at = "fetching", !.fetched = now] \in Threads
      BY <1>1 DEF Waiting, Threads, Errors
    <2> QED
      BY <1>2, <1>3, <2>1 DEF Issue, Due, Thread, Ended
  <1>4. CASE FetchEnds(i, p)
    <2>1. PICK answer \in {"payload", "blank", "failed"} :
            Becomes(i, p, [poll[i][p] EXCEPT
              !.at = "storing",
              !.body = (answer = "payload"),
              !.error = IF answer = "failed" THEN "fetch" ELSE "none"])
      BY <1>4 DEF FetchEnds
    <2>2. [poll[i][p] EXCEPT
              !.at = "storing",
              !.body = (answer = "payload"),
              !.error = IF answer = "failed" THEN "fetch" ELSE "none"] \in Threads
      BY <1>1 DEF Threads, Errors
    <2> QED
      BY <1>2, <1>4, <2>1, <2>2 DEF FetchEnds, Thread, Ended
  <1>5. [Waiting EXCEPT !.at = "crashed"] \in Threads
    BY DEF Waiting, Threads, Errors, Ended
  <1>6. CASE FetchCrashes(i, p)
    BY <1>2, <1>5, <1>6 DEF FetchCrashes, Thread, Ended
  <1>7. CASE StoreNothing(i, p)
    <2>1. [poll[i][p] EXCEPT !.at = "done"] \in Threads
      BY <1>1 DEF Threads, Ended
    <2> QED
      BY <1>2, <1>7, <2>1 DEF StoreNothing, Thread, Ended
  <1>8. CASE StorePayload(i, p)
    <2> DEFINE t == [poll[i][p] EXCEPT !.at = "done", !.stored = TRUE]
    <2>1. t \in Threads
      BY <1>1 DEF Threads, Ended
    <2>2. poll[i][p].body /\ poll[i][p].error = "none"
      BY <1>8 DEF StorePayload, Thread, IInv, ThreadSound
    <2>3. WroteTo(t, RawKey(i, p))
      BY <1>1, <2>2 DEF WroteTo, RawKey, Ended, Threads
    <2>4. Becomes(i, p, t)
      BY <1>8 DEF StorePayload
    <2> HIDE DEF t
    <2> QED
      BY <1>8, <2>1, <2>3, <2>4, OwnedPut DEF StorePayload
  <1>9. CASE StoreFails(i, p)
    <2> DEFINE t == [poll[i][p] EXCEPT !.at = "done", !.error = "storage"]
    <2>1. t \in Threads
      BY <1>1 DEF Threads, Errors, Ended
    <2>2. WroteTo(t, RawKey(i, p))
      BY <1>1 DEF WroteTo, Ended, Threads
    <2>3. Becomes(i, p, t)
      BY <1>9 DEF StoreFails
    <2> HIDE DEF t
    <2> QED
      BY <1>9, <2>1, <2>2, <2>3, OwnedPut DEF StoreFails
  <1>10. CASE StoreCrashes(i, p)
    <2>1. WroteTo([Waiting EXCEPT !.at = "crashed"], RawKey(i, p))
      BY DEF WroteTo, Waiting, Ended
    <2> QED
      BY <1>5, <1>10, <2>1, OwnedPut DEF StoreCrashes
  <1> QED
    BY <1>3, <1>4, <1>6, <1>7, <1>8, <1>9, <1>10 DEF StepOf

(* An attempt that begins is an invocation's first, and it owns nothing    *)
(* yet, or is not its first.                                               *)
LEMMA OwnedBegin ==
  ASSUME IInv, AllOwned, NEW i \in Invocations, phase[i] # "running", Begin(i)
  PROVE  AllOwned'
  <1> SUFFICES ASSUME NEW k \in Keys, raw'[k] # Nobody
               PROVE  Owned(k)'
    BY DEF AllOwned
  <1> DEFINE j == raw[k][1]
  <1>1. raw' = raw /\ UNCHANGED <<poll, trail>> /\ raw[k] # Nobody
    BY DEF Begin
  <1>2. j \in Invocations /\ Owned(k)
    BY <1>1, WriterType DEF AllOwned, IInv
  <1>3. CASE j = i
    <2>1. attempt[i] \in Nat /\ attempt[i] > 0
      BY <1>2, <1>3, CollectorAssumption DEF Owned, IInv, Inert, TypeOK, CollectorAssumption
    <2>2. attempt'[i] # 1
      BY <2>1 DEF Begin, IInv, TypeOK
    <2>3. phase'[i] # "idle"
      BY DEF Begin, IInv, TypeOK
    <2> QED
      BY <1>1, <1>3, <2>2, <2>3 DEF Owned
  <1>4. CASE j # i
    <2>1. attempt'[j] = attempt[j] /\ phase'[j] = phase[j]
      BY <1>2, <1>4 DEF Begin, IInv, TypeOK
    <2> QED
      BY <1>1, <1>2, <2>1 DEF Owned, WriterOver, Accounted
  <1> QED
    BY <1>3, <1>4

(* An attempt that ends, and is over, has put its threads on record.       *)
LEMMA OwnedEnd ==
  ASSUME IInv, AllOwned, NEW i \in Invocations, phase[i] = "running",
         NEW ending \in Phases \ {"idle", "running"}, End(i, ending),
         ending \in {"returned", "raised"} => PutRunRecord(i),
         PutRunRecord(i) \/ UNCHANGED trail
  PROVE  AllOwned'
  <1> SUFFICES ASSUME NEW k \in Keys, raw'[k] # Nobody
               PROVE  Owned(k)'
    BY DEF AllOwned
  <1> DEFINE j == raw[k][1]
             q == raw[k][3]
  <1>1. /\ UNCHANGED <<raw, attempt>> /\ raw[k] # Nobody
        /\ phase' = [phase EXCEPT ![i] = ending]
    BY DEF End
  <1>2. j \in Invocations /\ q \in Polls /\ Owned(k)
    BY <1>1, WriterType DEF AllOwned, IInv
  <1>3. CASE j # i
    <2>1. phase'[j] = phase[j] /\ poll'[j] = poll[j] /\ trail'[j] = trail[j]
      BY <1>2, <1>3 DEF End, PutRunRecord, IInv, TypeOK
    <2> QED
      BY <1>1, <1>2, <2>1 DEF Owned, WriterOver, Accounted
  <1>4. CASE j = i
    <2>1. phase'[i] = ending
      BY <1>1 DEF IInv, TypeOK
    <2>2. ASSUME attempt[i] = 1, ending \in {"returned", "raised"}
          PROVE  Accounted(k)'
      <3>1. WroteTo(poll[i][q], k)
        BY <1>2, <1>4, <2>2 DEF Owned
      <3>2. trail'[i][q] = Entry(i, q)
        BY <1>2, <2>2 DEF PutRunRecord, IInv, TypeOK
      <3>3. \/ Entry(i, q).error \in {"storage", "crash"}
            \/ /\ Entry(i, q).error = "none" /\ Entry(i, q).body
               /\ Entry(i, q).fetched = k[2]
        <4>1. CASE poll[i][q].at = "crashed"
          BY <1>2, <4>1 DEF Entry, Crashed
        <4>2. CASE poll[i][q].at # "crashed"
          <5>1. Entry(i, q) = [fetched |-> poll[i][q].fetched,
                               error |-> poll[i][q].error, body |-> poll[i][q].body]
            BY <4>2 DEF Entry, Crashed
          <5> QED
            BY <3>1, <4>2, <5>1 DEF WroteTo
        <4> QED
          BY <4>1, <4>2
      <3> QED
        BY <1>1, <1>4, <3>2, <3>3 DEF Accounted
    <2> QED
      BY <1>1, <1>4, <2>1, <2>2 DEF Owned, WriterOver
  <1> QED
    BY <1>3, <1>4

LEMMA NextKeepsOwned == IInv /\ AllOwned /\ [Next]_vars => AllOwned'
  <1> SUFFICES ASSUME IInv, AllOwned, [Next]_vars PROVE AllOwned'
    OBVIOUS
  <1>1. CASE Tick \/ UNCHANGED vars
    <2>1. UNCHANGED <<raw, phase, attempt, poll, trail>>
      BY <1>1 DEF Tick, vars
    <2> QED
      BY <2>1 DEF AllOwned, Owned, WriterOver, Accounted
  <1>2. ASSUME NEW i \in Invocations, Trigger(i) \/ Retry(i) PROVE AllOwned'
    BY <1>2, OwnedBegin DEF Trigger, Retry, Failed
  <1>3. ASSUME NEW i \in Invocations, Kill(i) PROVE AllOwned'
    BY <1>3, OwnedEnd DEF Kill, Phases, Failed
  <1>4. ASSUME NEW i \in Invocations, RecordRun(i) PROVE AllOwned'
    <2>1. PICK ending \in {"returned", "raised"} : End(i, ending)
      BY <1>4 DEF RecordRun
    <2> QED
      BY <1>4, <2>1, OwnedEnd DEF RecordRun, Phases, Failed
  <1>5. ASSUME NEW i \in Invocations, RecordFails(i) PROVE AllOwned'
    BY <1>5, OwnedEnd DEF RecordFails, Phases, Failed
  <1>6. ASSUME NEW i \in Invocations, NEW p \in Polls, StepOf(i, p) PROVE AllOwned'
    BY <1>6, OwnedThread
  <1> QED
    BY <1>1, <1>2, <1>3, <1>4, <1>5, <1>6 DEF Next, Rest

(* Every object of an invocation that is over, and took one attempt, is    *)
(* accounted for in the audit trail (_gather, record_run, collect).        *)
THEOREM ObjectsAreAudited == Spec => []ObjectsAudited
  <1>1. Init => AllOwned
    BY DEF Init, AllOwned
  <1>2. IInv /\ AllOwned /\ [Next]_vars => (IInv /\ AllOwned)'
    BY NextKeepsIInv, NextKeepsOwned
  <1>3. AllOwned => ObjectsAudited
    BY DEF AllOwned, Owned, ObjectsAudited
  <1> QED
    BY <1>1, <1>2, <1>3, InitIInv, PTL DEF Spec

=============================================================================
