----------------------------- MODULE Collector -----------------------------
(***************************************************************************)
(* The collector Lambda (src/collector/handler.py), with the fetch         *)
(* (src/common/feeds.py) and the bucket writes (src/common/storage.py) it  *)
(* makes.  EventBridge starts one invocation per Period; an invocation     *)
(* runs one thread per scheduled poll, and each thread sleeps until its    *)
(* offset, takes one of the invocation's semaphore permits for the fetch   *)
(* only, stores the payload, and leaves an outcome.  When every thread has *)
(* ended, one audit record of all the polls is written.                    *)
(*                                                                         *)
(* Invocations overlap, because an invocation may live for Timeout, which  *)
(* is longer than Period.  Lambda ends one that outlives Timeout, and      *)
(* starts a failed one again under the same request id.  One unit of time  *)
(* is the resolution of an object key: one second.                         *)
(***************************************************************************)
EXTENDS Integers, FiniteSets

CONSTANTS
  Minutes,             \* bound: how many times EventBridge fires
  Schedule,            \* poll_schedule(): poll -> [offset, feed]
  MaxConcurrentPolls,  \* MAX_CONCURRENT_POLLS
  Period,              \* the EventBridge rate
  Timeout,             \* the function's Timeout
  MaxAttempts,         \* attempts Lambda makes at one request
  Horizon              \* bound: the last second the model reaches

Invocations == 0..(Minutes - 1)   \* request ids, by the minute they are for

Polls   == DOMAIN Schedule
Feeds   == {Schedule[p].feed : p \in Polls}
Seconds == 0..Horizon
Keys    == Feeds \X Seconds

ASSUME CollectorAssumption ==
  /\ Minutes \in Nat
  /\ IsFiniteSet(Polls)
  /\ Schedule \in [Polls -> [offset : Nat, feed : Feeds]]
  /\ MaxConcurrentPolls \in Nat \ {0}
  /\ Period \in Nat \ {0}
  /\ Timeout \in Nat \ {0}
  /\ MaxAttempts \in Nat \ {0}
  /\ Horizon \in Nat

VARIABLES
  now,       \* the clock, in seconds
  phase,     \* invocation -> where its current attempt is
  attempt,   \* invocation -> attempts begun
  started,   \* invocation -> when its current attempt began
  permits,   \* invocation -> semaphore permits not taken
  poll,      \* invocation -> poll -> the poll's thread
  raw,       \* key -> the <<invocation, attempt, poll>> stored there
  trail      \* invocation -> its audit record

vars == <<now, phase, attempt, started, permits, poll, raw, trail>>

Nobody   == <<>>
NoRecord == <<>>
NoTime   == -1

Writers  == Invocations \X (1..MaxAttempts) \X Polls
Errors   == {"none", "fetch", "storage", "crash"}
Entries  == [fetched : Seconds, error : Errors, body : BOOLEAN]

Failed   == {"raised", "unrecorded", "killed"}
Phases   == {"idle", "running", "returned"} \union Failed
Ended    == {"done", "crashed"}

Waiting ==
  [at |-> "waiting", fetched |-> NoTime, error |-> "none",
   body |-> FALSE, stored |-> FALSE]

Threads ==
  [at : {"waiting", "fetching", "storing"} \union Ended,
   fetched : Seconds \union {NoTime}, error : Errors,
   body : BOOLEAN, stored : BOOLEAN]

TypeOK ==
  /\ now \in Seconds
  /\ phase \in [Invocations -> Phases]
  /\ attempt \in [Invocations -> 0..MaxAttempts]
  /\ started \in [Invocations -> Seconds]
  /\ permits \in [Invocations -> 0..MaxConcurrentPolls]
  /\ poll \in [Invocations -> [Polls -> Threads]]
  /\ raw \in [Keys -> Writers \union {Nobody}]
  /\ trail \in [Invocations -> [Polls -> Entries] \union {NoRecord}]

Init ==
  /\ now = 0
  /\ phase = [i \in Invocations |-> "idle"]
  /\ attempt = [i \in Invocations |-> 0]
  /\ started = [i \in Invocations |-> 0]
  /\ permits = [i \in Invocations |-> MaxConcurrentPolls]
  /\ poll = [i \in Invocations |-> [p \in Polls |-> Waiting]]
  /\ raw = [k \in Keys |-> Nobody]
  /\ trail = [i \in Invocations |-> NoRecord]

-----------------------------------------------------------------------------
(* The environment: the clock, EventBridge and the Lambda service.         *)

Running  == {i \in Invocations : phase[i] = "running"}
Deadline(i) == started[i] + Timeout

(* Lambda lets no attempt live past its timeout.                           *)
Tick ==
  /\ now < Horizon
  /\ \A i \in Running : now < Deadline(i)
  /\ now' = now + 1
  /\ UNCHANGED <<phase, attempt, started, permits, poll, raw, trail>>

(* Reading the API key can fail before any poll is submitted.              *)
Begin(i) ==
  /\ now + Timeout <= Horizon
  /\ attempt[i] < MaxAttempts
  /\ attempt' = [attempt EXCEPT ![i] = @ + 1]
  /\ started' = [started EXCEPT ![i] = now]
  /\ \E outcome \in {"running", "unrecorded"} :
       phase' = [phase EXCEPT ![i] = outcome]
  /\ UNCHANGED <<now, permits, poll, raw, trail>>

Trigger(i) ==
  /\ phase[i] = "idle"
  /\ now = Period * i
  /\ Begin(i)

(* Lambda waits a minute before it tries a failed invocation again.        *)
Retry(i) ==
  /\ phase[i] \in Failed
  /\ now >= started[i] + Period
  /\ Begin(i)

(* An attempt's threads and semaphore go with it: the next one has a pool  *)
(* and a semaphore of its own.                                             *)
End(i, ending) ==
  /\ phase' = [phase EXCEPT ![i] = ending]
  /\ permits' = [permits EXCEPT ![i] = MaxConcurrentPolls]
  /\ poll' = [poll EXCEPT ![i] = [p \in Polls |-> Waiting]]
  /\ UNCHANGED <<now, attempt, started, raw>>

(* At the timeout the attempt is killed wherever it is, with no record.    *)
Kill(i) ==
  /\ phase[i] = "running"
  /\ now = Deadline(i)
  /\ End(i, "killed")
  /\ UNCHANGED trail

-----------------------------------------------------------------------------
(* One poll's thread: poll_and_store.                                      *)

Thread(i, p, at) ==
  /\ phase[i] = "running"
  /\ poll[i][p].at = at

Becomes(i, p, thread) == poll' = [poll EXCEPT ![i] = [@ EXCEPT ![p] = thread]]

\* Mutant: the key takes the time of the store, not of the fetch.
KeyAtStore(i, p) == <<Schedule[p].feed, now>>

RawKey(i, p) == <<Schedule[p].feed, poll[i][p].fetched>>

(* poll_at: past its offset and with a permit, the fetch begins, and only  *)
(* then is its time, the time in its object key, taken.                    *)
Due(i, p) ==
  /\ Thread(i, p, "waiting")
  /\ now >= started[i] + Schedule[p].offset

Issue(i, p) ==
  /\ Due(i, p)
  /\ permits[i] > 0
  /\ permits' = [permits EXCEPT ![i] = @ - 1]
  /\ Becomes(i, p, [Waiting EXCEPT !.at = "fetching", !.fetched = now])
  /\ UNCHANGED <<now, phase, attempt, started, raw, trail>>

\* Mutant: the permit is given back twice.
ReleaseTwice(i) == permits' = [permits EXCEPT ![i] = @ + 2]

Release(i) == permits' = [permits EXCEPT ![i] = @ + 1]

(* A transport error and a non-200 status give an error and no body; a 200 *)
(* gives whatever content it carried, which may be none.                   *)
FetchEnds(i, p) ==
  /\ Thread(i, p, "fetching")
  /\ Release(i)
  /\ \E answer \in {"payload", "blank", "failed"} :
       Becomes(i, p, [poll[i][p] EXCEPT
         !.at = "storing",
         !.body = (answer = "payload"),
         !.error = IF answer = "failed" THEN "fetch" ELSE "none"])
  /\ UNCHANGED <<now, phase, attempt, started, raw, trail>>

\* Mutant: acquire and release without a with.
CrashKeepsPermit(i, p) ==
  /\ Thread(i, p, "fetching")
  /\ Becomes(i, p, [Waiting EXCEPT !.at = "crashed"])
  /\ UNCHANGED <<now, phase, attempt, started, permits, raw, trail>>

(* What fetch_feed does not contain unwinds through the semaphore's with,  *)
(* and takes the result with it.                                           *)
FetchCrashes(i, p) ==
  /\ Thread(i, p, "fetching")
  /\ Release(i)
  /\ Becomes(i, p, [Waiting EXCEPT !.at = "crashed"])
  /\ UNCHANGED <<now, phase, attempt, started, raw, trail>>

PutRaw(i, p) ==
  raw' = [raw EXCEPT ![RawKey(i, p)] = <<i, attempt[i], p>>]

StoreNothing(i, p) ==
  /\ Thread(i, p, "storing")
  /\ ~poll[i][p].body
  /\ Becomes(i, p, [poll[i][p] EXCEPT !.at = "done"])
  /\ UNCHANGED <<now, phase, attempt, started, permits, raw, trail>>

StorePayload(i, p) ==
  /\ Thread(i, p, "storing")
  /\ poll[i][p].body
  /\ PutRaw(i, p)
  /\ Becomes(i, p, [poll[i][p] EXCEPT !.at = "done", !.stored = TRUE])
  /\ UNCHANGED <<now, phase, attempt, started, permits, trail>>

\* Mutant: the storage error is not folded into the audit record.
StoreFailsUnfolded(i, p) ==
  /\ Thread(i, p, "storing")
  /\ poll[i][p].body
  /\ PutRaw(i, p) \/ UNCHANGED raw
  /\ Becomes(i, p, [poll[i][p] EXCEPT !.at = "done"])
  /\ UNCHANGED <<now, phase, attempt, started, permits, trail>>

(* store_one contains the S3 client's errors, and audit_record folds them  *)
(* in.  A put whose answer was lost has been applied all the same.         *)
StoreFails(i, p) ==
  /\ Thread(i, p, "storing")
  /\ poll[i][p].body
  /\ PutRaw(i, p) \/ UNCHANGED raw
  /\ Becomes(i, p, [poll[i][p] EXCEPT !.at = "done", !.error = "storage"])
  /\ UNCHANGED <<now, phase, attempt, started, permits, trail>>

(* Anything else the store raises ends the thread.                         *)
StoreCrashes(i, p) ==
  /\ Thread(i, p, "storing")
  /\ poll[i][p].body
  /\ PutRaw(i, p) \/ UNCHANGED raw
  /\ Becomes(i, p, [Waiting EXCEPT !.at = "crashed"])
  /\ UNCHANGED <<now, phase, attempt, started, permits, trail>>

-----------------------------------------------------------------------------
(* The handler's thread: _gather, then record_run in collect's finally.    *)

Gathered(i) == \A p \in Polls : poll[i][p].at \in Ended
Crashed(i)  == {p \in Polls : poll[i][p].at = "crashed"}

\* Mutant: a crashed poll's placeholder carries no error.
EntrySilent(i, p) ==
  IF p \in Crashed(i)
  THEN [fetched |-> now, error |-> "none", body |-> FALSE]
  ELSE [fetched |-> poll[i][p].fetched, error |-> poll[i][p].error,
        body |-> poll[i][p].body]

(* A crashed poll keeps its place, as a placeholder made while gathering.  *)
Entry(i, p) ==
  IF p \in Crashed(i)
  THEN [fetched |-> now, error |-> "crash", body |-> FALSE]
  ELSE [fetched |-> poll[i][p].fetched, error |-> poll[i][p].error,
        body |-> poll[i][p].body]

(* The record's key carries the request id, so an attempt's record takes   *)
(* the place of an earlier attempt's.                                      *)
PutRunRecord(i) ==
  trail' = [trail EXCEPT ![i] = [p \in Polls |-> Entry(i, p)]]

RecordRun(i) ==
  /\ phase[i] = "running"
  /\ Gathered(i)
  /\ PutRunRecord(i)
  /\ End(i, IF Crashed(i) = {} THEN "returned" ELSE "raised")

RecordFails(i) ==
  /\ phase[i] = "running"
  /\ Gathered(i)
  /\ PutRunRecord(i) \/ UNCHANGED trail
  /\ End(i, "unrecorded")

-----------------------------------------------------------------------------
StepOf(i, p) ==
  \/ Issue(i, p)
  \/ FetchEnds(i, p) \/ FetchCrashes(i, p)
  \/ StoreNothing(i, p) \/ StorePayload(i, p)
  \/ StoreFails(i, p) \/ StoreCrashes(i, p)

(* Past the horizon nothing is modelled.                                   *)
Rest ==
  /\ now = Horizon
  /\ Running = {}
  /\ UNCHANGED vars

Next ==
  \/ Tick
  \/ \E i \in Invocations :
       \/ Trigger(i) \/ Retry(i) \/ Kill(i)
       \/ RecordRun(i) \/ RecordFails(i)
       \/ \E p \in Polls : StepOf(i, p)
  \/ Rest

Spec == Init /\ [][Next]_vars

(* The behaviours in which no thread is late by itself: the clock does not *)
(* move on while a poll is due and a permit is free.                       *)
Prompt ==
  now' # now =>
    \A i \in Invocations : permits[i] = 0 \/ ~\E p \in Polls : Due(i, p)

PromptSpec == Init /\ [][Next /\ Prompt]_vars

(* Threads are scheduled, time passes, and a fetch and a put come back:    *)
(* both have connect and read timeouts.  Nothing makes Lambda kill.        *)
Fairness ==
  /\ WF_vars(Tick)
  /\ \A i \in Invocations :
       /\ WF_vars(RecordRun(i) \/ RecordFails(i))
       /\ \A p \in Polls : WF_vars(StepOf(i, p))

FairSpec == Spec /\ Fairness
-----------------------------------------------------------------------------
(* Properties.                                                             *)

Fetching(i) == {p \in Polls : poll[i][p].at = "fetching"}

(* Every permit of an invocation is either free or held by one of its      *)
(* polls whose fetch is under way: none leaks on an error path, none is    *)
(* held across a store, none is released twice.  So at most                *)
(* MAX_CONCURRENT_POLLS fetches run at once, and a poll that is held up is *)
(* held up by that many fetches of its own invocation                      *)
(* (poll_at, poll_and_store).                                              *)
PermitsConserved ==
  \A i \in Running : permits[i] + Cardinality(Fetching(i)) = MaxConcurrentPolls

(* A poll is stored exactly when the record it leaves shows bytes and no   *)
(* error, which is how every later reader of the audit trail tells         *)
(* (store_one, audit_record, poll_and_store).                              *)
StoredIsAudited ==
  \A i \in Invocations, p \in Polls :
    LET t == poll[i][p] IN
    t.at = "done" => (t.stored <=> t.body /\ t.error = "none")

(* What the audit trail says was collected is in the bucket, whatever      *)
(* crashed, failed, was killed or was tried again in between               *)
(* (record_run, put_raw).                                                  *)
AuditSound ==
  \A i \in Invocations :
    trail[i] # NoRecord =>
      \A p \in Polls :
        LET e == trail[i][p] IN
        e.body /\ e.error = "none" =>
          raw[<<Schedule[p].feed, e.fetched>>] # Nobody

(* The object under k is accounted for by its writer's record: listed      *)
(* under its own key, or put down as a storage failure or a crash.         *)
Accounted(k) ==
  LET e == trail[raw[k][1]][raw[k][3]] IN
  \/ e.error \in {"storage", "crash"}
  \/ e.error = "none" /\ e.body /\ e.fetched = k[2]

WriterOver(k) == phase[raw[k][1]] \in {"returned", "raised"}

(* Every object of an invocation that is over, and that took one attempt,  *)
(* is accounted for in the audit trail (_gather, record_run, collect).     *)
ObjectsAudited ==
  \A k \in Keys :
    raw[k] # Nobody /\ WriterOver(k) /\ attempt[raw[k][1]] = 1 => Accounted(k)

(* When a poll crashes, what the record says of the polls that completed   *)
(* is not lost (collect's docstring: the record of "every poll that did    *)
(* complete is written", "without losing the audit trail").                *)
CrashKeepsTrail ==
  [][\A i \in Invocations, p, q \in Polls :
       /\ trail[i] # NoRecord
       /\ trail[i][p].error = "crash"
       /\ trail[i][q].error = "none"
       => trail'[i][q] = trail[i][q]]_trail

(* One invocation never replaces an object another one stored              *)
(* (handler.py's header: "an overlap cannot overwrite anything").          *)
OverlapNeverOverwrites ==
  [][\A k \in Keys :
       raw[k] # Nobody /\ raw'[k] # raw[k] => raw'[k][1] = raw[k][1]]_raw

(* Every attempt that begins comes to an end of its own, Lambda's timeout  *)
(* aside: no poll waits for ever on the semaphore, and the wait for every  *)
(* poll in _gather ends.                                                   *)
AttemptEnds ==
  \A i \in Invocations : phase[i] = "running" ~> phase[i] # "running"

=============================================================================
