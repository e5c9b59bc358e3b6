------------------------------- MODULE Replay -------------------------------
(***************************************************************************)
(* The replay script (src/scripts/replay.py): an operator rebuilds service *)
(* days by invoking the deployed compactor for every raw hour of their     *)
(* merge windows and then the merger for every day.  Each of the two lots  *)
(* of steps is submitted at once to a pool of threads; the script's own    *)
(* thread takes the results in order, and logs what went well.  The        *)
(* operator may stop the script anywhere, and may run it again with the    *)
(* same log; an invocation the script no longer waits for runs on.         *)
(*                                                                         *)
(* The three partials of an hour are one object here, put at once: how     *)
(* they come to differ is Pipeline's.  The unit of time is hours, long     *)
(* beside the quarter of an hour that an invocation may last, and raw      *)
(* objects outlive the model.                                              *)
(***************************************************************************)
EXTENDS Integers, FiniteSets

CONSTANTS
  Days,         \* the service days that are complete, numbered in order
  WindowOf,     \* day -> the hours of its merge window
  Available,    \* the hours that have raw objects
  Parallel,     \* --parallel
  MaxFailures,  \* MAX_FAILURES
  TrustedFor,   \* COMPACTION_TRUSTED_FOR
  Life,         \* how long a partial lives
  Longest,      \* how long a run of the script takes at the most
  MaxTime       \* bound: the last time the model reaches

Needed(days) == Available \intersect UNION {WindowOf[d] : d \in days}
Hours        == Needed(Days)

(* A logged compaction is trusted from when its result was taken, which    *)
(* may be a run later than its put, and the merges come at the end of the  *)
(* run that trusts it.                                                     *)
ASSUME ReplayAssumption ==
  /\ Days \in SUBSET Nat /\ IsFiniteSet(Days) /\ Days # {}
  /\ Available \in SUBSET Nat /\ IsFiniteSet(Available)
  /\ WindowOf \in [Days -> SUBSET Nat]
  /\ \A d \in Days : Needed({d}) # {}
  /\ Parallel \in Nat \ {0} /\ MaxFailures \in Nat \ {0}
  /\ TrustedFor \in Nat /\ Life \in Nat /\ Longest \in Nat /\ MaxTime \in Nat
  /\ TrustedFor + 2 * Longest < Life

VARIABLES
  now,       \* the clock
  partial,   \* hour -> when the replay put its partials, or Old, or Gone
  fact,      \* day -> what its tables were merged from
  log,       \* the log file: step -> its last record
  phase,     \* which run_steps the script is in
  chosen,    \* --from to --to
  began,     \* when the run began
  job,       \* step -> its future
  failures,  \* failures taken in this run_steps
  orphans    \* steps whose invocation runs with nobody waiting for it

replayVars == <<now, partial, fact, log, phase, chosen, began, job, failures,
                orphans>>

script == <<phase, chosen, began, job, failures>>

Never == -1   \* not in the log
Gone  == -1   \* no partials
Old   == -2   \* partials the replay is to take the place of

Times       == 0..MaxTime
Compactions == {"compact"} \X Hours
Merges      == {"merge"} \X Days
Steps       == Compactions \union Merges

ReplayTypeOK ==
  /\ now \in Times
  /\ partial \in [Hours -> Times \union {Gone, Old}]
  /\ fact \in [Days -> {"old", "rebuilt", "lacking"}]
  /\ log \in [Steps -> Times \union {Never}]
  /\ phase \in {"idle", "compacting", "merging"}
  /\ chosen \in SUBSET Days
  /\ began \in Times
  /\ job \in [Steps -> {"absent", "queued", "running", "ok", "failed", "cancelled", "taken"}]
  /\ failures \in 0..MaxFailures
  /\ orphans \in SUBSET Steps

Idle == [s \in Steps |-> "absent"]

ReplayInit ==
  /\ now = 0
  /\ partial \in [Hours -> {Gone, Old}]
  /\ fact = [d \in Days |-> "old"]
  /\ log = [s \in Steps |-> Never]
  /\ phase = "idle"
  /\ chosen = {}
  /\ began = 0
  /\ job = Idle
  /\ failures = 0
  /\ orphans = {}

-----------------------------------------------------------------------------
(* Time, and the bucket's lifecycle.                                       *)

Passes ==
  /\ now < MaxTime
  /\ orphans = {}
  /\ phase # "idle" => now + 1 - began <= Longest
  /\ now' = now + 1
  /\ UNCHANGED <<partial, fact, log, script, orphans>>

Expire(h) ==
  /\ partial[h] # Gone
  /\ partial[h] = Old \/ now - partial[h] >= Life
  /\ partial' = [partial EXCEPT ![h] = Gone]
  /\ UNCHANGED <<now, fact, log, script, orphans>>

-----------------------------------------------------------------------------
(* The Lambdas.                                                            *)

Listed(d) == {h \in Needed({d}) : partial[h] # Gone}

Merged(d) ==
  IF \A h \in Needed({d}) : partial[h] \in Times THEN "rebuilt" ELSE "lacking"

(* The merger refuses a day that has no partials at all.                   *)
Takes(s) == s[1] = "merge" => Listed(s[2]) # {}

Effect(s) ==
  /\ Takes(s)
  /\ IF s[1] = "compact"
     THEN partial' = [partial EXCEPT ![s[2]] = now] /\ UNCHANGED fact
     ELSE fact' = [fact EXCEPT ![s[2]] = Merged(s[2])] /\ UNCHANGED partial

(* An invocation the script does not wait for any more ends, having done   *)
(* its work or not.                                                        *)
OrphanEnds(s) ==
  /\ s \in orphans
  /\ orphans' = orphans \ {s}
  /\ Effect(s) \/ UNCHANGED <<partial, fact>>
  /\ UNCHANGED <<now, log, script>>

-----------------------------------------------------------------------------
(* The log.                                                                *)

(* Only a compaction's time is ever read back.                             *)
Record(s) == log' = [log EXCEPT ![s] = IF s[1] = "compact" THEN now ELSE 0]

\* Mutant: whatever is in the log is done.
DoneForEver == {s \in Steps : log[s] # Never}

(* A compaction is trusted for a time, a merge for ever.                   *)
Done ==
  {s \in Steps : log[s] # Never /\ (s[1] = "compact" => log[s] >= now - TrustedFor)}

-----------------------------------------------------------------------------
(* run_steps.                                                              *)

Submitted(steps) ==
  [s \in Steps |-> IF s \in steps \ Done THEN "queued" ELSE "absent"]

HoursToCompact(days) == {"compact"} \X Needed(days)

(* The days asked for are consecutive.                                     *)
BeginRun(first, last) ==
  LET days == {d \in Days : first <= d /\ d <= last} IN
  /\ phase = "idle"
  /\ phase' = "compacting"
  /\ chosen' = days
  /\ began' = now
  /\ job' = Submitted(HoursToCompact(days))
  /\ failures' = 0
  /\ UNCHANGED <<now, partial, fact, log, orphans>>

In(state)   == {s \in Steps : job[s] = state}
First(s, S) == s \in S /\ \A t \in S : s[2] <= t[2]
Workers     == IF phase = "merging" THEN 1 ELSE Parallel

Becomes(s, state) == job' = [job EXCEPT ![s] = state]

Start(s) ==
  /\ First(s, In("queued"))
  /\ Cardinality(In("running")) < Workers
  /\ Becomes(s, "running")
  /\ UNCHANGED <<now, partial, fact, log, phase, chosen, began, failures, orphans>>

Succeed(s) ==
  /\ job[s] = "running"
  /\ Effect(s)
  /\ Becomes(s, "ok")
  /\ UNCHANGED <<now, log, phase, chosen, began, failures, orphans>>

(* The call broke or the function raised: what the invocation was to write *)
(* may have been written, or may yet be, or not.                           *)
Fail(s) ==
  /\ job[s] = "running"
  /\ Becomes(s, "failed")
  /\ orphans' = orphans \union {s}
  /\ UNCHANGED <<now, partial, fact, log, phase, chosen, began, failures>>

Stopped == failures = MaxFailures

(* The results are taken in the order of the steps.                        *)
NextResult(s) ==
  /\ ~Stopped
  /\ First(s, Steps \ (In("absent") \union In("taken")))

TakeSuccess(s) ==
  /\ NextResult(s)
  /\ job[s] = "ok"
  /\ Record(s)
  /\ Becomes(s, "taken")
  /\ UNCHANGED <<now, partial, fact, phase, chosen, began, failures, orphans>>

\* Mutant: a failed step is logged like any other.
TakeFailureLogged(s) ==
  /\ NextResult(s)
  /\ job[s] = "failed"
  /\ Record(s)
  /\ failures' = failures + 1
  /\ job' = [t \in Steps |->
               IF t = s THEN "taken"
               ELSE IF job[t] = "queued" /\ failures' = MaxFailures THEN "cancelled"
               ELSE job[t]]
  /\ UNCHANGED <<now, partial, fact, phase, chosen, began, orphans>>

(* At the limit what has not started is cancelled.                         *)
TakeFailure(s) ==
  /\ NextResult(s)
  /\ job[s] = "failed"
  /\ failures' = failures + 1
  /\ job' = [t \in Steps |->
               IF t = s THEN "taken"
               ELSE IF job[t] = "queued" /\ failures' = MaxFailures THEN "cancelled"
               ELSE job[t]]
  /\ UNCHANGED <<now, partial, fact, log, phase, chosen, began, orphans>>

\* Mutant: the loop goes on past the limit, to results that never come.
OverWhenTaken ==
  /\ phase # "idle"
  /\ In("running") = {}
  /\ \A s \in Steps : job[s] \in {"absent", "taken"}

(* Every result is taken, or the limit was met; the pool waits for what is *)
(* running, whose results nobody takes then.                               *)
StepsOver ==
  /\ phase # "idle"
  /\ In("running") = {}
  /\ Stopped \/ \A s \in Steps : job[s] \in {"absent", "taken"}

(* main: the days are merged only when no hour failed.                     *)
ToMerges ==
  /\ phase = "compacting"
  /\ StepsOver
  /\ failures = 0
  /\ phase' = "merging"
  /\ job' = Submitted({"merge"} \X chosen)
  /\ UNCHANGED <<now, partial, fact, log, chosen, began, failures, orphans>>

(* What the script held in memory goes with it.                            *)
Ends ==
  /\ phase' = "idle"
  /\ chosen' = {}
  /\ began' = 0
  /\ job' = Idle
  /\ failures' = 0

Exit ==
  /\ StepsOver
  /\ phase = "merging" \/ failures > 0
  /\ Ends
  /\ UNCHANGED <<now, partial, fact, log, orphans>>

(* The operator stops the script, or it dies, anywhere.                    *)
Killed ==
  /\ phase # "idle"
  /\ Ends
  /\ orphans' = orphans \union In("running")
  /\ UNCHANGED <<now, partial, fact, log>>

-----------------------------------------------------------------------------
Step(s) == Start(s) \/ Succeed(s) \/ Fail(s) \/ TakeSuccess(s) \/ TakeFailure(s)

ReplayNext ==
  \/ Passes \/ Killed \/ ToMerges \/ Exit
  \/ \E h \in Hours : Expire(h)
  \/ \E first, last \in Days : first <= last /\ BeginRun(first, last)
  \/ \E s \in Steps : Step(s) \/ OrphanEnds(s)

ReplaySpec == ReplayInit /\ [][ReplayNext]_replayVars

(* A thread of the script goes on when it can, and an invocation comes     *)
(* back, if only by READ_TIMEOUT.                                          *)
ReplayFairness == WF_replayVars(ToMerges \/ Exit \/ \E s \in Steps : Step(s))

-----------------------------------------------------------------------------
(* Properties.                                                             *)

(* No merge writes a day from anything but partials of the replay: none of *)
(* those it is to take the place of, none missing, whatever was skipped as *)
(* done, expired since it was logged, failed, or is still running from an  *)
(* earlier run (ReplayLog.done, main).                                     *)
NeverLacking == \A d \in Days : fact[d] # "lacking"

(* A run that is over with no failure, and so exits with 0, leaves every   *)
(* day it was asked for rebuilt (run_steps, main).                         *)
FinishedIsRebuilt ==
  phase = "merging" /\ StepsOver /\ failures = 0 =>
    \A d \in chosen : fact[d] = "rebuilt"

(* Every run comes to an end: no result is waited for that does not come,  *)
(* after the limit of failures as before it (run_steps).                   *)
RunEnds == phase # "idle" ~> phase = "idle"

=============================================================================
