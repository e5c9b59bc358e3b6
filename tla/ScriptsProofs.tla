--------------------------- MODULE ScriptsProofs ---------------------------
(***************************************************************************)
(* Proofs about the scripts an operator runs by hand: the replay of days,  *)
(* the pull of the marts' tables and the renaming of the snapshots, for    *)
(* any days, tables, dates and checks, any number of operators and of      *)
(* puts, and then of the run of all three.                                 *)
(***************************************************************************)
EXTENDS MCScripts, FiniteLemmas, SequenceTheorems

(***************************************************************************)
(* The replay.  The one thing asked of the times is ReplayAssumption's     *)
(* last conjunct: that a compaction's trust and two runs of the script fit *)
(* in a partial's life.                                                    *)
(***************************************************************************)

Compact(h) == <<"compact", h>>
Merge(d)   == <<"merge", d>>

(* The hour's partials are the replay's, and not yet due to expire.        *)
Live(h) == partial[h] \in Times /\ now - partial[h] < Life

(* The hour's compaction was logged lately enough for the run to trust.    *)
Recent(h) == log[Compact(h)] # Never /\ log[Compact(h)] >= began - TrustedFor

InRun == phase # "idle" => began <= now /\ now <= began + Longest

JobsOfPhase ==
  \A s \in Steps : job[s] # "absent" =>
    \/ phase = "compacting" /\ s[1] = "compact"
    \/ phase = "merging" /\ s[1] = "merge" /\ s[2] \in chosen

(* A logged compaction was put no more than a run before it was logged.    *)
Backed ==
  \A h \in Hours :
    /\ partial[h] \in Times => partial[h] <= now
    /\ log[Compact(h)] <= now
    /\ log[Compact(h)] # Never /\ now < log[Compact(h)] - Longest + Life =>
         partial[h] \in Times /\ partial[h] >= log[Compact(h)] - Longest

Fresh ==
  \A h \in Hours :
    job[Compact(h)] = "ok" => partial[h] \in Times /\ partial[h] >= began

Settled ==
  \A h \in Needed(chosen) :
    \/ phase = "merging"
    \/ /\ phase = "compacting"
       /\ job[Compact(h)] = "absent" \/ (job[Compact(h)] = "taken" /\ failures = 0)
    => Recent(h)

OrphansLive ==
  \A d \in Days : Merge(d) \in orphans => \A h \in Needed({d}) : Live(h)

Rebuilt ==
  \A d \in Days :
    \/ log[Merge(d)] # Never
    \/ job[Merge(d)] = "ok"
    \/ /\ phase = "merging" /\ d \in chosen
       /\ job[Merge(d)] = "absent" \/ (job[Merge(d)] = "taken" /\ failures = 0)
    => fact[d] = "rebuilt"

ReplayInv ==
  /\ ReplayTypeOK
  /\ InRun
  /\ JobsOfPhase
  /\ Backed
  /\ Fresh
  /\ Settled
  /\ OrphansLive
  /\ Rebuilt
  /\ NeverLacking

-----------------------------------------------------------------------------
(* Steps, and the hours behind them.                                       *)

LEMMA StepKinds ==
  ASSUME NEW s \in Steps
  PROVE  \/ s[1] = "compact" /\ s[2] \in Hours /\ s = Compact(s[2]) /\ s \in Compactions
         \/ s[1] = "merge" /\ s[2] \in Days /\ s = Merge(s[2]) /\ s \in Merges
  BY DEF Steps, Compactions, Merges, Compact, Merge

LEMMA StepsOf ==
  /\ \A h \in Hours : Compact(h) \in Steps /\ Compact(h)[1] = "compact" /\ Compact(h)[2] = h
  /\ \A d \in Days : Merge(d) \in Steps /\ Merge(d)[1] = "merge" /\ Merge(d)[2] = d
  BY DEF Steps, Compactions, Merges, Compact, Merge

LEMMA NeededHours ==
  /\ \A days \in SUBSET Days : Needed(days) \subseteq Hours
  /\ \A days \in SUBSET Days : \A d \in days : Needed({d}) \subseteq Needed(days)
  BY DEF Needed, Hours

LEMMA Constants ==
  /\ TrustedFor \in Nat /\ Life \in Nat /\ Longest \in Nat /\ MaxTime \in Nat
  /\ MaxFailures \in Nat /\ MaxFailures # 0
  /\ TrustedFor + 2 * Longest < Life
  BY ReplayAssumption DEF ReplayAssumption

(* Every hour a merging run reads is there, and stays until the run ends.  *)
LEMMA MergingIsLive ==
  ASSUME ReplayInv, phase = "merging", NEW h \in Needed(chosen)
  PROVE  Live(h)
  <1>1. h \in Hours
    BY NeededHours DEF ReplayInv, ReplayTypeOK
  <1>2. Recent(h)
    BY DEF ReplayInv, Settled
  <1>3. /\ now \in Nat /\ began \in Nat /\ began <= now /\ now <= began + Longest
        /\ log[Compact(h)] \in Nat
    BY <1>1, <1>2, StepsOf, Constants DEF ReplayInv, ReplayTypeOK, InRun, Recent, Times, Never
  <1>4. /\ log[Compact(h)] >= began - TrustedFor
        /\ log[Compact(h)] # Never
    BY <1>2 DEF Recent
  <1>5. now < log[Compact(h)] - Longest + Life
    BY <1>3, <1>4, Constants
  <1>6. partial[h] \in Times /\ partial[h] >= log[Compact(h)] - Longest
    BY <1>1, <1>4, <1>5 DEF ReplayInv, Backed
  <1> QED
    BY <1>3, <1>5, <1>6, Constants DEF Live, Times

-----------------------------------------------------------------------------
LEMMA ReplayInitInv ==
  ASSUME ReplayInit PROVE ReplayInv
  <1>1. ReplayTypeOK
    BY Constants DEF ReplayInit, ReplayTypeOK, Times, Idle
  <1>2. /\ \A h \in Hours : log[Compact(h)] = Never /\ job[Compact(h)] = "absent"
        /\ \A d \in Days : log[Merge(d)] = Never /\ job[Merge(d)] = "absent"
    BY StepsOf DEF ReplayInit, Idle
  <1>3. \A h \in Hours : partial[h] \notin Times /\ log[Compact(h)] <= now
    BY <1>2, Constants DEF ReplayInit, Times, Gone, Old, Never
  <1>4. InRun /\ JobsOfPhase /\ OrphansLive /\ NeverLacking
    BY DEF ReplayInit, InRun, JobsOfPhase, OrphansLive, NeverLacking, Idle
  <1>5. Backed /\ Fresh /\ Settled /\ Rebuilt
    BY <1>2, <1>3 DEF ReplayInit, Backed, Fresh, Settled, Rebuilt
  <1> QED
    BY <1>1, <1>4, <1>5 DEF ReplayInv

(* What an invocation may write keeps everything but the jobs: a           *)
(* compaction makes its hour live, and a merge that reads live hours       *)
(* rebuilds its day.                                                       *)
LEMMA EffectKeeps ==
  ASSUME ReplayInv, NEW s \in Steps,
         Effect(s) \/ UNCHANGED <<partial, fact>>,
         s[1] = "merge" => \A h \in Needed({s[2]}) : Live(h),
         UNCHANGED now
  PROVE  /\ partial' \in [Hours -> Times \union {Gone, Old}]
         /\ fact' \in [Days -> {"old", "rebuilt", "lacking"}]
         /\ \A h \in Hours : partial'[h] = partial[h] \/ partial'[h] = now
         /\ \A h \in Hours : Live(h) => Live(h)'
         /\ \A d \in Days : fact'[d] = fact[d] \/ fact'[d] = "rebuilt"
         /\ Effect(s) /\ s[1] = "compact" => partial'[s[2]] = now
         /\ Effect(s) /\ s[1] = "merge" => fact'[s[2]] = "rebuilt"
  <1> USE Constants
  <1>1. /\ partial \in [Hours -> Times \union {Gone, Old}]
        /\ fact \in [Days -> {"old", "rebuilt", "lacking"}] /\ now \in Times
    BY DEF ReplayInv, ReplayTypeOK
  <1>2. CASE UNCHANGED <<partial, fact>> /\ ~Effect(s)
    BY <1>1, <1>2 DEF Live
  <1>3. CASE Effect(s) /\ s[1] = "compact"
    <2>1. s[2] \in Hours
      BY <1>3, StepKinds
    <2>2. partial' = [partial EXCEPT ![s[2]] = now] /\ fact' = fact
      BY <1>3 DEF Effect
    <2>3. \A h \in Hours : Live(h) => Live(h)'
      BY <1>1, <2>1, <2>2 DEF Live, Times
    <2> QED
      BY <1>1, <1>3, <2>1, <2>2, <2>3
  <1>4. CASE Effect(s) /\ s[1] = "merge"
    <2>1. s[2] \in Days
      BY <1>4, StepKinds
    <2>2. fact' = [fact EXCEPT ![s[2]] = Merged(s[2])] /\ partial' = partial
      BY <1>4 DEF Effect
    <2>3. Merged(s[2]) = "rebuilt"
      BY <1>4 DEF Merged, Live
    <2>4. \A h \in Hours : Live(h) => Live(h)'
      BY <2>2 DEF Live
    <2> QED
      BY <1>1, <1>4, <2>1, <2>2, <2>3, <2>4
  <1> QED
    BY <1>2, <1>3, <1>4, StepKinds

-----------------------------------------------------------------------------
(* Each action preserves the invariant.                                    *)

LEMMA PassesInv ==
  ASSUME ReplayInv, Passes PROVE ReplayInv'
  <1> USE Constants DEF ReplayInv
  <1>1. ReplayTypeOK'
    BY DEF Passes, script, ReplayTypeOK, Times
  <1>2. InRun'
    BY DEF Passes, script, InRun, ReplayTypeOK, Times
  <1>3. JobsOfPhase' /\ NeverLacking'
    BY DEF Passes, script, JobsOfPhase, NeverLacking
  <1>4. Backed'
    BY StepsOf DEF Passes, script, Backed, ReplayTypeOK, Times, Never
  <1>5. Fresh' /\ Settled' /\ Rebuilt'
    BY DEF Passes, script, Fresh, Settled, Rebuilt, Recent
  <1>6. OrphansLive'
    BY DEF Passes, OrphansLive
  <1> QED
    BY <1>1, <1>2, <1>3, <1>4, <1>5, <1>6

LEMMA ExpireInv ==
  ASSUME ReplayInv, NEW x \in Hours, Expire(x) PROVE ReplayInv'
  <1> USE Constants DEF ReplayInv
  <1>1. ReplayTypeOK'
    BY DEF Expire, script, ReplayTypeOK
  <1>2. InRun' /\ JobsOfPhase' /\ NeverLacking' /\ Settled' /\ Rebuilt'
    BY DEF Expire, script, InRun, JobsOfPhase, NeverLacking, Settled, Rebuilt, Recent
  <1>3. /\ partial \in [Hours -> Times \union {Gone, Old}] /\ now \in Nat
        /\ \A h \in Hours : log[Compact(h)] \in Times \union {Never}
        /\ partial' = [partial EXCEPT ![x] = Gone]
        /\ UNCHANGED <<now, log, phase, began, job, orphans>>
        /\ partial[x] \in Times => now - partial[x] >= Life
    BY StepsOf DEF Expire, script, ReplayTypeOK, Times, Old, Gone
  <1>4. Gone \notin Times
    BY DEF Gone, Times
  <1>5. \A h \in Hours : partial[h] \in Times /\ now - partial[h] < Life => partial'[h] = partial[h]
    BY <1>3 DEF Times
  <1>6. Backed'
    <2> SUFFICES ASSUME NEW h \in Hours
                 PROVE  /\ partial'[h] \in Times => partial'[h] <= now
                        /\ log[Compact(h)] <= now
                        /\ log[Compact(h)] # Never /\ now < log[Compact(h)] - Longest + Life =>
                             partial'[h] \in Times /\ partial'[h] >= log[Compact(h)] - Longest
      BY <1>3 DEF Backed
    <2>1. partial'[h] \in Times => partial'[h] <= now
      BY <1>3, <1>4 DEF Backed
    <2>2. ASSUME log[Compact(h)] # Never, now < log[Compact(h)] - Longest + Life
          PROVE  partial'[h] \in Times /\ partial'[h] >= log[Compact(h)] - Longest
      <3>1. partial[h] \in Times /\ partial[h] >= log[Compact(h)] - Longest
        BY <2>2 DEF Backed
      <3>2. now - partial[h] < Life
        BY <1>3, <2>2, <3>1 DEF Times, Never
      <3> QED
        BY <1>5, <3>1, <3>2
    <2> QED
      BY <2>1, <2>2 DEF Backed
  <1>7. Fresh'
    <2> SUFFICES ASSUME NEW h \in Hours, job[Compact(h)] = "ok"
                 PROVE  partial'[h] \in Times /\ partial'[h] >= began
      BY <1>3 DEF Fresh
    <2>1. phase # "idle"
      BY StepsOf DEF JobsOfPhase
    <2>2. partial[h] \in Times /\ partial[h] >= began
      BY DEF Fresh
    <2>3. now - partial[h] < Life
      BY <1>3, <2>1, <2>2 DEF InRun, ReplayTypeOK, Times
    <2> QED
      BY <1>5, <2>2, <2>3
  <1>8. OrphansLive'
    <2> SUFFICES ASSUME NEW d \in Days, Merge(d) \in orphans, NEW h \in Needed({d})
                 PROVE  Live(h)'
      BY <1>3 DEF OrphansLive
    <2>1. h \in Hours
      BY NeededHours
    <2>2. Live(h)
      BY DEF OrphansLive
    <2> QED
      BY <1>3, <1>5, <2>1, <2>2 DEF Live
  <1> QED
    BY <1>1, <1>2, <1>6, <1>7, <1>8

(* The parts of the invariant that what an invocation writes cannot upset, *)
(* stated for any step that leaves the log and the script's clock alone.   *)
LEMMA EffectInv ==
  ASSUME ReplayInv, UNCHANGED <<now, log, began>>,
         partial' \in [Hours -> Times \union {Gone, Old}],
         \A h \in Hours : partial'[h] = partial[h] \/ partial'[h] = now,
         \A h \in Hours : Live(h) => Live(h)'
  PROVE  /\ Backed'
         /\ \A h \in Hours : partial[h] \in Times /\ partial[h] >= began /\ phase # "idle"
              => partial'[h] \in Times /\ partial'[h] >= began
  <1> USE Constants DEF ReplayInv
  <1>1. /\ now \in Times /\ began \in Times /\ now \in Nat /\ began \in Nat
        /\ \A h \in Hours : log[Compact(h)] \in Times \union {Never}
    BY StepsOf DEF ReplayTypeOK, Times
  <1>2. Backed'
    BY <1>1 DEF Backed, Times, Never
  <1>3. \A h \in Hours : partial[h] \in Times /\ partial[h] >= began /\ phase # "idle"
              => partial'[h] \in Times /\ partial'[h] >= began
    BY <1>1 DEF InRun
  <1> QED
    BY <1>2, <1>3

LEMMA OrphanEndsInv ==
  ASSUME ReplayInv, NEW s \in Steps, OrphanEnds(s) PROVE ReplayInv'
  <1> USE DEF ReplayInv
  <1>1. /\ s \in orphans /\ orphans' = orphans \ {s}
        /\ Effect(s) \/ UNCHANGED <<partial, fact>>
        /\ UNCHANGED <<now, log, phase, chosen, began, job, failures>>
    BY DEF OrphanEnds, script
  <1>2. s[1] = "merge" => \A h \in Needed({s[2]}) : Live(h)
    BY <1>1, StepKinds DEF OrphansLive
  <1>3. /\ partial' \in [Hours -> Times \union {Gone, Old}]
        /\ fact' \in [Days -> {"old", "rebuilt", "lacking"}]
        /\ \A h \in Hours : partial'[h] = partial[h] \/ partial'[h] = now
        /\ \A h \in Hours : Live(h) => Live(h)'
        /\ \A d \in Days : fact'[d] = fact[d] \/ fact'[d] = "rebuilt"
    BY <1>1, <1>2, EffectKeeps
  <1>4. ReplayTypeOK'
    BY <1>1, <1>3 DEF ReplayTypeOK
  <1>5. InRun' /\ JobsOfPhase' /\ Settled'
    BY <1>1 DEF InRun, JobsOfPhase, Settled, Recent
  <1>6. Backed'
    BY <1>1, <1>3, EffectInv
  <1>7. Fresh'
    <2> SUFFICES ASSUME NEW h \in Hours, job[Compact(h)] = "ok"
                 PROVE  partial'[h] \in Times /\ partial'[h] >= began
      BY <1>1 DEF Fresh
    <2>1. phase # "idle"
      BY StepsOf DEF JobsOfPhase
    <2> QED
      BY <1>1, <1>3, <2>1, EffectInv DEF Fresh
  <1>8. OrphansLive'
    BY <1>1, <1>3, NeededHours DEF OrphansLive
  <1>9. Rebuilt' /\ NeverLacking'
    BY <1>1, <1>3 DEF Rebuilt, NeverLacking
  <1> QED
    BY <1>4, <1>5, <1>6, <1>7, <1>8, <1>9

LEMMA BeginRunInv ==
  ASSUME ReplayInv, NEW first \in Days, NEW last \in Days, BeginRun(first, last) PROVE ReplayInv'
  <1> USE Constants DEF ReplayInv
  <1> DEFINE days == {d \in Days : first <= d /\ d <= last}
  <1>1. /\ phase = "idle" /\ phase' = "compacting" /\ chosen' = days /\ began' = now
        /\ job' = Submitted(HoursToCompact(days)) /\ failures' = 0
        /\ UNCHANGED <<now, partial, fact, log, orphans>>
    BY DEF BeginRun
  <1>2. /\ \A s \in Steps : job'[s] \in {"queued", "absent"}
        /\ \A s \in Steps : job'[s] = "queued" => s[1] = "compact"
        /\ job' \in [Steps -> {"queued", "absent"}]
    BY <1>1 DEF Submitted, HoursToCompact
  <1>3. ReplayTypeOK'
    BY <1>1, <1>2 DEF ReplayTypeOK
  <1>4. InRun' /\ JobsOfPhase' /\ NeverLacking'
    BY <1>1, <1>2 DEF InRun, JobsOfPhase, NeverLacking, ReplayTypeOK, Times
  <1>5. Backed' /\ OrphansLive'
    BY <1>1 DEF Backed, OrphansLive, Live
  <1>6. Fresh' /\ Rebuilt'
    BY <1>1, <1>2, StepsOf DEF Fresh, Rebuilt
  <1>7. Settled'
    <2> SUFFICES ASSUME NEW h \in Needed(days), job'[Compact(h)] = "absent"
                 PROVE  log[Compact(h)] # Never /\ log[Compact(h)] >= now - TrustedFor
      BY <1>1, <1>2, StepsOf, NeededHours DEF Settled, Recent
    <2>1. h \in Hours
      BY NeededHours
    <2>2. Compact(h) \in HoursToCompact(days)
      BY DEF HoursToCompact, Compact
    <2>3. Compact(h) \in Done
      BY <1>1, <2>1, <2>2, StepsOf DEF Submitted
    <2> QED
      BY <2>1, <2>3, StepsOf DEF Done
  <1> QED
    BY <1>3, <1>4, <1>5, <1>6, <1>7

LEMMA StartInv ==
  ASSUME ReplayInv, NEW s \in Steps, Start(s) PROVE ReplayInv'
  <1> USE DEF ReplayInv
  <1>1. /\ job[s] = "queued" /\ job' = [job EXCEPT ![s] = "running"]
        /\ UNCHANGED <<now, partial, fact, log, phase, chosen, began, failures, orphans>>
    BY DEF Start, First, In, Becomes
  <1>2. ReplayTypeOK'
    BY <1>1 DEF ReplayTypeOK
  <1>3. InRun' /\ JobsOfPhase' /\ NeverLacking' /\ Backed' /\ OrphansLive'
    BY <1>1 DEF InRun, JobsOfPhase, NeverLacking, Backed, OrphansLive, Live, ReplayTypeOK
  <1>4. Fresh' /\ Rebuilt'
    BY <1>1, StepsOf DEF Fresh, Rebuilt, ReplayTypeOK
  <1>5. Settled'
    BY <1>1, StepsOf, NeededHours DEF Settled, Recent, ReplayTypeOK
  <1> QED
    BY <1>2, <1>3, <1>4, <1>5

(* While the days are merged, the hours of the day a step merges are live. *)
LEMMA StepIsLive ==
  ASSUME ReplayInv, NEW s \in Steps, job[s] # "absent", s[1] = "merge"
  PROVE  \A h \in Needed({s[2]}) : Live(h)
  <1>1. phase = "merging" /\ s[2] \in chosen /\ chosen \in SUBSET Days
    BY DEF ReplayInv, JobsOfPhase, ReplayTypeOK
  <1>2. Needed({s[2]}) \subseteq Needed(chosen)
    BY <1>1, NeededHours
  <1> QED
    BY <1>1, <1>2, MergingIsLive

LEMMA SucceedInv ==
  ASSUME ReplayInv, NEW s \in Steps, Succeed(s) PROVE ReplayInv'
  <1> USE DEF ReplayInv
  <1>1. /\ job[s] = "running" /\ Effect(s) /\ job' = [job EXCEPT ![s] = "ok"]
        /\ UNCHANGED <<now, log, phase, chosen, began, failures, orphans>>
    BY DEF Succeed, Becomes
  <1>2. s[1] = "merge" => \A h \in Needed({s[2]}) : Live(h)
    BY <1>1, StepIsLive
  <1>3. /\ partial' \in [Hours -> Times \union {Gone, Old}]
        /\ fact' \in [Days -> {"old", "rebuilt", "lacking"}]
        /\ \A h \in Hours : partial'[h] = partial[h] \/ partial'[h] = now
        /\ \A h \in Hours : Live(h) => Live(h)'
        /\ \A d \in Days : fact'[d] = fact[d] \/ fact'[d] = "rebuilt"
        /\ s[1] = "compact" => partial'[s[2]] = now
        /\ s[1] = "merge" => fact'[s[2]] = "rebuilt"
    BY <1>1, <1>2, EffectKeeps
  <1>4. ReplayTypeOK'
    BY <1>1, <1>3 DEF ReplayTypeOK
  <1>5. InRun' /\ JobsOfPhase' /\ NeverLacking'
    BY <1>1, <1>3 DEF InRun, JobsOfPhase, NeverLacking, ReplayTypeOK
  <1>6. Backed'
    BY <1>1, <1>3, EffectInv
  <1>7. Fresh'
    <2> SUFFICES ASSUME NEW h \in Hours, job'[Compact(h)] = "ok"
                 PROVE  partial'[h] \in Times /\ partial'[h] >= began
      BY <1>1 DEF Fresh
    <2>1. now \in Times /\ now \in Nat /\ phase # "idle" /\ now >= began
      BY <1>1, Constants DEF InRun, JobsOfPhase, ReplayTypeOK, Times
    <2>2. CASE s = Compact(h)
      BY <1>3, <2>1, <2>2, StepsOf
    <2>3. CASE s # Compact(h)
      <3>1. job[Compact(h)] = "ok"
        BY <1>1, <2>3, StepsOf DEF ReplayTypeOK
      <3> QED
        BY <1>1, <1>3, <2>1, <3>1, EffectInv DEF Fresh
    <2> QED
      BY <2>2, <2>3
  <1>8. Settled'
    BY <1>1, StepsOf, NeededHours DEF Settled, Recent, ReplayTypeOK
  <1>9. OrphansLive'
    BY <1>1, <1>3, NeededHours DEF OrphansLive
  <1>10. Rebuilt'
    BY <1>1, <1>3, StepKinds, StepsOf DEF Rebuilt, ReplayTypeOK
  <1> QED
    BY <1>4, <1>5, <1>6, <1>7, <1>8, <1>9, <1>10

LEMMA FailInv ==
  ASSUME ReplayInv, NEW s \in Steps, Fail(s) PROVE ReplayInv'
  <1> USE DEF ReplayInv
  <1>1. /\ job[s] = "running" /\ job' = [job EXCEPT ![s] = "failed"]
        /\ orphans' = orphans \union {s}
        /\ UNCHANGED <<now, partial, fact, log, phase, chosen, began, failures>>
    BY DEF Fail, Becomes
  <1>2. ReplayTypeOK'
    BY <1>1 DEF ReplayTypeOK
  <1>3. InRun' /\ JobsOfPhase' /\ NeverLacking' /\ Backed'
    BY <1>1 DEF InRun, JobsOfPhase, NeverLacking, Backed, ReplayTypeOK
  <1>4. Fresh' /\ Rebuilt'
    BY <1>1, StepsOf DEF Fresh, Rebuilt, ReplayTypeOK
  <1>5. Settled'
    BY <1>1, StepsOf, NeededHours DEF Settled, Recent, ReplayTypeOK
  <1>6. OrphansLive'
    <2> SUFFICES ASSUME NEW d \in Days, Merge(d) \in orphans', NEW h \in Needed({d})
                 PROVE  Live(h)
      BY <1>1 DEF OrphansLive, Live
    <2>1. CASE Merge(d) \in orphans
      BY <2>1 DEF OrphansLive
    <2>2. CASE Merge(d) = s
      BY <1>1, <2>2, StepsOf, StepIsLive
    <2> QED
      BY <1>1, <2>1, <2>2
  <1> QED
    BY <1>2, <1>3, <1>4, <1>5, <1>6

LEMMA TakeSuccessInv ==
  ASSUME ReplayInv, NEW s \in Steps, TakeSuccess(s) PROVE ReplayInv'
  <1> USE Constants DEF ReplayInv
  <1>1. /\ job[s] = "ok" /\ job' = [job EXCEPT ![s] = "taken"]
        /\ log' = [log EXCEPT ![s] = IF s[1] = "compact" THEN now ELSE 0]
        /\ UNCHANGED <<now, partial, fact, phase, chosen, began, failures, orphans>>
    BY DEF TakeSuccess, Record, Becomes
  <1>2. ReplayTypeOK'
    BY <1>1 DEF ReplayTypeOK, Times
  <1>3. InRun' /\ JobsOfPhase' /\ NeverLacking' /\ OrphansLive'
    BY <1>1 DEF InRun, JobsOfPhase, NeverLacking, OrphansLive, Live, ReplayTypeOK
  <1>4. phase # "idle" /\ began <= now /\ now <= began + Longest /\ now \in Nat /\ began \in Nat
    BY <1>1 DEF InRun, JobsOfPhase, ReplayTypeOK, Times
  <1>5. Fresh'
    BY <1>1, StepsOf DEF Fresh, ReplayTypeOK
  <1>6. Backed'
    <2> SUFFICES ASSUME NEW h \in Hours
                 PROVE  /\ partial[h] \in Times => partial[h] <= now
                        /\ log'[Compact(h)] <= now
                        /\ log'[Compact(h)] # Never /\ now < log'[Compact(h)] - Longest + Life =>
                             partial[h] \in Times /\ partial[h] >= log'[Compact(h)] - Longest
      BY <1>1 DEF Backed
    <2>1. CASE s = Compact(h)
      <3>1. log'[Compact(h)] = now
        BY <1>1, <2>1, StepsOf DEF ReplayTypeOK
      <3>2. partial[h] \in Times /\ partial[h] >= began
        BY <1>1, <2>1 DEF Fresh
      <3> QED
        BY <1>4, <3>1, <3>2 DEF Backed, Times
    <2>2. CASE s # Compact(h)
      BY <1>1, <2>2, StepsOf DEF Backed, ReplayTypeOK
    <2> QED
      BY <2>1, <2>2
  <1>7. Settled'
    <2> SUFFICES ASSUME NEW h \in Needed(chosen),
                        \/ phase = "merging"
                        \/ /\ phase = "compacting"
                           /\ \/ job'[Compact(h)] = "absent"
                              \/ job'[Compact(h)] = "taken" /\ failures = 0
                 PROVE  log'[Compact(h)] # Never /\ log'[Compact(h)] >= began - TrustedFor
      BY <1>1 DEF Settled, Recent
    <2>1. h \in Hours
      BY NeededHours DEF ReplayTypeOK
    <2>2. CASE s = Compact(h)
      BY <1>1, <1>4, <2>1, <2>2, StepsOf DEF ReplayTypeOK, Never
    <2>3. CASE s # Compact(h)
      <3>1. job'[Compact(h)] = job[Compact(h)] /\ log'[Compact(h)] = log[Compact(h)]
        BY <1>1, <2>1, <2>3, StepsOf DEF ReplayTypeOK
      <3> QED
        BY <3>1 DEF Settled, Recent
    <2> QED
      BY <2>2, <2>3
  <1>8. Rebuilt'
    BY <1>1, StepKinds, StepsOf DEF Rebuilt, ReplayTypeOK, Never
  <1> QED
    BY <1>2, <1>3, <1>5, <1>6, <1>7, <1>8

LEMMA TakeFailureInv ==
  ASSUME ReplayInv, NEW s \in Steps, TakeFailure(s) PROVE ReplayInv'
  <1> USE Constants DEF ReplayInv
  <1>1. /\ job[s] = "failed" /\ failures # MaxFailures /\ failures' = failures + 1
        /\ job' = [t \in Steps |->
               IF t = s THEN "taken"
               ELSE IF job[t] = "queued" /\ failures' = MaxFailures THEN "cancelled"
               ELSE job[t]]
        /\ UNCHANGED <<now, partial, fact, log, phase, chosen, began, orphans>>
    BY DEF TakeFailure, NextResult, Stopped
  <1>2. failures \in 0..MaxFailures /\ failures' \in 0..MaxFailures /\ failures' # 0
    BY <1>1 DEF ReplayTypeOK
  <1>3. ReplayTypeOK'
    BY <1>1, <1>2 DEF ReplayTypeOK
  <1>4. InRun' /\ JobsOfPhase' /\ NeverLacking' /\ OrphansLive' /\ Backed'
    BY <1>1 DEF InRun, JobsOfPhase, NeverLacking, OrphansLive, Live, Backed, ReplayTypeOK
  <1>5. \A t \in Steps : /\ job'[t] = "ok" => job[t] = "ok"
                         /\ job'[t] = "absent" => job[t] = "absent"
    BY <1>1
  <1>6. Fresh' /\ Rebuilt'
    BY <1>1, <1>2, <1>5, StepsOf DEF Fresh, Rebuilt
  <1>7. Settled'
    BY <1>1, <1>2, <1>5, StepsOf, NeededHours DEF Settled, Recent, ReplayTypeOK
  <1> QED
    BY <1>3, <1>4, <1>6, <1>7

LEMMA ToMergesInv ==
  ASSUME ReplayInv, ToMerges PROVE ReplayInv'
  <1> USE Constants DEF ReplayInv
  <1>1. /\ phase = "compacting" /\ failures = 0 /\ phase' = "merging"
        /\ \A s \in Steps : job[s] \in {"absent", "taken"}
        /\ job' = Submitted({"merge"} \X chosen)
        /\ UNCHANGED <<now, partial, fact, log, chosen, began, failures, orphans>>
    BY DEF ToMerges, StepsOver, Stopped
  <1>2. /\ job' \in [Steps -> {"queued", "absent"}]
        /\ \A s \in Steps : job'[s] = "queued" => s[1] = "merge" /\ s[2] \in chosen
    BY <1>1 DEF Submitted
  <1>3. ReplayTypeOK'
    BY <1>1, <1>2 DEF ReplayTypeOK
  <1>4. InRun' /\ JobsOfPhase' /\ NeverLacking' /\ OrphansLive' /\ Backed'
    BY <1>1, <1>2 DEF InRun, JobsOfPhase, NeverLacking, OrphansLive, Live, Backed
  <1>5. Fresh'
    BY <1>2, StepsOf DEF Fresh
  <1>6. Settled'
    BY <1>1, StepsOf, NeededHours DEF Settled, Recent, ReplayTypeOK
  <1>7. Rebuilt'
    <2> SUFFICES ASSUME NEW d \in Days,
                        log[Merge(d)] # Never \/ (d \in chosen /\ job'[Merge(d)] = "absent")
                 PROVE  fact[d] = "rebuilt"
      BY <1>1, <1>2, StepsOf DEF Rebuilt
    <2>1. log[Merge(d)] # Never
      <3> SUFFICES ASSUME d \in chosen, job'[Merge(d)] = "absent"
                   PROVE  log[Merge(d)] # Never
        OBVIOUS
      <3>1. Merge(d) \in {"merge"} \X chosen
        BY DEF Merge
      <3>2. Merge(d) \in Done
        BY <1>1, <3>1, StepsOf DEF Submitted
      <3> QED
        BY <3>2 DEF Done
    <2> QED
      BY <2>1 DEF Rebuilt
  <1> QED
    BY <1>3, <1>4, <1>5, <1>6, <1>7

LEMMA EndsInv ==
  ASSUME ReplayInv, Ends, UNCHANGED <<now, partial, fact, log>>,
         orphans' \subseteq orphans \union In("running")
  PROVE  ReplayInv'
  <1> USE Constants DEF ReplayInv
  <1>1. /\ phase' = "idle" /\ chosen' = {} /\ began' = 0 /\ failures' = 0
        /\ job' = [s \in Steps |-> "absent"]
    BY DEF Ends, Idle
  <1>2. ReplayTypeOK'
    BY <1>1 DEF ReplayTypeOK, In, Times
  <1>3. InRun' /\ JobsOfPhase' /\ NeverLacking' /\ Backed'
    BY <1>1 DEF InRun, JobsOfPhase, NeverLacking, Backed
  <1>4. Fresh' /\ Rebuilt' /\ Settled'
    BY <1>1, StepsOf DEF Fresh, Rebuilt, Settled
  <1>5. OrphansLive'
    <2> SUFFICES ASSUME NEW d \in Days, Merge(d) \in orphans', NEW h \in Needed({d})
                 PROVE  Live(h)
      BY DEF OrphansLive, Live
    <2>1. CASE Merge(d) \in orphans
      BY <2>1 DEF OrphansLive
    <2>2. CASE Merge(d) \in In("running")
      BY <2>2, StepsOf, StepIsLive DEF In
    <2> QED
      BY <2>1, <2>2
  <1> QED
    BY <1>2, <1>3, <1>4, <1>5

LEMMA StepInv ==
  ASSUME ReplayInv, [ReplayNext]_replayVars PROVE ReplayInv'
  <1>1. CASE Passes
    BY <1>1, PassesInv
  <1>2. CASE Killed
    BY <1>2, EndsInv DEF Killed
  <1>3. CASE ToMerges
    BY <1>3, ToMergesInv
  <1>4. CASE Exit
    BY <1>4, EndsInv DEF Exit
  <1>5. CASE \E h \in Hours : Expire(h)
    BY <1>5, ExpireInv
  <1>6. CASE \E first, last \in Days : first <= last /\ BeginRun(first, last)
    BY <1>6, BeginRunInv
  <1>7. CASE \E s \in Steps : Step(s)
    BY <1>7, StartInv, SucceedInv, FailInv, TakeSuccessInv, TakeFailureInv DEF Step
  <1>8. CASE \E s \in Steps : OrphanEnds(s)
    BY <1>8, OrphanEndsInv
  <1>9. CASE UNCHANGED replayVars
    BY <1>9 DEF replayVars, ReplayInv, ReplayTypeOK, InRun, JobsOfPhase, Backed, Fresh, Settled,
                OrphansLive, Rebuilt, NeverLacking, Recent, Live
  <1> QED
    BY <1>1, <1>2, <1>3, <1>4, <1>5, <1>6, <1>7, <1>8, <1>9 DEF ReplayNext

-----------------------------------------------------------------------------
(* The invariant that the theorems below follow from.                      *)
THEOREM ReplayInductive == ReplaySpec => []ReplayInv
  <1>1. ReplayInit => ReplayInv
    BY ReplayInitInv
  <1>2. ReplayInv /\ [ReplayNext]_replayVars => ReplayInv'
    BY StepInv
  <1> QED
    BY <1>1, <1>2, PTL DEF ReplaySpec

(* Every variable of the replay keeps its type.                            *)
THEOREM ReplayTypes == ReplaySpec => []ReplayTypeOK
  <1>1. ReplayInv => ReplayTypeOK
    BY DEF ReplayInv
  <1> QED
    BY <1>1, ReplayInductive, PTL

(* No merge writes a day from anything but partials of the replay, for any *)
(* days and windows, any number in parallel, and any failures, stops and   *)
(* invocations left behind.                                                *)
THEOREM MergesAreWhole == ReplaySpec => []NeverLacking
  <1>1. ReplayInv => NeverLacking
    BY DEF ReplayInv
  <1> QED
    BY <1>1, ReplayInductive, PTL

(* A run that exits with 0 leaves every day it was asked for rebuilt.      *)
THEOREM SuccessIsRebuilt == ReplaySpec => []FinishedIsRebuilt
  <1>1. ReplayInv => FinishedIsRebuilt
    <2> SUFFICES ASSUME ReplayInv, phase = "merging", StepsOver, failures = 0, NEW d \in chosen
                 PROVE  fact[d] = "rebuilt"
      BY DEF FinishedIsRebuilt
    <2>1. d \in Days
      BY DEF ReplayInv, ReplayTypeOK
    <2>2. job[Merge(d)] \in {"absent", "taken"}
      BY <2>1, StepsOf, Constants DEF StepsOver, Stopped
    <2> QED
      BY <2>1, <2>2 DEF ReplayInv, Rebuilt
  <1> QED
    BY <1>1, ReplayInductive, PTL

-----------------------------------------------------------------------------
(* The pull.  What makes up its invariant first.                           *)

(* A file that has an object's time has its bytes, at every moment.        *)
FileSound(k) ==
  bucket[k] # NoObject /\ Current(k) => local[k].version = bucket[k]

(* What was fetched under the object's listed time is what that time is    *)
(* of, for as long as the object has it.                                   *)
FetchSound ==
  \A k \in PulledKeys :
    fetched = k /\ bucket[k] = listed[k] => local[k].version = bucket[k]

(* No time is ahead of the clock, and what is to fetch was there.          *)
NoneAhead ==
  \A k \in PulledKeys :
    bucket[k] <= clock /\ listed[k] <= clock /\ local[k].mtime <= clock

Planned ==
  /\ \A k \in download : listed[k] # NoObject
  /\ fetched # NoKey => fetched \in download
  /\ ~pulling => download = {} /\ delete = {}

(* Over a bucket that has not changed, each key is level or still to do.   *)
Levelling ==
  pulling /\ quiet =>
    /\ listed = bucket
    /\ \A k \in delete : bucket[k] = NoObject
    /\ \A k \in PulledKeys :
         k \in download \union delete \/ local[k].version = bucket[k]

PullInv ==
  /\ PullTypeOK
  /\ NoneAhead
  /\ Planned
  /\ \A k \in PulledKeys : FileSound(k)
  /\ FetchSound
  /\ Levelling

-----------------------------------------------------------------------------
(* The pull.                                                               *)

LEMMA PullInitInv ==
  ASSUME PullInit PROVE PullInv
  <1>1. /\ clock = 0 /\ download = {} /\ delete = {} /\ fetched = NoKey
        /\ quiet = TRUE /\ pulling = FALSE
        /\ \A k \in PulledKeys : bucket[k] = 0 /\ listed[k] = 0 /\ local[k].mtime = 0
    BY DEF PullInit, Nothing, NoObject, NoFile
  <1>2. PullTypeOK
    <2>1. 0 \in Versions
      BY PullAssumption DEF PullAssumption, Versions
    <2>2. NoFile \in Files
      BY <2>1 DEF NoFile, Files
    <2> QED
      BY <2>1, <2>2, <1>1 DEF PullInit, PullTypeOK, Nothing, NoObject
  <1>3. NoneAhead /\ Planned /\ Levelling
    BY <1>1 DEF NoneAhead, Planned, Levelling
  <1>4. /\ \A k \in PulledKeys : FileSound(k)
        /\ FetchSound
    BY <1>1, PullAssumption DEF FileSound, FetchSound, NoObject, PullAssumption
  <1> QED
    BY <1>2, <1>3, <1>4 DEF PullInv

LEMMA PutObjectInv ==
  ASSUME PullInv, NEW k \in PulledKeys, PutObject(k)
  PROVE  PullInv'
  <1>1. clock \in Nat /\ clock' = clock + 1 /\ clock' \in Versions
    BY PullAssumption DEF PullInv, PullTypeOK, PutObject, Versions, PullAssumption
  <1>2. /\ bucket' \in [PulledKeys -> Versions]
        /\ \A l \in PulledKeys : bucket'[l] = IF l = k THEN clock' ELSE bucket[l]
    BY <1>1 DEF PullInv, PullTypeOK, PutObject
  <1>3. /\ UNCHANGED <<local, listed, download, delete, fetched, pulling>>
        /\ quiet' = FALSE
    BY DEF PutObject
  <1>4. \A l \in PulledKeys :
          /\ bucket[l] \in Nat /\ listed[l] \in Nat
          /\ local[l].mtime \in Nat /\ local[l].version \in Nat
    BY DEF PullInv, PullTypeOK, Files, Versions
  <1>5. PullTypeOK'
    BY <1>1, <1>2, <1>3 DEF PullInv, PullTypeOK
  <1>6. NoneAhead'
    BY <1>1, <1>2, <1>3, <1>4 DEF PullInv, NoneAhead
  <1>7. \A l \in PulledKeys : FileSound(l)'
    BY <1>1, <1>2, <1>3, <1>4 DEF PullInv, NoneAhead, FileSound, Current
  <1>8. FetchSound'
    BY <1>1, <1>2, <1>3, <1>4 DEF PullInv, NoneAhead, FetchSound
  <1>9. Planned' /\ Levelling'
    BY <1>3 DEF PullInv, Planned, Levelling
  <1> QED
    BY <1>5, <1>6, <1>7, <1>8, <1>9 DEF PullInv

LEMMA RemoveObjectInv ==
  ASSUME PullInv, NEW k \in PulledKeys, RemoveObject(k)
  PROVE  PullInv'
  <1>1. /\ bucket' \in [PulledKeys -> Versions]
        /\ \A l \in PulledKeys : bucket'[l] = IF l = k THEN NoObject ELSE bucket[l]
    BY PullAssumption
    DEF PullInv, PullTypeOK, RemoveObject, NoObject, Versions, PullAssumption
  <1>2. /\ UNCHANGED <<clock, local, listed, download, delete, fetched, pulling>>
        /\ quiet' = FALSE
    BY DEF RemoveObject
  <1>3. PullTypeOK'
    BY <1>1, <1>2 DEF PullInv, PullTypeOK
  <1>4. NoneAhead'
    BY <1>1, <1>2 DEF PullInv, NoneAhead, PullTypeOK, Versions, NoObject
  <1>5. \A l \in PulledKeys : FileSound(l)'
    BY <1>1, <1>2 DEF PullInv, FileSound, Current
  <1>6. FetchSound'
    <2>1. \A l \in PulledKeys : fetched = l => listed[l] # NoObject
      BY PullAssumption DEF PullInv, Planned, PullAssumption
    <2> QED
      BY <1>1, <1>2, <2>1 DEF PullInv, FetchSound
  <1>7. Planned' /\ Levelling'
    BY <1>2 DEF PullInv, Planned, Levelling
  <1> QED
    BY <1>3, <1>4, <1>5, <1>6, <1>7 DEF PullInv

(* The plan takes for level what is current by its time, which FileSound   *)
(* says is the object.                                                     *)
LEMMA PlanPullInv ==
  ASSUME PullInv, PlanPull
  PROVE  PullInv'
  <1>1. /\ listed' = bucket /\ pulling' = TRUE /\ quiet' = TRUE
        /\ download' = {k \in ListRemote : ~Current(k)}
        /\ delete' = ListLocal \ ListRemote
        /\ UNCHANGED <<clock, bucket, local, fetched>>
    BY DEF PlanPull
  <1>2. fetched = NoKey
    BY DEF PlanPull, PullInv, Planned
  <1>3. PullTypeOK'
    BY <1>1 DEF PullInv, PullTypeOK, ListRemote, ListLocal
  <1>4. NoneAhead'
    BY <1>1 DEF PullInv, NoneAhead
  <1>5. Planned'
    BY <1>1, <1>2 DEF Planned, ListRemote
  <1>6. \A k \in PulledKeys : FileSound(k)'
    BY <1>1 DEF PullInv, FileSound, Current
  <1>7. FetchSound'
    BY <1>1, <1>2, PullAssumption DEF FetchSound, PullAssumption
  <1>8. Levelling'
    <2>1. \A k \in delete' : bucket'[k] = NoObject
      BY <1>1 DEF ListRemote, ListLocal
    <2>2. ASSUME NEW k \in PulledKeys, k \notin download' \union delete'
          PROVE  local[k].version = bucket[k]
      <3>1. CASE k \in ListRemote
        BY <1>1, <2>2, <3>1 DEF PullInv, FileSound, ListRemote
      <3>2. CASE k \notin ListRemote
        BY <1>1, <2>2, <3>2 DEF ListRemote, ListLocal, NoFile, NoObject
      <3> QED
        BY <3>1, <3>2
    <2> QED
      BY <1>1, <2>1, <2>2 DEF Levelling
  <1> QED
    BY <1>3, <1>4, <1>5, <1>6, <1>7, <1>8 DEF PullInv

LEMMA DownloadInv ==
  ASSUME PullInv, NEW k \in PulledKeys, Download(k)
  PROVE  PullInv'
  <1>1. /\ pulling /\ k \in download
        /\ fetched' = k
        /\ UNCHANGED <<clock, bucket, listed, download, delete, quiet, pulling>>
    BY DEF Download
  <1>2. [version |-> bucket[k], mtime |-> clock] \in Files
    BY DEF PullInv, PullTypeOK, Files
  <1>3. /\ local' \in [PulledKeys -> Files]
        /\ \A l \in PulledKeys : local'[l] =
             IF l = k THEN [version |-> bucket[k], mtime |-> clock] ELSE local[l]
    BY <1>2 DEF PullInv, PullTypeOK, Download
  <1>4. PullTypeOK'
    BY <1>1, <1>3 DEF PullInv, PullTypeOK
  <1>5. NoneAhead'
    BY <1>1, <1>3 DEF PullInv, PullTypeOK, NoneAhead, Versions
  <1>6. Planned'
    BY <1>1 DEF PullInv, Planned
  <1>7. \A l \in PulledKeys : FileSound(l)'
    BY <1>1, <1>3 DEF PullInv, FileSound, Current
  <1>8. FetchSound'
    BY <1>1, <1>3 DEF FetchSound
  <1>9. Levelling'
    BY <1>1, <1>3 DEF PullInv, Levelling
  <1> QED
    BY <1>4, <1>5, <1>6, <1>7, <1>8, <1>9 DEF PullInv

LEMMA SetTimeInv ==
  ASSUME PullInv, NEW k \in PulledKeys, SetTime(k)
  PROVE  PullInv'
  <1>1. /\ pulling /\ fetched = k
        /\ fetched' = NoKey
        /\ download' = download \ {k}
        /\ UNCHANGED <<clock, bucket, listed, delete, quiet, pulling>>
    BY DEF SetTime
  <1>2. /\ local' \in [PulledKeys -> Files]
        /\ \A l \in PulledKeys :
             /\ local'[l].version = local[l].version
             /\ local'[l].mtime = IF l = k THEN listed[k] ELSE local[l].mtime
    BY DEF PullInv, PullTypeOK, SetTime, Files
  <1>3. PullTypeOK'
    BY <1>1, <1>2 DEF PullInv, PullTypeOK
  <1>4. NoneAhead'
    BY <1>1, <1>2 DEF PullInv, NoneAhead
  <1>5. Planned'
    BY <1>1 DEF PullInv, Planned
  <1>6. \A l \in PulledKeys : FileSound(l)'
    BY <1>1, <1>2 DEF PullInv, FileSound, FetchSound, Current
  <1>7. FetchSound'
    BY <1>1, PullAssumption DEF FetchSound, PullAssumption
  <1>8. Levelling'
    BY <1>1, <1>2 DEF PullInv, Levelling, FetchSound
  <1> QED
    BY <1>3, <1>4, <1>5, <1>6, <1>7, <1>8 DEF PullInv

LEMMA DeleteInv ==
  ASSUME PullInv, NEW k \in PulledKeys, Delete(k)
  PROVE  PullInv'
  <1>1. /\ pulling /\ download = {} /\ k \in delete
        /\ delete' = delete \ {k}
        /\ UNCHANGED <<clock, bucket, listed, download, fetched, quiet, pulling>>
    BY DEF Delete
  <1>2. NoFile \in Files /\ NoFile.mtime = 0 /\ NoFile.version = 0
    BY PullAssumption DEF NoFile, Files, Versions, PullAssumption
  <1>3. /\ local' \in [PulledKeys -> Files]
        /\ \A l \in PulledKeys : local'[l] = IF l = k THEN NoFile ELSE local[l]
    BY <1>2 DEF PullInv, PullTypeOK, Delete
  <1>4. PullTypeOK'
    BY <1>1, <1>3 DEF PullInv, PullTypeOK
  <1>5. NoneAhead'
    BY <1>1, <1>2, <1>3 DEF PullInv, PullTypeOK, NoneAhead, Versions
  <1>6. Planned'
    BY <1>1 DEF PullInv, Planned
  <1>7. \A l \in PulledKeys : FileSound(l)'
    BY <1>1, <1>2, <1>3 DEF PullInv, FileSound, Current, NoObject
  <1>8. FetchSound'
    BY <1>1, PullAssumption DEF PullInv, Planned, FetchSound, PullAssumption
  <1>9. Levelling'
    BY <1>1, <1>2, <1>3 DEF PullInv, Levelling, NoObject
  <1> QED
    BY <1>4, <1>5, <1>6, <1>7, <1>8, <1>9 DEF PullInv

LEMMA ForgetInv ==
  ASSUME PullInv, Forget
  PROVE  PullInv'
  <1>1. /\ pulling' = FALSE /\ listed' = Nothing
        /\ download' = {} /\ delete' = {} /\ fetched' = NoKey
        /\ UNCHANGED <<clock, bucket, local, quiet>>
    BY DEF Forget
  <1>2. Nothing \in [PulledKeys -> Versions] /\ \A k \in PulledKeys : Nothing[k] = 0
    BY PullAssumption DEF Nothing, NoObject, Versions, PullAssumption
  <1>3. PullTypeOK'
    BY <1>1, <1>2 DEF PullInv, PullTypeOK
  <1>4. NoneAhead'
    BY <1>1, <1>2 DEF PullInv, PullTypeOK, NoneAhead, Versions
  <1>5. \A k \in PulledKeys : FileSound(k)'
    BY <1>1 DEF PullInv, FileSound, Current
  <1>6. FetchSound'
    BY <1>1, PullAssumption DEF FetchSound, PullAssumption
  <1>7. Planned' /\ Levelling'
    BY <1>1 DEF Planned, Levelling
  <1> QED
    BY <1>3, <1>4, <1>5, <1>6, <1>7 DEF PullInv

LEMMA PullNextInv == PullInv /\ [PullNext]_pullVars => PullInv'
  <1> SUFFICES ASSUME PullInv, [PullNext]_pullVars PROVE PullInv'
    OBVIOUS
  <1>1. CASE PlanPull
    BY <1>1, PlanPullInv
  <1>2. CASE PullEnds \/ PullStops
    BY <1>2, ForgetInv DEF PullEnds, PullStops
  <1>3. CASE \E k \in PulledKeys :
               \/ PutObject(k) \/ RemoveObject(k)
               \/ Download(k) \/ SetTime(k) \/ Delete(k)
    BY <1>3, PutObjectInv, RemoveObjectInv, DownloadInv, SetTimeInv, DeleteInv
  <1>4. CASE UNCHANGED pullVars
    BY <1>4 DEF pullVars, PullInv, PullTypeOK, NoneAhead, Planned, FileSound, Current,
                FetchSound, Levelling
  <1> QED
    BY <1>1, <1>2, <1>3, <1>4 DEF PullNext

(* The pull's invariant: every clause is needed by another's step.         *)
THEOREM PullInductive == PullSpec => []PullInv
  <1>1. PullInit => PullInv
    BY PullInitInv
  <1> QED
    BY <1>1, PullNextInv, PTL DEF PullSpec

(* The pull keeps its types: nothing is listed, fetched or deleted that is *)
(* not a key, and no file is from the future (pull).                       *)
THEOREM PullTypes == PullSpec => []PullTypeOK
  <1>1. PullInv => PullTypeOK
    BY DEF PullInv
  <1> QED
    BY <1>1, PullInductive, PTL

(* A file that passes for current is the object, for any number of keys    *)
(* and of puts, wherever pulls before were stopped (plan_pull).            *)
THEOREM CurrentFilesAreSame == PullSpec => []CurrentIsSame
  <1>1. PullInv => CurrentIsSame
    BY DEF PullInv, CurrentIsSame, FileSound, ListRemote
  <1> QED
    BY <1>1, PullInductive, PTL

(* A pull that is done over an unchanged bucket has made the copy level    *)
(* with it, whatever earlier pulls left behind (pull).                     *)
THEOREM QuietPullsLevel == PullSpec => []QuietPullIsLevel
  <1>1. PullInv => QuietPullIsLevel
    BY DEF PullInv, QuietPullIsLevel, Levelling, PullDone
  <1> QED
    BY <1>1, PullInductive, PTL

-----------------------------------------------------------------------------
(* The listing of the dated objects, and their targets.                    *)

LEMMA DatedFinite == IsFiniteSet(Dated)
  <1>1. Tables \in [1..Len(Tables) -> TableSet] /\ Len(Tables) \in Nat
    BY RenameAssumption, LenProperties DEF RenameAssumption
  <1>2. Tables \in Surjection(1..Len(Tables), TableSet)
    BY <1>1 DEF Surjection, TableSet, Range
  <1>3. IsFiniteSet(TableSet)
    BY <1>1, <1>2, FS_Interval, FS_Surjection
  <1> QED
    BY <1>3, RenameAssumption, FS_Product DEF Dated, RenameAssumption

LEMMA RankIs ==
  ASSUME NEW t \in TableSet
  PROVE  Rank(t) \in Nat /\ Tables[Rank(t)] = t
  <1>1. \E i \in DOMAIN Tables : Tables[i] = t
    BY DEF TableSet, Range
  <1>2. DOMAIN Tables \subseteq Nat
    BY RenameAssumption, LenProperties DEF RenameAssumption
  <1> QED
    BY <1>1, <1>2 DEF Rank

(* A listing's order is a strict total one.                                *)
LEMMA BeforeIsOrder ==
  ASSUME NEW x \in Dated, NEW y \in Dated
  PROVE  /\ ~Before(x, x)
         /\ x # y => Before(x, y) \/ Before(y, x)
         /\ \A z \in Dated : Before(x, y) /\ Before(y, z) => Before(x, z)
  <1>1. \A z \in Dated :
          /\ z = <<z[1], z[2]>>
          /\ Rank(z[1]) \in Nat /\ Tables[Rank(z[1])] = z[1]
          /\ z[2] \in Nat
    <2> SUFFICES ASSUME NEW z \in Dated
                 PROVE  /\ z = <<z[1], z[2]>> /\ z[1] \in TableSet /\ z[2] \in Nat
      BY RankIs
    <2>1. DateNames \subseteq Nat
      BY RenameAssumption DEF RenameAssumption
    <2>2. z = <<z[1], z[2]>> /\ z[1] \in TableSet /\ z[2] \in DateNames
      BY DEF Dated
    <2> QED
      BY <2>1, <2>2
  <1>2. ~Before(x, x)
    BY <1>1 DEF Before
  <1>3. x # y => Before(x, y) \/ Before(y, x)
    <2>1. x[1] = y[1] => x[2] # y[2] \/ x = y
      BY <1>1
    <2>2. Rank(x[1]) = Rank(y[1]) => x[1] = y[1]
      BY <1>1
    <2> QED
      BY <1>1, <2>1, <2>2 DEF Before
  <1>4. ASSUME NEW z \in Dated, Before(x, y), Before(y, z)
        PROVE  Before(x, z)
    BY <1>1, <1>4 DEF Before
  <1> QED
    BY <1>2, <1>3, <1>4

(* Sorted puts each object of the set at its place, and nothing else       *)
(* anywhere: places are counts of the objects before.                      *)
LEMMA SortedIs ==
  ASSUME NEW S \in SUBSET Dated
  PROVE  /\ Sorted(S) \in Seq(S)
         /\ IsInjective(Sorted(S))
         /\ Range(Sorted(S)) = S
  <1> DEFINE n == Cardinality(S)
             Below(x) == {y \in S : Before(y, x)}
             P == [x \in S |-> Place(x, S)]
  <1>1. IsFiniteSet(S) /\ n \in Nat
    BY DatedFinite, FS_Subset, FS_CardinalityType
  <1>2. \A x \in S : /\ IsFiniteSet(Below(x)) /\ Cardinality(Below(x)) \in Nat
                     /\ Place(x, S) = Cardinality(Below(x)) + 1
    BY <1>1, FS_Subset, FS_CardinalityType DEF Place
  <1>3. \A x \in S : Place(x, S) \in 1..n
    <2> SUFFICES ASSUME NEW x \in S PROVE Cardinality(Below(x)) < n
      <3> HIDE DEF n, Below
      <3> QED  BY <1>1, <1>2
    <2>1. Below(x) \subseteq S /\ x \notin Below(x)
      BY BeforeIsOrder
    <2> HIDE DEF Below
    <2>2. Cardinality(Below(x)) <= n /\ Cardinality(Below(x)) # n
      BY <1>1, <2>1, FS_Subset
    <2> QED
      BY <1>1, <1>2, <2>2
  <1>4. ASSUME NEW x \in S, NEW y \in S, Before(x, y)
        PROVE  Place(x, S) < Place(y, S)
    <2>1. /\ Below(x) \subseteq Below(y)
          /\ x \in Below(y) /\ x \notin Below(x)
      BY <1>4, BeforeIsOrder
    <2> HIDE DEF Below
    <2>2. /\ Cardinality(Below(x)) <= Cardinality(Below(y))
          /\ Cardinality(Below(x)) # Cardinality(Below(y))
      BY <1>2, <2>1, FS_Subset
    <2> QED
      BY <1>2, <2>2
  <1>5. \A x, y \in S : Place(x, S) = Place(y, S) => x = y
    <2>1. \A x \in S : Place(x, S) \in Nat
      BY <1>3
    <2>2. \A x, y \in S : x # y => Place(x, S) # Place(y, S)
      BY <1>4, <2>1, BeforeIsOrder
    <2> QED
      BY <2>2
  <1>6. P \in Injection(S, 1..n)
    BY <1>3, <1>5 DEF Injection, IsInjective
  <1>7. \A i \in 1..n : \E x \in S : Place(x, S) = i
    <2>1. IsFiniteSet(1..n) /\ Cardinality(1..n) = n
      <3> HIDE DEF n
      <3> QED  BY <1>1, FS_Interval
    <2>2. P \in Surjection(S, 1..n)
      <3> HIDE DEF P
      <3> QED  BY <1>1, <1>6, <2>1, FS_Injection
    <2> QED
      BY <2>2 DEF Surjection
  <1> DEFINE L == Sorted(S)
  <1>8. DOMAIN L = 1..n /\ \A i \in 1..n : L[i] \in S /\ Place(L[i], S) = i
    BY <1>7 DEF Sorted
  <1>9. L \in Seq(S)
    <2>1. L \in [1..n -> S]
      BY <1>8 DEF Sorted
    <2> HIDE DEF L, n
    <2> QED  BY <1>1, <2>1
  <1>10. IsInjective(L)
    BY <1>8 DEF IsInjective
  <1>11. Range(L) = S
    <2>1. \A x \in S : L[Place(x, S)] = x
      BY <1>3, <1>5, <1>8
    <2> QED
      BY <1>3, <1>8, <2>1 DEF Range
  <1> QED
    BY <1>9, <1>10, <1>11

(* The name a date gets is a second of its own last changed check, so it   *)
(* is no date, and no other date's.                                        *)
LEMMA NameIs ==
  ASSUME NEW date \in DateNames, Changed(date) # {}
  PROVE  \E c \in Checks :
           /\ c.at = NameOf(date) /\ c.date = date /\ c.changed
           /\ \A d \in Checks : d.date = date /\ d.changed => d.at <= c.at
  <1> DEFINE S == {c.at : c \in Changed(date)}
             f == [c \in Changed(date) |-> c.at]
  <1>1. /\ IsFiniteSet(Changed(date))
        /\ \A c \in Changed(date) : c \in Checks /\ c.at \in Nat
    BY RenameAssumption, FS_Subset DEF Changed, RenameAssumption
  <1>2. S = {f[c] : c \in Changed(date)}
    OBVIOUS
  <1>3. IsFiniteSet(S) /\ S \in SUBSET Int /\ S # {}
    <2>1. IsFiniteSet({f[c] : c \in Changed(date)})
      <3> HIDE DEF f
      <3> QED  BY <1>1, ImageFinite
    <2>2. S # {} /\ S \in SUBSET Int
      BY <1>1
    <2> HIDE DEF S, f
    <2> QED
      BY <1>2, <2>1, <2>2
  <1>4. Max(S) \in S /\ \A n \in S : n <= Max(S)
    <2> HIDE DEF S
    <2> QED  BY <1>3, MaxIs
  <1>5. NameOf(date) = Max(S)
    BY DEF NameOf
  <1>6. PICK c \in Changed(date) : c.at = NameOf(date)
    BY <1>4, <1>5
  <1>7. \A d \in Checks : d.date = date /\ d.changed => d.at <= c.at
    BY <1>4, <1>5, <1>6 DEF Changed
  <1> QED
    BY <1>6, <1>7 DEF Changed

LEMMA TargetIs ==
  ASSUME NEW x \in Dated, Changed(x[2]) # {}
  PROVE  /\ Target(x) \in Objects /\ Target(x) \notin Dated
         /\ Target(x)[1] = x[1] /\ Target(x)[2] = NameOf(x[2])
         /\ \A y \in Dated : Changed(y[2]) # {} /\ Target(y) = Target(x) => y = x
  <1>1. /\ x = <<x[1], x[2]>> /\ x[1] \in TableSet /\ x[2] \in DateNames
        /\ \A y \in Dated : y = <<y[1], y[2]>> /\ y[2] \in DateNames
    BY DEF Dated
  <1>2. PICK c \in Checks : c.at = NameOf(x[2]) /\ c.date = x[2]
    BY <1>1, NameIs
  <1>3. NameOf(x[2]) \in TimeNames
    BY <1>2 DEF TimeNames
  <1>4. Target(x) \in Objects /\ Target(x) \notin Dated
    BY <1>1, <1>3, RenameAssumption DEF Target, Objects, Names, Dated, RenameAssumption
  <1>5. ASSUME NEW y \in Dated, Changed(y[2]) # {}, Target(y) = Target(x)
        PROVE  y = x
    <2>1. PICK d \in Checks : d.at = NameOf(y[2]) /\ d.date = y[2]
      BY <1>1, <1>5, NameIs
    <2>2. y[1] = x[1] /\ NameOf(y[2]) = NameOf(x[2])
      BY <1>5 DEF Target
    <2>3. c = d
      BY <1>2, <2>1, <2>2, RenameAssumption DEF RenameAssumption
    <2> QED
      BY <1>1, <1>2, <2>1, <2>2, <2>3
  <1> QED
    BY <1>4, <1>5 DEF Target

-----------------------------------------------------------------------------
(* The renaming.                                                           *)

(* A dated object is itself, and another is at the target of its bytes.    *)
BytesSound ==
  \A x \in Objects :
    LET bytes == snapshots[x] IN
    bytes # NoBytes =>
      IF x \in Dated THEN bytes = x
      ELSE bytes \in Dated /\ Changed(bytes[2]) # {} /\ x = Target(bytes)

(* The moves an operator has left are moves of objects that have targets;  *)
(* no dated object is in the bucket without being among them, once there   *)
(* is a plan; and of the first of them, once copied, the target is put.    *)
MovesSound ==
  \A o \in Operators :
    /\ \A x \in Range(moves[o]) : Changed(x[2]) # {}
    /\ renaming[o] \in {"planned", "moving", "finished"} =>
         HeldDated \subseteq Range(moves[o])
    /\ renaming[o] \notin {"planned", "moving"} => moves[o] = <<>>
    /\ copied[o] => /\ Moving(o)
                    /\ snapshots[Target(Head(moves[o]))] = Head(moves[o])

RenameInv ==
  /\ RenameTypeOK
  /\ BytesSound
  /\ MovesSound

LEMMA BytesAre ==
  /\ NoBytes \notin Dated
  /\ Dated \subseteq Objects
  BY DEF NoBytes, Dated, Objects, Names

LEMMA RenameInitInv ==
  ASSUME RenameInit PROVE RenameInv
  <1>1. PICK held \in SUBSET Dated :
          snapshots = [x \in Objects |-> IF x \in held THEN x ELSE NoBytes]
    BY DEF RenameInit
  <1>2. /\ moves = [o \in Operators |-> <<>>]
        /\ copied = [o \in Operators |-> FALSE]
        /\ renaming = [o \in Operators |-> "idle"]
    BY DEF RenameInit
  <1>3. <<>> \in Seq(Dated) /\ IsInjective(<<>>) /\ Range(<<>>) = {}
    BY DEF IsInjective, Range
  <1>4. RenameTypeOK
    BY <1>1, <1>2, <1>3 DEF RenameTypeOK
  <1>5. BytesSound
    BY <1>1 DEF BytesSound
  <1>6. MovesSound
    BY <1>2, <1>3 DEF MovesSound
  <1> QED
    BY <1>4, <1>5, <1>6 DEF RenameInv

(* What an operator does next, when it changes nothing in the bucket.      *)
LEMMA PlanKeeps ==
  ASSUME RenameInv, NEW o \in Operators, NEW state, NEW left,
         UNCHANGED snapshots,
         moves' = [moves EXCEPT ![o] = left],
         copied' = [copied EXCEPT ![o] = FALSE],
         renaming' = [renaming EXCEPT ![o] = state],
         left \in Seq(Dated), IsInjective(left),
         state \in {"idle", "planned", "moving", "refused", "finished"},
         \A x \in Range(left) : Changed(x[2]) # {},
         state \in {"planned", "moving", "finished"} => HeldDated \subseteq Range(left),
         state \notin {"planned", "moving"} => left = <<>>
  PROVE  RenameInv'
  <1>1. /\ \A p \in Operators : moves'[p] = IF p = o THEN left ELSE moves[p]
        /\ \A p \in Operators : copied'[p] = IF p = o THEN FALSE ELSE copied[p]
        /\ \A p \in Operators : renaming'[p] = IF p = o THEN state ELSE renaming[p]
    BY DEF RenameInv, RenameTypeOK
  <1>2. RenameTypeOK'
    <2>1. /\ moves' \in [Operators -> Seq(Dated)]
          /\ copied' \in [Operators -> BOOLEAN]
          /\ renaming' \in [Operators -> {"idle", "planned", "moving", "refused", "finished"}]
      BY DEF RenameInv, RenameTypeOK
    <2>2. \A p \in Operators : IsInjective(moves'[p])
      BY <1>1 DEF RenameInv, RenameTypeOK
    <2> QED
      BY <2>1, <2>2 DEF RenameInv, RenameTypeOK
  <1>3. BytesSound'
    BY DEF RenameInv, BytesSound
  <1>4. MovesSound'
    <2> SUFFICES ASSUME NEW p \in Operators
                 PROVE  /\ \A x \in Range(moves'[p]) : Changed(x[2]) # {}
                        /\ renaming'[p] \in {"planned", "moving", "finished"} =>
                             HeldDated \subseteq Range(moves'[p])
                        /\ renaming'[p] \notin {"planned", "moving"} => moves'[p] = <<>>
                        /\ copied'[p] => /\ renaming'[p] = "moving" /\ moves'[p] # <<>>
                                         /\ snapshots[Target(Head(moves'[p]))] = Head(moves'[p])
      BY DEF MovesSound, Moving, HeldDated, Held
    <2>1. CASE p = o
      BY <1>1, <2>1
    <2>2. CASE p # o
      BY <1>1, <2>2 DEF RenameInv, MovesSound, Moving
    <2> QED
      BY <2>1, <2>2
  <1> QED
    BY <1>2, <1>3, <1>4 DEF RenameInv

LEMMA NotCopied ==
  ASSUME RenameInv, NEW o \in Operators, renaming[o] # "moving"
  PROVE  ~copied[o] /\ copied = [copied EXCEPT ![o] = FALSE]
  BY DEF RenameInv, RenameTypeOK, MovesSound, Moving

LEMMA PlanMovesInv ==
  ASSUME RenameInv, NEW o \in Operators, PlanMoves(o)
  PROVE  RenameInv'
  <1>1. HeldDated \in SUBSET Dated
    BY DEF HeldDated
  <1>2. /\ Listing \in Seq(Dated) /\ IsInjective(Listing)
        /\ Range(Listing) = HeldDated
    <2>1. Listing \in Seq(HeldDated)
      BY <1>1, SortedIs DEF Listing
    <2>2. Seq(HeldDated) \subseteq Seq(Dated)
      BY <1>1, SeqMonotonic
    <2> QED
      BY <1>1, <2>1, <2>2, SortedIs DEF Listing
  <1>3. /\ UNCHANGED <<snapshots, copied>>
        /\ renaming[o] = "idle"
        /\ moves' = [moves EXCEPT ![o] = Listing]
        /\ renaming' = [renaming EXCEPT ![o] = "planned"]
        /\ \A x \in HeldDated : Changed(x[2]) # {}
    BY DEF PlanMoves, Turns
  <1> HIDE DEF Listing
  <1> QED
    BY <1>2, <1>3, NotCopied, PlanKeeps

(* The moves stay as they are.                                             *)
LEMMA TurnInv ==
  ASSUME RenameInv, NEW o \in Operators, NEW state,
         UNCHANGED <<snapshots, moves, copied>>,
         Turns(o, state), renaming[o] # "moving" \/ moves[o] = <<>>,
         state \in {"moving", "refused", "finished"},
         state \in {"moving", "finished"} => renaming[o] \in {"planned", "moving", "finished"},
         state # "moving" => moves[o] = <<>>
  PROVE  RenameInv'
  <1>1. /\ moves' = [moves EXCEPT ![o] = moves[o]]
        /\ moves[o] \in Seq(Dated) /\ IsInjective(moves[o])
        /\ renaming' = [renaming EXCEPT ![o] = state]
    BY DEF RenameInv, RenameTypeOK, Turns
  <1>2. copied' = [copied EXCEPT ![o] = FALSE]
    BY DEF RenameInv, RenameTypeOK, MovesSound, Moving
  <1>3. /\ \A x \in Range(moves[o]) : Changed(x[2]) # {}
        /\ state \in {"moving", "finished"} => HeldDated \subseteq Range(moves[o])
    BY DEF RenameInv, MovesSound
  <1> QED
    BY <1>1, <1>2, <1>3, PlanKeeps

LEMMA ClearedInv ==
  ASSUME RenameInv, NEW o \in Operators, NEW state \in {"idle", "refused"},
         UNCHANGED snapshots, Turns(o, state),
         moves' = [moves EXCEPT ![o] = <<>>],
         copied' = [copied EXCEPT ![o] = FALSE]
  PROVE  RenameInv'
  <1>1. <<>> \in Seq(Dated) /\ IsInjective(<<>>) /\ Range(<<>>) = {}
    BY DEF IsInjective, Range
  <1> QED
    BY <1>1, PlanKeeps DEF Turns

(* An operator at work, the object at hand and its target.                 *)
LEMMA AtHand ==
  ASSUME RenameInv, NEW o \in Operators, moves[o] # <<>>
  PROVE  /\ Head(moves[o]) \in Dated
         /\ Head(moves[o]) \in Range(moves[o])
         /\ Changed(Head(moves[o])[2]) # {}
         /\ Tail(moves[o]) \in Seq(Dated)
         /\ Range(moves[o]) = {Head(moves[o])} \union Range(Tail(moves[o]))
         /\ IsInjective(Tail(moves[o]))
  <1> DEFINE s == moves[o]
  <1>1. s \in Seq(Dated) /\ s # <<>> /\ IsInjective(s)
    BY DEF RenameInv, RenameTypeOK
  <1>2. /\ Head(s) \in Dated /\ Tail(s) \in Seq(Dated)
        /\ Len(s) \in Nat /\ Len(s) > 0 /\ Head(s) = s[1]
        /\ DOMAIN s = 1..Len(s)
        /\ DOMAIN Tail(s) = 1..(Len(s) - 1)
        /\ \A i \in 1..(Len(s) - 1) : Tail(s)[i] = s[i + 1]
    <2> HIDE DEF s
    <2> QED
      BY <1>1, EmptySeq, LenProperties, HeadTailProperties
  <1> HIDE DEF s
  <1>3. Head(s) \in Range(s)
    BY <1>2 DEF Range
  <1>4. Range(s) = {Head(s)} \union Range(Tail(s))
    <2>1. \A i \in 1..Len(s) : i = 1 \/ (i - 1 \in 1..(Len(s) - 1) /\ s[i] = Tail(s)[i - 1])
      BY <1>2
    <2>2. \A i \in 1..(Len(s) - 1) : i + 1 \in 1..Len(s)
      BY <1>2
    <2>3. ASSUME NEW x \in Range(s) PROVE x = Head(s) \/ x \in Range(Tail(s))
      <3>1. PICK i \in 1..Len(s) : s[i] = x
        BY <1>2, <2>3 DEF Range
      <3> QED
        BY <1>2, <2>1, <3>1 DEF Range
    <2>4. ASSUME NEW x \in Range(Tail(s)) PROVE x \in Range(s)
      <3>1. PICK i \in 1..(Len(s) - 1) : Tail(s)[i] = x
        BY <1>2, <2>4 DEF Range
      <3> QED
        BY <1>2, <2>2, <3>1 DEF Range
    <2> QED
      BY <1>3, <2>3, <2>4
  <1>5. IsInjective(Tail(s))
    BY <1>1, <1>2 DEF IsInjective
  <1>6. Changed(Head(s)[2]) # {}
    BY <1>3 DEF RenameInv, MovesSound, s
  <1> QED
    BY <1>2, <1>3, <1>4, <1>5, <1>6 DEF s

LEMMA CopyInv ==
  ASSUME RenameInv, NEW o \in Operators, Copy(o)
  PROVE  /\ RenameInv'
         /\ Range(snapshots) \ {NoBytes} \subseteq Range(snapshots')
  <1> DEFINE x == Head(moves[o])
             y == Target(x)
  <1>1. /\ Moving(o) /\ moves[o] # <<>>
        /\ snapshots[x] # NoBytes
        /\ snapshots' = [snapshots EXCEPT ![y] = snapshots[x]]
        /\ copied' = [copied EXCEPT ![o] = TRUE]
        /\ UNCHANGED <<moves, renaming>>
    BY DEF Copy, Moving
  <1>2. x \in Dated /\ Changed(x[2]) # {} /\ x \in Objects
    BY <1>1, AtHand, BytesAre
  <1>3. /\ y \in Objects /\ y \notin Dated
        /\ \A z \in Dated : Changed(z[2]) # {} /\ Target(z) = y => z = x
    BY <1>2, TargetIs
  <1> HIDE DEF x, y
  <1>4. snapshots[x] = x
    BY <1>1, <1>2 DEF RenameInv, BytesSound
  <1>5. snapshots[y] \in {x, NoBytes}
    BY <1>3 DEF RenameInv, BytesSound
  <1>6. \A z \in Objects : snapshots'[z] = IF z = y THEN x ELSE snapshots[z]
    BY <1>1, <1>4 DEF RenameInv, RenameTypeOK
  <1>7. RenameTypeOK'
    <2>1. snapshots' \in [Objects -> Dated \union {NoBytes}]
      BY <1>1, <1>2, <1>4 DEF RenameInv, RenameTypeOK
    <2> QED
      BY <1>1, <2>1 DEF RenameInv, RenameTypeOK
  <1>8. BytesSound'
    BY <1>2, <1>3, <1>6 DEF RenameInv, BytesSound, x, y
  <1>9. HeldDated' = HeldDated
    BY <1>3, <1>6 DEF HeldDated, Held
  <1>10. \A p \in Operators : copied'[p] =>
           Moving(p) /\ snapshots'[Target(Head(moves[p]))] = Head(moves[p])
    <2> SUFFICES ASSUME NEW p \in Operators, copied'[p]
                 PROVE  Moving(p) /\ snapshots'[Target(Head(moves[p]))] = Head(moves[p])
      OBVIOUS
    <2>1. CASE p = o
      BY <1>1, <1>3, <1>6, <2>1 DEF x, y
    <2>2. CASE p # o
      <3>1. copied[p]
        BY <1>1, <2>2 DEF RenameInv, RenameTypeOK
      <3>2. Moving(p) /\ snapshots[Target(Head(moves[p]))] = Head(moves[p])
        BY <3>1 DEF RenameInv, MovesSound
      <3>3. /\ Head(moves[p]) \in Dated /\ Changed(Head(moves[p])[2]) # {}
            /\ Target(Head(moves[p])) \in Objects
        BY <3>2, AtHand, TargetIs DEF Moving
      <3> QED
        BY <1>3, <1>6, <3>2, <3>3
    <2> QED
      BY <2>1, <2>2
  <1>11. MovesSound'
    BY <1>1, <1>9, <1>10 DEF RenameInv, MovesSound, Moving
  <1>12. DOMAIN snapshots = Objects /\ DOMAIN snapshots' = Objects
    BY <1>7 DEF RenameInv, RenameTypeOK
  <1>13. Range(snapshots) \ {NoBytes} \subseteq Range(snapshots')
    BY <1>3, <1>5, <1>6, <1>12 DEF Range
  <1> QED
    BY <1>7, <1>8, <1>11, <1>13 DEF RenameInv

LEMMA EraseInv ==
  ASSUME RenameInv, NEW o \in Operators, Erase(o)
  PROVE  /\ RenameInv'
         /\ Range(snapshots) \ {NoBytes} \subseteq Range(snapshots')
  <1> DEFINE x == Head(moves[o])
             y == Target(x)
  <1>1. /\ Moving(o) /\ moves[o] # <<>> /\ copied[o]
        /\ snapshots' = [snapshots EXCEPT ![x] = NoBytes]
        /\ moves' = [moves EXCEPT ![o] = Tail(@)]
        /\ copied' = [copied EXCEPT ![o] = FALSE]
        /\ UNCHANGED renaming
    BY DEF Erase, Moving
  <1>2. /\ x \in Dated /\ Changed(x[2]) # {} /\ x \in Objects
        /\ Tail(moves[o]) \in Seq(Dated) /\ IsInjective(Tail(moves[o]))
        /\ Range(moves[o]) = {x} \union Range(Tail(moves[o]))
    BY <1>1, AtHand, BytesAre
  <1>3. y \in Objects /\ y \notin Dated /\ snapshots[y] = x
    BY <1>1, <1>2, TargetIs DEF RenameInv, MovesSound
  <1> HIDE DEF x, y
  <1>4. \A z \in Objects : snapshots'[z] = IF z = x THEN NoBytes ELSE snapshots[z]
    BY <1>1 DEF RenameInv, RenameTypeOK
  <1>5. \A p \in Operators :
          /\ moves'[p] = IF p = o THEN Tail(moves[o]) ELSE moves[p]
          /\ copied'[p] = IF p = o THEN FALSE ELSE copied[p]
    BY <1>1 DEF RenameInv, RenameTypeOK
  <1>6. RenameTypeOK'
    <2>1. snapshots' \in [Objects -> Dated \union {NoBytes}]
      BY <1>1 DEF RenameInv, RenameTypeOK
    <2>2. /\ moves' \in [Operators -> Seq(Dated)]
          /\ copied' \in [Operators -> BOOLEAN]
      BY <1>1, <1>2 DEF RenameInv, RenameTypeOK
    <2>3. \A p \in Operators : IsInjective(moves'[p])
      BY <1>2, <1>5 DEF RenameInv, RenameTypeOK
    <2> QED
      BY <1>1, <2>1, <2>2, <2>3 DEF RenameInv, RenameTypeOK
  <1>7. BytesSound'
    BY <1>4 DEF RenameInv, BytesSound
  <1>8. HeldDated' = HeldDated \ {x}
    BY <1>4 DEF HeldDated, Held
  <1>9. MovesSound'
    <2> SUFFICES ASSUME NEW p \in Operators
                 PROVE  /\ \A z \in Range(moves'[p]) : Changed(z[2]) # {}
                        /\ renaming'[p] \in {"planned", "moving", "finished"} =>
                             HeldDated' \subseteq Range(moves'[p])
                        /\ renaming'[p] \notin {"planned", "moving"} => moves'[p] = <<>>
                        /\ copied'[p] => /\ renaming'[p] = "moving" /\ moves'[p] # <<>>
                                         /\ snapshots'[Target(Head(moves'[p]))] = Head(moves'[p])
      BY DEF MovesSound, Moving
    <2>1. CASE p = o
      <3>1. /\ \A z \in Range(Tail(moves[o])) : Changed(z[2]) # {}
            /\ HeldDated \subseteq Range(moves[o])
            /\ renaming[o] = "moving"
        BY <1>1, <1>2 DEF RenameInv, MovesSound, Moving
      <3> QED
        BY <1>1, <1>2, <1>5, <1>8, <2>1, <3>1
    <2>2. CASE p # o
      <3>1. ASSUME copied[p]
            PROVE  /\ Moving(p)
                   /\ snapshots'[Target(Head(moves[p]))] = Head(moves[p])
        <4>1. Moving(p) /\ snapshots[Target(Head(moves[p]))] = Head(moves[p])
          BY <3>1 DEF RenameInv, MovesSound
        <4>2. Target(Head(moves[p])) \in Objects /\ Target(Head(moves[p])) \notin Dated
          BY <4>1, AtHand, TargetIs DEF Moving
        <4> QED
          BY <1>2, <1>4, <4>1, <4>2
      <3> QED
        BY <1>1, <1>5, <1>8, <2>2, <3>1 DEF RenameInv, MovesSound, Moving
    <2> QED
      BY <2>1, <2>2
  <1>10. DOMAIN snapshots = Objects /\ DOMAIN snapshots' = Objects
    BY <1>6 DEF RenameInv, RenameTypeOK
  <1>11. snapshots[x] \in {x, NoBytes}
    BY <1>2 DEF RenameInv, BytesSound
  <1>12. snapshots'[y] = x
    BY <1>2, <1>3, <1>4
  <1>13. Range(snapshots) \ {NoBytes} \subseteq Range(snapshots')
    BY <1>3, <1>4, <1>10, <1>11, <1>12 DEF Range
  <1> QED
    BY <1>6, <1>7, <1>9, <1>13 DEF RenameInv

LEMMA RenameNextInv ==
  ASSUME RenameInv, [RenameNext]_renameVars
  PROVE  /\ RenameInv'
         /\ Range(snapshots) \ {NoBytes} \subseteq Range(snapshots')
  <1>1. CASE UNCHANGED renameVars
    <2>1. UNCHANGED <<snapshots, moves, copied, renaming>>
      BY <1>1 DEF renameVars
    <2>2. RenameTypeOK'
      BY <2>1 DEF RenameInv, RenameTypeOK
    <2>3. BytesSound'
      BY <2>1 DEF RenameInv, BytesSound
    <2>4. MovesSound'
      BY <2>1 DEF RenameInv, MovesSound, Moving, HeldDated, Held
    <2> QED
      BY <2>1, <2>2, <2>3, <2>4 DEF RenameInv
  <1>2. ASSUME NEW o \in Operators,
               PlanMoves(o) \/ RefusePlan(o) \/ Accept(o) \/ Refuse(o)
                 \/ Finish(o) \/ Stop(o)
        PROVE  RenameInv' /\ UNCHANGED snapshots
    <2>1. CASE PlanMoves(o)
      BY <2>1, PlanMovesInv DEF PlanMoves
    <2>2. CASE RefusePlan(o)
      <3>1. moves[o] = <<>>
        BY <2>2 DEF RenameInv, MovesSound, RefusePlan
      <3> QED
        BY <2>2, <3>1, TurnInv DEF RefusePlan
    <2>3. CASE Accept(o)
      BY <2>3, TurnInv DEF Accept
    <2>4. CASE Refuse(o)
      BY <2>4, NotCopied, ClearedInv DEF Refuse
    <2>5. CASE Finish(o)
      BY <2>5, TurnInv DEF Finish
    <2>6. CASE Stop(o)
      BY <2>6, ClearedInv DEF Stop
    <2> QED
      BY <1>2, <2>1, <2>2, <2>3, <2>4, <2>5, <2>6
  <1>3. ASSUME NEW o \in Operators, Copy(o) \/ Erase(o)
        PROVE  /\ RenameInv'
               /\ Range(snapshots) \ {NoBytes} \subseteq Range(snapshots')
    BY <1>3, CopyInv, EraseInv
  <1>4. UNCHANGED snapshots => Range(snapshots) \ {NoBytes} \subseteq Range(snapshots')
    BY DEF Range
  <1> QED
    BY <1>1, <1>2, <1>3, <1>4 DEF RenameNext

(* The renaming's invariant, for any operators at work at once.            *)
THEOREM RenameInductive == RenameSpec => []RenameInv
  <1>1. RenameInit => RenameInv
    BY RenameInitInv
  <1>2. RenameInv /\ [RenameNext]_renameVars => RenameInv'
    BY RenameNextInv
  <1> QED
    BY <1>1, <1>2, PTL DEF RenameSpec

(* Wherever the script stops and whoever else runs it, the bytes of every  *)
(* snapshot object stay in the bucket under some name (apply_plan).        *)
THEOREM NoSnapshotIsLost == RenameSpec => NothingLost
  <1>1. RenameInv /\ [RenameNext]_renameVars =>
          [Range(snapshots) \ {NoBytes} \subseteq Range(snapshots')]_snapshots
    BY RenameNextInv
  <1> QED
    BY <1>1, RenameInductive, PTL DEF RenameSpec, NothingLost

(* Once a run has finished, whoever ran it, every snapshot is named by the *)
(* last changed check of its date (plan_renames, planned_moves).           *)
THEOREM FinishedMeansRenamed == RenameSpec => []FinishedIsRenamed
  <1>1. RenameInv => FinishedIsRenamed
    <2> SUFFICES ASSUME RenameInv, NEW o \in Operators, renaming[o] = "finished",
                        NEW x \in Held
                 PROVE  LET bytes == snapshots[x] IN
                        /\ bytes[1] = x[1]
                        /\ \E c \in Checks :
                             /\ c.at = x[2] /\ c.date = bytes[2] /\ c.changed
                             /\ \A d \in Checks : d.date = c.date /\ d.changed => d.at <= c.at
      BY DEF FinishedIsRenamed
    <2> DEFINE bytes == snapshots[x]
    <2>1. HeldDated = {}
      BY DEF RenameInv, MovesSound, Range
    <2>2. x \in Objects /\ x \notin Dated /\ bytes # NoBytes
      BY <2>1 DEF HeldDated, Held
    <2>3. bytes \in Dated /\ Changed(bytes[2]) # {} /\ x = Target(bytes)
      BY <2>2 DEF RenameInv, BytesSound
    <2>4. bytes[2] \in DateNames
      BY <2>3 DEF Dated
    <2>5. x[1] = bytes[1] /\ x[2] = NameOf(bytes[2])
      BY <2>3, TargetIs
    <2> HIDE DEF bytes
    <2>6. PICK c \in Checks :
           /\ c.at = NameOf(bytes[2]) /\ c.date = bytes[2] /\ c.changed
           /\ \A d \in Checks : d.date = bytes[2] /\ d.changed => d.at <= c.at
      BY <2>3, <2>4, NameIs
    <2> QED
      BY <2>5, <2>6 DEF bytes
  <1> QED
    BY <1>1, RenameInductive, PTL
-----------------------------------------------------------------------------
(* The three together.                                                     *)

(* A behaviour of the run is one of each script: the one that runs takes   *)
(* its own steps, and the others stutter.                                  *)
LEMMA EachScript == ScriptsSpec => ReplaySpec /\ PullSpec /\ RenameSpec
  <1>1. ScriptsInit => ReplayInit /\ PullInit /\ RenameInit
    BY DEF ScriptsInit
  <1>2. [ScriptsNext]_scriptsVars =>
          /\ [ReplayNext]_replayVars
          /\ [PullNext]_pullVars
          /\ [RenameNext]_renameVars
    BY DEF ScriptsNext, scriptsVars
  <1> QED
    BY <1>1, <1>2, PTL DEF ScriptsSpec, ReplaySpec, PullSpec, RenameSpec

(* Every variable of the three scripts keeps its type.                     *)
THEOREM ScriptsKeepTypes == ScriptsSpec => []ScriptsTypeOK
  <1>1. ReplayTypeOK /\ PullTypeOK /\ RenameInv => ScriptsTypeOK
    BY DEF ScriptsTypeOK, RenameInv
  <1> QED
    BY <1>1, EachScript, ReplayTypes, PullTypes, RenameInductive, PTL
=============================================================================
