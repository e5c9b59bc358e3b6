----------------------------- MODULE MCScripts -----------------------------
(* The three scripts an operator runs by hand, for TLC.  They share no     *)
(* state: a behaviour is one script's, chosen at the start.                *)
EXTENDS Replay, PullCurated, RenameSnapshots

VARIABLE running   \* the script that is run

scriptsVars == <<running, replayVars, pullVars, renameVars>>

(* Two days whose windows meet in an hour.                                 *)
MeetingWindows == [d \in Days |-> 1..d]

TwoTables == <<"dim_route", "dim_trip">>

(* A date whose last check found no change, one that changed twice, and    *)
(* one whose snapshot no check accounts for.                               *)
DatedChecks ==
  {[at |-> 11, date |-> 1, changed |-> TRUE],
   [at |-> 12, date |-> 1, changed |-> FALSE],
   [at |-> 21, date |-> 2, changed |-> TRUE],
   [at |-> 22, date |-> 2, changed |-> TRUE],
   [at |-> 31, date |-> 3, changed |-> FALSE]}

ScriptsInit ==
  /\ running \in {"replay", "pull", "rename"}
  /\ ReplayInit /\ (running # "replay" => \A h \in Hours : partial[h] = Gone)
  /\ PullInit
  /\ RenameInit /\ (running # "rename" => Held = {})

ScriptsNext ==
  /\ UNCHANGED running
  /\ \/ running = "replay" /\ ReplayNext /\ UNCHANGED <<pullVars, renameVars>>
     \/ running = "pull" /\ PullNext /\ UNCHANGED <<replayVars, renameVars>>
     \/ running = "rename" /\ RenameNext /\ UNCHANGED <<replayVars, pullVars>>

ScriptsSpec == ScriptsInit /\ [][ScriptsNext]_scriptsVars /\ ReplayFairness

(* Every variable of the three scripts keeps its type.                     *)
ScriptsTypeOK == ReplayTypeOK /\ PullTypeOK /\ RenameTypeOK
=============================================================================
