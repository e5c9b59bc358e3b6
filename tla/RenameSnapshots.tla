-------------------------- MODULE RenameSnapshots --------------------------
(***************************************************************************)
(* rename_snapshots (src/scripts/rename_snapshots.py): an operator moves   *)
(* the snapshots that are named by date, object by object, to the time of  *)
(* the last changed check of that date.  All targets are looked up before  *)
(* the first move, a move is a copy and then a delete, and the script may  *)
(* stop between any two of these and be run again.  A second operator may  *)
(* run it at the same time.                                                *)
(***************************************************************************)
EXTENDS Integers, SequencesExt

CONSTANTS
  Tables,     \* the dimensions and the bundle archive, in listing order
  DateNames,  \* dates that name snapshots
  Checks,     \* schedule_check records: [at, date, changed]
  Operators   \* who runs the script

TableSet  == Range(Tables)
TimeNames == {c.at : c \in Checks}
Names     == DateNames \union TimeNames
Dated     == TableSet \X DateNames
Objects   == TableSet \X Names

(* A check has a second of its own.                                        *)
ASSUME RenameAssumption ==
  /\ Tables \in Seq(TableSet) /\ IsInjective(Tables)
  /\ DateNames \subseteq Nat /\ IsFiniteSet(DateNames)
  /\ IsFiniteSet(Checks)
  /\ Checks \subseteq [at : Nat, date : DateNames, changed : BOOLEAN]
  /\ \A c, d \in Checks : c.at = d.at => c = d
  /\ DateNames \intersect TimeNames = {}

VARIABLES
  snapshots,  \* object -> the dated object whose bytes are there
  moves,      \* operator -> the dated objects still to move
  copied,     \* operator -> the first of them is copied
  renaming    \* operator -> what became of the run

renameVars == <<snapshots, moves, copied, renaming>>

NoBytes == <<>>

RenameTypeOK ==
  /\ snapshots \in [Objects -> Dated \union {NoBytes}]
  /\ moves \in [Operators -> Seq(Dated)]
  /\ \A o \in Operators : IsInjective(moves[o])
  /\ copied \in [Operators -> BOOLEAN]
  /\ renaming \in [Operators -> {"idle", "planned", "moving", "refused", "finished"}]

(* A loader that died left a snapshot short of some tables.                *)
RenameInit ==
  /\ \E held \in SUBSET Dated :
       snapshots = [x \in Objects |-> IF x \in held THEN x ELSE NoBytes]
  /\ moves = [o \in Operators |-> <<>>]
  /\ copied = [o \in Operators |-> FALSE]
  /\ renaming = [o \in Operators |-> "idle"]

-----------------------------------------------------------------------------
Held      == {x \in Objects : snapshots[x] # NoBytes}
HeldDated == Held \intersect Dated

Changed(date) == {c \in Checks : c.date = date /\ c.changed}

\* Mutant: a date is named by its first changed check.
NameOfFirst(date) == Min({c.at : c \in Changed(date)})

NameOf(date) == Max({c.at : c \in Changed(date)})

Target(x) == <<x[1], NameOf(x[2])>>

Rank(table) == CHOOSE i \in DOMAIN Tables : Tables[i] = table

Before(x, y) == Rank(x[1]) < Rank(y[1]) \/ (x[1] = y[1] /\ x[2] < y[2])

(* The objects of a set, in the order of a listing.                        *)
Place(x, S) == Cardinality({y \in S : Before(y, x)}) + 1
Sorted(S)   == [i \in 1..Cardinality(S) |-> CHOOSE x \in S : Place(x, S) = i]

\* Mutant: the pattern of a date name has no end.
ListingUnanchored == Sorted(Held)

Listing == Sorted(HeldDated)

Turns(o, state) == renaming' = [renaming EXCEPT ![o] = state]

(* plan_renames, planned_moves.                                            *)
PlanMoves(o) ==
  /\ renaming[o] = "idle"
  /\ \A x \in HeldDated : Changed(x[2]) # {}
  /\ moves' = [moves EXCEPT ![o] = Listing]
  /\ Turns(o, "planned")
  /\ UNCHANGED <<snapshots, copied>>

RefusePlan(o) ==
  /\ renaming[o] = "idle"
  /\ \E x \in HeldDated : Changed(x[2]) = {}
  /\ Turns(o, "refused")
  /\ UNCHANGED <<snapshots, moves, copied>>

(* apply_plan lists again, and refuses when any target is there.           *)
Clashes(o) == {x \in Range(moves[o]) : Target(x) \in Held}

Accept(o) ==
  /\ renaming[o] = "planned"
  /\ Clashes(o) = {}
  /\ Turns(o, "moving")
  /\ UNCHANGED <<snapshots, moves, copied>>

Refuse(o) ==
  /\ renaming[o] = "planned"
  /\ Clashes(o) # {}
  /\ moves' = [moves EXCEPT ![o] = <<>>]
  /\ Turns(o, "refused")
  /\ UNCHANGED <<snapshots, copied>>

Moving(o) == renaming[o] = "moving" /\ moves[o] # <<>>

Copy(o) ==
  /\ Moving(o)
  /\ ~copied[o]
  /\ LET x == Head(moves[o]) IN
       /\ snapshots[x] # NoBytes
       /\ snapshots' = [snapshots EXCEPT ![Target(x)] = snapshots[x]]
  /\ copied' = [copied EXCEPT ![o] = TRUE]
  /\ UNCHANGED <<moves, renaming>>

\* Mutant: the source is deleted whether or not it was copied.
EraseFirst(o) ==
  /\ Moving(o)
  /\ snapshots' = [snapshots EXCEPT ![Head(moves[o])] = NoBytes]
  /\ moves' = [moves EXCEPT ![o] = Tail(@)]
  /\ copied' = [copied EXCEPT ![o] = FALSE]
  /\ UNCHANGED renaming

(* Deleting what is gone already is no error.                              *)
Erase(o) ==
  /\ Moving(o)
  /\ copied[o]
  /\ snapshots' = [snapshots EXCEPT ![Head(moves[o])] = NoBytes]
  /\ moves' = [moves EXCEPT ![o] = Tail(@)]
  /\ copied' = [copied EXCEPT ![o] = FALSE]
  /\ UNCHANGED renaming

Finish(o) ==
  /\ renaming[o] = "moving"
  /\ moves[o] = <<>>
  /\ Turns(o, "finished")
  /\ UNCHANGED <<snapshots, moves, copied>>

(* The script is stopped, or a copy finds its source gone, or it was over; *)
(* it may be run again.                                                    *)
Stop(o) ==
  /\ renaming[o] # "idle"
  /\ moves' = [moves EXCEPT ![o] = <<>>]
  /\ copied' = [copied EXCEPT ![o] = FALSE]
  /\ Turns(o, "idle")
  /\ UNCHANGED snapshots

-----------------------------------------------------------------------------
RenameNext ==
  \E o \in Operators :
    \/ PlanMoves(o) \/ RefusePlan(o) \/ Accept(o) \/ Refuse(o)
    \/ Copy(o) \/ Erase(o) \/ Finish(o) \/ Stop(o)

RenameSpec == RenameInit /\ [][RenameNext]_renameVars

-----------------------------------------------------------------------------
(* Properties.                                                             *)

(* The bytes of every snapshot object are in the bucket under some name at *)
(* every moment, though the script stops anywhere, is run again, or is run *)
(* by two at once (apply_plan).                                            *)
NothingLost ==
  [][Range(snapshots) \ {NoBytes} \subseteq Range(snapshots')]_snapshots

(* Once a run has finished, no snapshot is named by date, and each object  *)
(* bears the time of a check that found a change on its date, none of that *)
(* date being later (plan_renames, planned_moves, apply_plan).             *)
FinishedIsRenamed ==
  (\E o \in Operators : renaming[o] = "finished") =>
    \A x \in Held :
      LET bytes == snapshots[x] IN
      /\ bytes[1] = x[1]
      /\ \E c \in Checks :
           /\ c.at = x[2] /\ c.date = bytes[2] /\ c.changed
           /\ \A d \in Checks : d.date = c.date /\ d.changed => d.at <= c.at

=============================================================================
