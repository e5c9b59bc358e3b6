----------------------------- MODULE Positions -----------------------------
(***************************************************************************)
(* A vehicle's rows in fact_vehicle_position: the hourly deduper           *)
(* (src/compactor/positions.py) and the day's merge (src/merger/           *)
(* merge_sql.py, POSITION_MERGE), as operators.  Reductions runs them.     *)
(*                                                                         *)
(* A sample is what a vehicle sends, [observed, place], and stands for the *)
(* vehicle's own: the deduper puts the vehicle's id in both its keys.      *)
(***************************************************************************)
EXTENDS Integers, FiniteSets

CONSTANT Window  \* the times observed that belong to the day

Record(sample, at) == [sample |-> sample, fetched |-> at]

(* PositionDeduper, with the rows it has yielded.                          *)
Fresh == [seen |-> {}, rows |-> {}, collapsed |-> 0, differing |-> 0]

Repeats(deduper, sample) == sample \in deduper.seen

(* A pair of vehicle and timestamp has been seen when a key with it has.   *)
Conflicts(deduper, sample) ==
  \E s \in deduper.seen : s.observed = sample.observed

\* Mutant: the conflict is looked for once the sample is itself seen.
DedupeThenCount(deduper, sample, at) ==
  IF Repeats(deduper, sample)
  THEN [deduper EXCEPT !.collapsed = @ + 1]
  ELSE [deduper EXCEPT
          !.seen = @ \union {sample},
          !.rows = @ \union {Record(sample, at)},
          !.differing = @ + 1]

Dedupe(deduper, sample, at) ==
  IF Repeats(deduper, sample)
  THEN [deduper EXCEPT !.collapsed = @ + 1]
  ELSE [deduper EXCEPT
          !.seen = @ \union {sample},
          !.rows = @ \union {Record(sample, at)},
          !.differing = IF Conflicts(deduper, sample) THEN @ + 1 ELSE @]

-----------------------------------------------------------------------------
(* POSITION_MERGE.                                                         *)

InWindow(row) == row.sample.observed \in Window

RowsIn(parts) ==
  {r \in UNION {parts[h].rows : h \in DOMAIN parts} : InWindow(r)}

\* Mutant: the day's rows are the partials' rows, not deduplicated again.
Concatenated(parts) == RowsIn(parts)

(* DISTINCT ON the sample, the earliest fetched first.                     *)
Merged(parts) ==
  {r \in RowsIn(parts) :
     \A q \in RowsIn(parts) : q.sample = r.sample => r.fetched <= q.fetched}
=============================================================================
