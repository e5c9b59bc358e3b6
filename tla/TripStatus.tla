----------------------------- MODULE TripStatus -----------------------------
(***************************************************************************)
(* A trip's row in fact_trip: the reduction of an hour's trip-level        *)
(* statuses (src/compactor/trips.py) and the merge of a day's partials     *)
(* (src/merger/merge_sql.py, trip_merge), as operators.  Reductions runs   *)
(* them.                                                                   *)
(*                                                                         *)
(* Everything is placed by the time of the fetch, so nothing goes back in  *)
(* time, but one poll may hold several updates of the trip, in any order   *)
(* and with different statuses.  A reducer is its row of the trip, or      *)
(* Nothing, and what it has counted, as <<status, at>>.                    *)
(***************************************************************************)
EXTENDS Integers, Sequences, FiniteSetsExt

Nothing == <<>>
Unset   == -1
Unsent  == "unsent"

STATUS_PRECEDENCE == <<"CANCELED", "SCHEDULED", "ADDED">>
POLL_COLUMNS      == {"SCHEDULED", "CANCELED", "ADDED"}

Rank(status) ==
  IF \E i \in DOMAIN STATUS_PRECEDENCE : STATUS_PRECEDENCE[i] = status
  THEN CHOOSE i \in DOMAIN STATUS_PRECEDENCE : STATUS_PRECEDENCE[i] = status
  ELSE Len(STATUS_PRECEDENCE) + 1

Earlier(s, t) == IF s = Unset \/ t < s THEN t ELSE s
Later(s, t)   == IF t > s THEN t ELSE s

-----------------------------------------------------------------------------
(* TripStatusReducer.                                                      *)

Blank(update, at) ==
  [start |-> update.start, final_status |-> Unsent,
   final_status_at |-> Unset, polls |-> [s \in POLL_COLUMNS |-> 0],
   first_seen |-> at, last_seen |-> at,
   first_canceled |-> Unset, last_canceled |-> Unset, had_vehicle |-> FALSE]

(* Reading is in the order of the fetches, so the latest poll's descriptor *)
(* is the last one read.                                                   *)
NoteSeen(r, update, at) ==
  LET widened == [r EXCEPT !.first_seen = Earlier(@, at)] IN
  IF at >= r.last_seen
  THEN [widened EXCEPT !.last_seen = at, !.start = update.start]
  ELSE widened

(* The latest poll's status, and within one poll the one ranked first.     *)
NoteStatus(r, status, at) ==
  LET newer  == at > r.final_status_at
      tieWon == at = r.final_status_at /\ Rank(status) < Rank(r.final_status)
  IN IF newer \/ tieWon
     THEN [r EXCEPT !.final_status = status, !.final_status_at = at]
     ELSE r

NoteCanceled(r, at) ==
  [r EXCEPT !.first_canceled = Earlier(@, at), !.last_canceled = Later(@, at)]

(* A status is counted once per poll.                                      *)
Counts(counted, status, at) ==
  status \in POLL_COLUMNS /\ <<status, at>> \notin counted

AbsorbStatus(r, counted, status, at) ==
  LET noted  == NoteStatus(r, status, at)
      ranged == IF status = "CANCELED" THEN NoteCanceled(noted, at) ELSE noted
  IN IF Counts(counted, status, at)
     THEN [row |-> [ranged EXCEPT !.polls[status] = @ + 1],
           counted |-> counted \union {<<status, at>>}]
     ELSE [row |-> ranged, counted |-> counted]

Fresh == [row |-> Nothing, counted |-> {}]

Absorb(reducer, update, at) ==
  LET known == IF reducer.row = Nothing THEN Blank(update, at) ELSE reducer.row
      seen  == [NoteSeen(known, update, at) EXCEPT
                  !.had_vehicle = @ \/ update.vehicle]
  IN IF update.status = Unsent THEN [reducer EXCEPT !.row = seen]
     ELSE AbsorbStatus(seen, reducer.counted, update.status, at)

-----------------------------------------------------------------------------
(* trip_merge: the day's row, from the partials of its hours.              *)

HoursOf(parts) == {h \in DOMAIN parts : parts[h] # Nothing}
Column(parts, Of(_)) == {Of(parts[h]) : h \in HoursOf(parts)}
Known(times) == times \ {Unset}
MinKnown(times) == IF Known(times) = {} THEN Unset ELSE Min(Known(times))

\* Mutant: the final status is that of the hour in which the trip was last
\* seen, which may not have sent one.
StatusOfLastSeen(parts) ==
  parts[CHOOSE h \in HoursOf(parts) :
          \A g \in HoursOf(parts) : parts[g].last_seen <= parts[h].last_seen
       ].final_status

(* An hour that sent no status never overrides one that did.               *)
FinalStatus(parts) ==
  LET sent == {h \in HoursOf(parts) : parts[h].final_status_at # Unset} IN
  IF sent = {} THEN Unsent
  ELSE parts[CHOOSE h \in sent : \A g \in sent :
               parts[g].final_status_at <= parts[h].final_status_at
            ].final_status

Merged(parts) ==
  [start |-> parts[CHOOSE h \in HoursOf(parts) : \A g \in HoursOf(parts) :
                          parts[g].last_seen <= parts[h].last_seen].start,
   final_status |-> FinalStatus(parts),
   final_status_at |-> Max(Column(parts, LAMBDA r : r.final_status_at)),
   polls |-> [s \in POLL_COLUMNS |->
                SumFunction([h \in HoursOf(parts) |-> parts[h].polls[s]])],
   first_seen |-> Min(Column(parts, LAMBDA r : r.first_seen)),
   last_seen |-> Max(Column(parts, LAMBDA r : r.last_seen)),
   first_canceled |-> MinKnown(Column(parts, LAMBDA r : r.first_canceled)),
   last_canceled |-> Max(Column(parts, LAMBDA r : r.last_canceled)),
   had_vehicle |-> \E h \in HoursOf(parts) : parts[h].had_vehicle]
=============================================================================
