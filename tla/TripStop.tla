------------------------------ MODULE TripStop ------------------------------
(***************************************************************************)
(* A trip's rows in trip_stop: the reduction of an hour's trip updates     *)
(* (src/compactor/trip_updates.py) and the merge of a day's partials       *)
(* (src/merger/merge_sql.py, trip_stop_merge), as operators.  Reductions   *)
(* runs them.                                                              *)
(*                                                                         *)
(* An update is placed by its own timestamp when it has one, and otherwise *)
(* by the time of the fetch, so what is read later may be placed earlier.  *)
(* A reducer's rows are a function from calls, [stop, sequence], to rows.  *)
(***************************************************************************)
EXTENDS Integers, FiniteSetsExt

CONSTANTS
  DayAhead,           \* DAY_AHEAD
  EarliestPlausible,  \* EARLIEST_PLAUSIBLE_ARRIVAL
  ReliableLead        \* RELIABLE_LEAD_SECONDS

Unset   == -1
NoEvent == [time |-> Unset, delay |-> Unset]
Real    == {"SCHEDULED", "SKIPPED"}

-----------------------------------------------------------------------------
(* Reading one update.                                                     *)

(* A message without the event and one whose time is zero both read as no  *)
(* event, the delay included.                                              *)
StopEvent(event) == IF event.time = 0 THEN NoEvent ELSE event

ObservationTime(update, at) ==
  IF update.stamp \in {Unset, 0} THEN at ELSE update.stamp

DatedADayAhead(update) ==
  /\ update.start # Unset
  /\ \E c \in DOMAIN update.stops :
       \E event \in {update.stops[c].arrival, update.stops[c].departure} :
         /\ StopEvent(event).time # Unset
         /\ event.time - update.start >= DayAhead

(* What an update says of one stop.                                        *)
Observation(update, c, at) ==
  [seen |-> ObservationTime(update, at),
   vehicle |-> update.vehicle,
   relationship |-> update.stops[c].relationship,
   arrival |-> StopEvent(update.stops[c].arrival),
   departure |-> StopEvent(update.stops[c].departure)]

-----------------------------------------------------------------------------
(* TripStopReducer: the running row of one stop.                           *)

Blank ==
  [arrival |-> NoEvent, arrival_updated |-> Unset, departure |-> NoEvent,
   last_update |-> Unset, n_updates |-> 0, relationship |-> "none",
   had_vehicle |-> FALSE, lost_tracking |-> FALSE, last_observed |-> Unset]

NoteObservation(row, o) ==
  [row EXCEPT
    !.last_observed = IF o.seen >= @ THEN o.seen ELSE @,
    !.relationship = IF row.last_update = Unset THEN o.relationship ELSE @]

\* Mutant: an observation that has been overtaken is not counted.
ApplyUncounted(row, o) ==
  IF o.seen < row.last_update THEN row
  ELSE [row EXCEPT
    !.n_updates = @ + 1,
    !.arrival = IF o.arrival = NoEvent THEN @ ELSE o.arrival,
    !.arrival_updated = IF o.arrival = NoEvent THEN @ ELSE o.seen,
    !.departure = o.departure,
    !.last_update = o.seen,
    !.relationship = o.relationship]

(* Latest wins: one that has been overtaken is counted and no more.  An    *)
(* observation with no arrival keeps the arrival there was.                *)
ApplyReal(row, o) ==
  LET counted == [row EXCEPT !.n_updates = @ + 1] IN
  IF o.seen < row.last_update THEN counted
  ELSE [counted EXCEPT
    !.arrival = IF o.arrival = NoEvent THEN @ ELSE o.arrival,
    !.arrival_updated = IF o.arrival = NoEvent THEN @ ELSE o.seen,
    !.departure = o.departure,
    !.last_update = o.seen,
    !.relationship = o.relationship]

AbsorbStop(row, o) ==
  LET noted == NoteObservation([row EXCEPT !.had_vehicle = @ \/ o.vehicle], o)
  IN IF o.relationship \in Real THEN ApplyReal(noted, o) ELSE noted

(* What every update does to the rows, unless it is dated a day ahead.     *)
AbsorbTrip(rows, update, at) ==
  IF DatedADayAhead(update) THEN rows
  ELSE [c \in DOMAIN rows \union DOMAIN update.stops |->
          IF c \notin DOMAIN update.stops THEN rows[c]
          ELSE AbsorbStop(IF c \in DOMAIN rows THEN rows[c] ELSE Blank,
                          Observation(update, c, at))]

Finalise(row) ==
  [row EXCEPT !.lost_tracking =
     row.last_update # Unset /\ row.last_observed > row.last_update]

Finalised(table) == [c \in DOMAIN table |-> Finalise(table[c])]

-----------------------------------------------------------------------------
(* trip_stop_merge: the day's rows, from the partials of its hours.        *)

\* One rank is ahead of another: the first place in which they differ.
Beats(x, y) ==
  \E i \in DOMAIN x : x[i] > y[i] /\ \A j \in 1..(i - 1) : x[j] = y[j]

First(hours, Rank(_)) ==
  CHOOSE h \in hours : \A g \in hours \ {h} : Beats(Rank(h), Rank(g))

HoursOf(parts, c) == {h \in DOMAIN parts : c \in DOMAIN parts[h]}

(* The hour with the last real observation, or if there is none the one    *)
(* that was observed last.                                                 *)
Latest(parts, c) ==
  First(HoursOf(parts, c),
        LAMBDA h : <<parts[h][c].last_update, parts[h][c].last_observed, h>>)

\* Mutant: the arrival comes with the rest of the latest hour's row.
ArrivalOfLatest(parts, c) == parts[Latest(parts, c)][c].arrival

(* The arrival of the hour that sent one last.                             *)
ArrivalOf(parts, c) ==
  LET sent == {h \in HoursOf(parts, c) : parts[h][c].arrival_updated # Unset}
  IN IF sent = {} THEN NoEvent
     ELSE parts[First(sent, LAMBDA h :
            <<parts[h][c].arrival_updated, parts[h][c].last_observed, h>>)
          ][c].arrival

\* Mutant: the flag is the latest hour's, not the day's.
LostThatHour(parts, c) == parts[Latest(parts, c)][c].lost_tracking

LostTracking(parts, c) ==
  LET last == parts[Latest(parts, c)][c].last_update IN
  /\ last # Unset
  /\ Max({parts[h][c].last_observed : h \in HoursOf(parts, c)}) > last

MergedRow(parts, c) ==
  LET hours  == HoursOf(parts, c)
      latest == parts[Latest(parts, c)][c]
  IN [arrival |-> ArrivalOf(parts, c),
      arrival_updated |-> Max({parts[h][c].arrival_updated : h \in hours}),
      departure |-> latest.departure,
      last_update |-> latest.last_update,
      n_updates |-> SumFunction([h \in hours |-> parts[h][c].n_updates]),
      relationship |-> latest.relationship,
      had_vehicle |-> \E h \in hours : parts[h][c].had_vehicle,
      lost_tracking |-> LostTracking(parts, c)]

(* The totals are joined to the latest rows with =, which no null equals.  *)
Joined(parts) ==
  {c \in UNION {DOMAIN parts[h] : h \in DOMAIN parts} : c.sequence # Unset}

Merged(parts) == [c \in Joined(parts) |-> MergedRow(parts, c)]

IsReliable(row) ==
  /\ row.arrival.delay # Unset
  /\ ~row.lost_tracking
  /\ row.arrival.time # Unset
  /\ row.arrival.time >= EarliestPlausible
  /\ row.arrival_updated >= row.arrival.time - ReliableLead
=============================================================================
