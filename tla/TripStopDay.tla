---------------------------- MODULE TripStopDay ----------------------------
(***************************************************************************)
(* What fact_trip_stop promises of one trip (docs/data-dictionary.md,      *)
(* src/compactor/trip_updates.py): each stop's row is what its reports     *)
(* say when they are taken one after the other, all day.  There are no     *)
(* hours here, no partials and no comparing of timestamps.                 *)
(***************************************************************************)
EXTENDS Integers

CONSTANTS
  Calls,         \* the stops of the trip, as <<stop, sequence>>
  Observations,  \* [seen, vehicle, relationship, arrival, departure]
  Real,          \* the relationships that report something
  NoEvent,       \* an arrival or departure that was not sent
  Unset          \* the time of what never happened

VARIABLE fact

Untold ==
  [arrival |-> NoEvent, arrival_updated |-> Unset, departure |-> NoEvent,
   last_update |-> Unset, n_updates |-> 0, relationship |-> "none",
   had_vehicle |-> FALSE, lost_tracking |-> FALSE]

(* An echo says only that the stop was listed: it can name the stop's      *)
(* relationship until something real does, and after that it says that the *)
(* bus went quiet.                                                         *)
Echoed(row, o) ==
  [row EXCEPT
    !.relationship = IF row.n_updates = 0 THEN o.relationship ELSE @,
    !.had_vehicle = @ \/ o.vehicle,
    !.lost_tracking = row.n_updates > 0 /\ o.seen > row.last_update]

(* A real report takes the place of the last, but for an arrival it does   *)
(* not mention.                                                            *)
Reported(row, o) ==
  [row EXCEPT
    !.arrival = IF o.arrival = NoEvent THEN @ ELSE o.arrival,
    !.arrival_updated = IF o.arrival = NoEvent THEN @ ELSE o.seen,
    !.departure = o.departure,
    !.last_update = o.seen,
    !.n_updates = @ + 1,
    !.relationship = o.relationship,
    !.had_vehicle = @ \/ o.vehicle,
    !.lost_tracking = FALSE]

Told(row, o) ==
  IF o.relationship \in Real THEN Reported(row, o) ELSE Echoed(row, o)

Before(c) == IF c \in DOMAIN fact THEN fact[c] ELSE Untold

Init == fact = <<>>

(* An update reports on some of the trip's stops, in any number at once.   *)
Report(calls) ==
  /\ DOMAIN fact' = DOMAIN fact \union calls
  /\ \A c \in calls : \E o \in Observations : fact'[c] = Told(Before(c), o)
  /\ \A c \in DOMAIN fact \ calls : fact'[c] = fact[c]

Next == \E calls \in SUBSET Calls : Report(calls)

Spec == Init /\ [][Next]_fact
=============================================================================
