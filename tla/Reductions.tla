----------------------------- MODULE Reductions -----------------------------
(***************************************************************************)
(* From what the feed sent to the day's facts: the compactor reads an      *)
(* hour's objects in the order they were fetched, feeds every update of a  *)
(* trip to its stop-level and its trip-level reducer and every position of *)
(* a vehicle to the deduper (src/compactor/handler.py), and ends the hour  *)
(* with a partial of each; the merger puts the day's partials together     *)
(* (src/merger/merge_sql.py).  One trip and one vehicle stand for all: the *)
(* reducers keep trips and vehicles apart by their keys.                   *)
(*                                                                         *)
(* The two feeds share no state, so a behaviour reads one or the other.    *)
(***************************************************************************)
EXTENDS Integers, SequencesExt

CONSTANTS
  Calls,       \* the trip's stops, as [stop, sequence]
  Updates,     \* its updates: [status, start, vehicle, stamp, stops]
  Samples,     \* what the vehicle sends: [observed, place]
  Hours,       \* bound: how many hours are merged
  HourLength,  \* polls in an hour
  MaxUpdates,  \* bound: updates read in all
  MaxSamples,  \* bound: samples read in all
  DayAhead, EarliestPlausible, ReliableLead, Window

Stop     == INSTANCE TripStop
Trip     == INSTANCE TripStatus
Position == INSTANCE Positions

ASSUME ReductionsAssumption ==
  /\ {Hours, HourLength, ReliableLead} \subseteq Nat \ {0}
  /\ {MaxUpdates, MaxSamples, DayAhead, EarliestPlausible} \subseteq Nat
  /\ \A u \in Updates :
       /\ u.stamp \in Nat \union {Stop!Unset}
       /\ u.vehicle \in BOOLEAN
       /\ DOMAIN u.stops \subseteq Calls

VARIABLES
  hour,     \* the hour being compacted
  at,       \* when the object being read was fetched
  stops,    \* TripStopReducer.rows
  trip,     \* TripStatusReducer
  deduper,  \* PositionDeduper
  partial,  \* hour -> what its three partials hold
  heard,    \* history: the updates read, each with its fetch
  sighted   \* history: the samples read, each with its fetch

vars == <<hour, at, stops, trip, deduper, partial, heard, sighted>>

Times == 0..(Hours * HourLength - 1)

Init ==
  /\ hour = 0
  /\ at = 0
  /\ stops = <<>>
  /\ trip = Trip!Fresh
  /\ deduper = Position!Fresh
  /\ partial = <<>>
  /\ heard = <<>>
  /\ sighted = <<>>

-----------------------------------------------------------------------------
(* compact_trip_updates: the next entity of the object at hand.            *)
ReadUpdate(update) ==
  /\ hour < Hours
  /\ Len(heard) < MaxUpdates /\ sighted = <<>>
  /\ stops' = Stop!AbsorbTrip(stops, update, at)
  /\ trip' = Trip!Absorb(trip, update, at)
  /\ heard' = Append(heard, [at |-> at, update |-> update])
  /\ UNCHANGED <<hour, at, deduper, partial, sighted>>

(* compact_positions: the next entity of the object at hand.               *)
ReadSample(sample) ==
  /\ hour < Hours
  /\ Len(sighted) < MaxSamples /\ heard = <<>>
  /\ deduper' = Position!Dedupe(deduper, sample, at)
  /\ sighted' = Append(sighted, [at |-> at, sample |-> sample])
  /\ UNCHANGED <<hour, at, stops, trip, partial, heard>>

(* The next object of the hour, which was fetched later.                   *)
NextPoll ==
  /\ hour < Hours
  /\ (at + 1) \div HourLength = hour
  /\ at' = at + 1
  /\ UNCHANGED <<hour, stops, trip, deduper, partial, heard, sighted>>

(* What the hour's partials hold if it ends here.                          *)
Written ==
  [stops |-> Stop!Finalised(stops), trip |-> trip.row,
   positions |-> [rows |-> deduper.rows, collapsed |-> deduper.collapsed,
                  differing |-> deduper.differing]]

WriteHour ==
  /\ hour < Hours
  /\ (at + 1) \div HourLength > hour
  /\ partial' = [h \in 0..hour |-> IF h = hour THEN Written ELSE partial[h]]
  /\ hour' = hour + 1
  /\ at' = IF hour + 1 < Hours THEN at + 1 ELSE at
  /\ UNCHANGED <<heard, sighted>>

\* Mutant: the trip's row is carried into the next hour.
EndHourKeepingTrip ==
  /\ WriteHour
  /\ stops' = <<>>
  /\ UNCHANGED trip
  /\ deduper' = Position!Fresh

(* The hour is put, and the next one has reducers of its own.              *)
EndHour ==
  /\ WriteHour
  /\ stops' = <<>>
  /\ trip' = Trip!Fresh
  /\ deduper' = Position!Fresh

Rest ==
  /\ hour = Hours
  /\ UNCHANGED vars

Next ==
  \/ \E update \in Updates : ReadUpdate(update)
  \/ \E sample \in Samples : ReadSample(sample)
  \/ NextPoll
  \/ EndHour
  \/ Rest

Spec == Init /\ [][Next]_vars

-----------------------------------------------------------------------------
(* The day so far: the partials, and what the hour at hand would leave.    *)
Part(h)       == IF h < hour THEN partial[h] ELSE Written
StopParts     == [h \in 0..hour |-> Part(h).stops]
TripParts     == [h \in 0..hour |-> Part(h).trip]
PositionParts == [h \in 0..hour |-> Part(h).positions]

StopFact     == Stop!Merged(StopParts)
TripFact     == Trip!Merged(TripParts)
PositionFact == Position!Merged(PositionParts)

(* What was said of a call, as the positions in heard that say it.         *)
Saying(c) ==
  {i \in DOMAIN heard : /\ c \in DOMAIN heard[i].update.stops
                        /\ ~Stop!DatedADayAhead(heard[i].update)}

Said(i, c) == Stop!Observation(heard[i].update, c, heard[i].at)

Reporting(c) == {i \in Saying(c) : Said(i, c).relationship \in Stop!Real}
SeenAt(I, c) == {Said(i, c).seen : i \in I}

(* The behaviours in which no stop's observations go back in time.         *)
InOrder ==
  \A c \in Calls : \A i, j \in Saying(c)' :
    i < j => Said(i, c)'.seen <= Said(j, c)'.seen

InOrderSpec == Init /\ [][Next /\ InOrder]_vars

(* The behaviours in which no update is stamped ahead of its fetch.        *)
NeverAhead ==
  \A i \in DOMAIN heard' : heard'[i].update.stamp <= heard'[i].at

PastSpec == Init /\ [][Next /\ NeverAhead]_vars

-----------------------------------------------------------------------------
(* Properties.                                                             *)

IsTripRow(r) ==
  /\ {r.first_seen, r.last_seen} \subseteq Times
  /\ {r.final_status_at, r.first_canceled, r.last_canceled}
       \subseteq Times \union {Trip!Unset}
  /\ \A s \in Trip!POLL_COLUMNS : r.polls[s] \in 0..HourLength

(* Partials exist for exactly the hours gone by; a stop's row has been     *)
(* observed, a trip's row counts no more polls than its hour has, and a    *)
(* position was fetched in its hour (the schemas of the three partials).   *)
TypeOK ==
  /\ hour \in 0..Hours
  /\ at \in Times
  /\ DOMAIN partial = 0..(hour - 1)
  /\ \A h \in 0..hour :
       /\ \A c \in DOMAIN Part(h).stops :
            /\ c \in Calls
            /\ Part(h).stops[c].last_observed # Stop!Unset
            /\ Part(h).stops[c].n_updates \in 0..MaxUpdates
       /\ Part(h).trip # Trip!Nothing => IsTripRow(Part(h).trip)
       /\ \A r \in Part(h).positions.rows : r.fetched \div HourLength = h

(* Cutting the day into hours, and merging them, is invisible: as long as  *)
(* a stop's timestamps do not go back, repeated ones included, the merged  *)
(* rows are those of one pass over the whole day                           *)
(* (trip_stop_merge's docstring; TripStopReducer).                         *)
Observations ==
  UNION {{Stop!Observation(u, c, t) : c \in DOMAIN u.stops, t \in Times} :
           u \in Updates}

Day == INSTANCE TripStopDay WITH
  fact <- StopFact, Real <- Stop!Real, NoEvent <- Stop!NoEvent,
  Unset <- Stop!Unset

ImplementsDay == Day!Spec

(* Whatever order observations come in, the day's totals are those of all  *)
(* of them: how many were real, whether a vehicle was seen, when the last  *)
(* real one was made, and whether any was made after that                  *)
(* (apply_real, note_observation; the totals of trip_stop_merge).          *)
TotalsKept ==
  \A c \in DOMAIN StopFact :
    LET row == StopFact[c] IN
    /\ row.n_updates = Cardinality(Reporting(c))
    /\ row.had_vehicle = \E i \in Saying(c) : Said(i, c).vehicle
    /\ row.last_update = Max(SeenAt(Reporting(c), c) \union {Stop!Unset})
    /\ row.lost_tracking <=>
         /\ Reporting(c) # {}
         /\ Max(SeenAt(Saying(c), c)) > Max(SeenAt(Reporting(c), c))

(* A row that is marked reliable can be trusted: its arrival and delay     *)
(* were really sent together, no more than the lead before the arrival     *)
(* itself, and nothing heard of that stop was made after the last real     *)
(* observation, whatever order it all came in (is_reliable).               *)
ReliableIsWitnessed ==
  \A c \in DOMAIN StopFact :
    LET row == StopFact[c] IN
    Stop!IsReliable(row) =>
      /\ \E i \in Reporting(c) :
           /\ Said(i, c).arrival = row.arrival
           /\ Said(i, c).seen >= row.arrival.time - ReliableLead
      /\ \A i \in Saying(c) : Said(i, c).seen <= Max(SeenAt(Reporting(c), c))

(* A stop is only said to have lost tracking when what the feed last said  *)
(* of it was an echo (docs/methodology.md, 13: the two clocks "cannot      *)
(* change the answer"; the data dictionary: "only echoes followed").       *)
LostMeansEchoedLast ==
  \A c \in DOMAIN StopFact :
    StopFact[c].lost_tracking => Max(Saying(c)) \notin Reporting(c)

Telling(s)   == {i \in DOMAIN heard : heard[i].update.status = s}
PollsOf(I)   == {heard[i].at : i \in I}
Polls(s)     == PollsOf(Telling(s))
LastTelling  == Max(PollsOf(DOMAIN heard \ Telling(Trip!Unsent)))
LastStatuses == {heard[i].update.status : i \in {j \in DOMAIN heard :
                   heard[j].at = LastTelling}} \ {Trip!Unsent}

(* The merged row is the whole day's evidence: each status is counted once *)
(* in every poll that reported it, however often it did and whichever hour *)
(* it was in; the final status is the one ranked first in the latest poll  *)
(* that sent any; and the spans are those of the polls                     *)
(* (trips.py's header, trip_merge's docstring).                            *)
FactIsTheEvidence ==
  heard # <<>> =>
    LET fact == TripFact IN
    /\ \A s \in Trip!POLL_COLUMNS : fact.polls[s] = Cardinality(Polls(s))
    /\ IF DOMAIN heard = Telling(Trip!Unsent)
       THEN fact.final_status = Trip!Unsent
       ELSE /\ fact.final_status_at = LastTelling
            /\ fact.final_status \in LastStatuses
            /\ \A s \in LastStatuses :
                 Trip!Rank(fact.final_status) <= Trip!Rank(s)
    /\ fact.first_seen = heard[1].at
    /\ fact.last_seen = Last(heard).at
    /\ fact.start = Last(heard).update.start
    /\ fact.first_canceled = Trip!MinKnown(Polls("CANCELED"))
    /\ fact.last_canceled = Max(Polls("CANCELED") \union {Trip!Unset})
    /\ fact.had_vehicle = \E i \in DOMAIN heard : heard[i].update.vehicle

FetchesOf(s) == {q.at : q \in {r \in Range(sighted) : r.sample = s}}

(* The fact holds each sample of the day exactly once, as it was first     *)
(* fetched, however often and over whichever hours it was sent again, and  *)
(* keeps the places apart that share a timestamp (PositionDeduper,         *)
(* POSITION_MERGE).                                                        *)
FactIsDistinct ==
  PositionFact = {Position!Record(s, Min(FetchesOf(s))) :
                    s \in {q \in Samples : q.observed \in Window
                                             /\ FetchesOf(q) # {}}}

HeldIn(h) == {i \in DOMAIN sighted : sighted[i].at \div HourLength = h}

(* What an hour's record says of its reduction accounts for every entity   *)
(* the hour held: each was a row or collapsed, and every row but the first *)
(* of each timestamp is counted as differing (build_record).               *)
CountersAccount ==
  \A h \in DOMAIN partial :
    LET put == partial[h].positions IN
    /\ put.collapsed + Cardinality(put.rows) = Cardinality(HeldIn(h))
    /\ put.differing = Cardinality(put.rows)
                         - Cardinality({r.sample.observed : r \in put.rows})
=============================================================================
