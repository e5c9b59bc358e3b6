----------------------------- MODULE MCDayCycle -----------------------------
(* Two days with a change of the clocks on either, or none.  Day 1 begins  *)
(* at hour 13 or 14, and the changes fall on hours 16 and 40.              *)
EXTENDS DayCycle

Trip(day, first, ride) == [day |-> day, first |-> first, ride |-> ride]
SomeTrips ==
  {Trip(1, 0, 1), Trip(1, 23, 3), Trip(1, 24, 2), Trip(1, 30, 0), Trip(2, 0, 1)}

NotAll == {SomeTrips, SomeTrips \ {Trip(1, 24, 2)}}

Change(before, after, shift) ==
  [before |-> before, after |-> after, shift |-> shift]
EachChange ==
  {Change(10, 11, 16), Change(11, 10, 16), Change(10, 11, 40),
   Change(11, 10, 40), Change(10, 10, 16)}

\* The hours around each midnight in Sydney, and around each in UTC.
AroundMidnight == (12..15) \union {23, 24} \union (36..39) \union (60..63)
=============================================================================
