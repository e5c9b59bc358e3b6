---------------------------- MODULE MCReductions ----------------------------
(* Instances of Reductions for TLC.  Times are small: 4 is a plausible     *)
(* arrival, 1 is not, 13 is a day ahead of a trip that starts at 1.        *)
EXTENDS Reductions

Once == [stop |-> "a", sequence |-> 1]
Back == [stop |-> "a", sequence |-> 2]
Loop == {Once, Back}

Time(time, delay) == [time |-> time, delay |-> delay]
Zero  == Time(0, 0)
Never == Stop!NoEvent

Message(relationship, arrival, departure) ==
  [relationship |-> relationship, arrival |-> arrival, departure |-> departure]

Echo     == Message("NO_DATA", Time(4, 0), Never)
Arriving == Message("SCHEDULED", Time(4, 1), Time(5, 1))
Slipping == Message("SCHEDULED", Time(5, 2), Never)
Leaving  == Message("SCHEDULED", Zero, Time(6, 2))
Skipped  == Message("SKIPPED", Never, Never)
Artefact == Message("SCHEDULED", Time(1, 1), Never)
Untimed  == Message("SCHEDULED", Time(Trip!Unset, 1), Never)
DayLate  == Message("SCHEDULED", Time(13, 1), Never)

Of(stopsets, stamps, statuses, vehicles, starts) ==
  [stops : stopsets, stamp : stamps, status : statuses, vehicle : vehicles,
   start : starts]

Now == Stop!Unset
Only(messages) == [{Once} -> messages]
Both(messages) == {f \in [Loop -> messages] : f[Once] # f[Back]}

InTurn ==
  Of(Only({Echo, Arriving, Leaving}), {Now, 2}, {"SCHEDULED"}, {FALSE}, {1})
    \union Of(Both({Echo, Leaving}), {Now}, {"SCHEDULED"}, {FALSE}, {1})
    \union Of(Only({Slipping, Skipped, DayLate}), {Now}, {"ADDED"}, {TRUE}, {1})
AnyTurn ==
  Of(Only({Echo, Arriving, Slipping, Leaving, Artefact}), {Now, 1},
     {"SCHEDULED"}, {FALSE}, {1})
    \union Of(Only({Echo, Untimed, DayLate}), {3}, {"ADDED"}, {TRUE}, {1})
    \union Of({<<>>}, {Now}, {"CANCELED", "UNSCHEDULED", Trip!Unsent},
              {FALSE}, {2})
Clocks == Of(Only({Echo, Arriving}), {Now, 1}, {"SCHEDULED"}, {TRUE}, {1})

Sample(observed, place) == [observed |-> observed, place |-> place]

None      == {}
Stale     == {Sample(1, "here"), Sample(1, "there"), Sample(3, "here"),
              Sample(0, "here")}
AfterZero == 1..9
=============================================================================
