SPECIFICATION Spec
CONSTANTS
  Start = 10
  End = 74
  Changes <- EachChange
  Timetables <- NotAll
  Days = {1, 2}
  Trips <- SomeTrips
  Ahead = 2
  Polled <- AroundMidnight
  Fragile = {13, 37, 44}
  ByHand = {45, 73}
  MaxFailures = 1
INVARIANTS
  TypeOK
  
  
  WholeWhenCovered
  NoFalseShort
  MissedOnce
  NoPhantom
