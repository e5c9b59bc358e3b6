---------------------------- MODULE MCCollector ----------------------------
(* Instances of Collector, and of Checker over it, for TLC.  Each keeps    *)
(* the code's order of times: every offset is less than Period, and        *)
(* Timeout is twice Period.                                                *)
EXTENDS Checker

VehicleAt(offset) == [offset |-> offset, feed |-> "vehiclepos"]
TripAt(offset)    == [offset |-> offset, feed |-> "tripupdates"]

(* poll_schedule's order: the vehicle polls, then the trip updates.        *)
LoneSchedule    == <<VehicleAt(0)>>
PairSchedule    == <<VehicleAt(0), TripAt(0)>>
SpreadSchedule  == <<VehicleAt(0), VehicleAt(1)>>
CrowdedSchedule == <<VehicleAt(0), VehicleAt(1), TripAt(0)>>
=============================================================================
