-------------------------- MODULE MCScheduleLoader --------------------------
(* Instances of ScheduleLoader for TLC.                                    *)
EXTENDS ScheduleLoader

CONSTANTS b1, b2, b3

NoneCorrupt == {}
=============================================================================
