----------------------------- MODULE MCPipeline -----------------------------
(* Instances of Pipeline for TLC.  A tick is half an hour, the first of    *)
(* each hour standing for the ten minutes in which late objects arrive.    *)
(* Raw objects outlive partials, and the collector's records both.         *)
EXTENDS Pipeline

CONSTANTS d1, p1

Taking(feeds, polls) == [f \in Feeds |-> IF f \in feeds THEN polls ELSE {}]
OneTrip    == Taking({"tripupdates"}, {p1})
OneEach    == Taking({"tripupdates", "vehiclepos"}, {p1})

OneHour  == [d \in Days |-> {0}]
TwoHours == [d \in Days |-> {0, 1}]

Life(raws) == [f \in Feeds |-> IF f = "collector_run" THEN 9 ELSE raws]
LongLife  == Life(4)
ShortLife == Life(3)

AllTables == {Tables}
OneTable  == {{"trip_stop"}}
=============================================================================
