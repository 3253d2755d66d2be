------------------------------- MODULE MCStores -------------------------------
(* The parts of Stores on small instances; Stores.cfg has the values.        *)
EXTENDS Stores, TLC

CONSTANTS p1, p2, p3, h1, h2

\* Two gunicorn workers, or the dashboard and the key daemon or the janitor.
ProcessOf(t) == IF t = "t3" THEN "worker2" ELSE "worker1"

\* Clips of two cameras: 1 is bright and long, 3 of an event that GMN confirms, 4 its partner.
ClipCam(c) == IF c \in {1, 3} THEN "A" ELSE "B"
ClipTime(c) == <<0, 10, 40, 42>>[c]
ClipMag(c) == <<0, 3, 4, 5>>[c]
ClipDur(c) == <<5, 4, 3, 1>>[c]

OneStation(c) == "s"
GridStation(c) == IF c = "b" THEN "b" ELSE "a"
Oneself(x) == x
OneJump == <<"j1">>
ClipSizes == [f \in {"f1", "f2", "f3"} |-> IF f = "f1" THEN 3 ELSE 2]

==============================================================================
