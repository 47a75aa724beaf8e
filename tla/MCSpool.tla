------------------------------ MODULE MCSpool ------------------------------
(* Small instances of Spool: two aggregate metrics, one record of each other *)
(* kind that the shedding order tells apart, room for three records.          *)
EXTENDS Spool

Health     == [prio |-> 4, metric |-> NoMetric, size |-> 2, time |-> 1]
Excursion  == [prio |-> 1, metric |-> NoMetric, size |-> 2, time |-> 3]
OldWindow  == [prio |-> 3, metric |-> 2, size |-> 2, time |-> 1]
NewWindow  == [prio |-> 3, metric |-> 2, size |-> 2, time |-> 3]
OtherMetric== [prio |-> 3, metric |-> 1, size |-> 2, time |-> 3]
Bulky      == [prio |-> 0, metric |-> NoMetric, size |-> 4, time |-> 3]

MCItems == {Health, Excursion, OldWindow, NewWindow, OtherMetric, Bulky}
MCHorizons == {2}
=============================================================================
