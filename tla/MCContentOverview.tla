-------------------------- MODULE MCContentOverview --------------------------
(* Model values and bounds for the run of ContentOverview. *)
EXTENDS ContentOverview

CONSTANTS u1, k1, k2, v1, a, b

OneUser == {u1}
TwoKeys == {k1, k2}
OneVersion == {v1}
TwoLanes == {a, b}
Nobody == {}
NoHint == {0}
=============================================================================
