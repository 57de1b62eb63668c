---------------------------- MODULE MCContentJobs ----------------------------
(* Model values and bounds for the runs of ContentJobs. *)
EXTENDS ContentJobs, TLC

CONSTANTS u1, u2, k1, k2, v1, v2, a, b

OneUser == {u1}
TwoUsers == {u1, u2}
OneKey == {k1}
TwoKeys == {k1, k2}
OneVersion == {v1}
TwoVersions == {v1, v2}
OneLane == {a}
TwoLanes == {a, b}
SecondUser == {u2}
Nobody == {}
Hint == {0, 2}
NoHint == {0}

\* Nothing tells one lane from another.
LaneSymmetry == Permutations(TwoLanes)
=============================================================================
