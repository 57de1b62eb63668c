--------------------------- MODULE MCFeedRetention ---------------------------
(* Model values and bounds for the runs of FeedRetention. *)
EXTENDS FeedRetention, TLC

CONSTANTS f1, f2, u1, a, b

TwoFeeds == {f1, f2}
FirstFeed == {f1}
OneUser == {u1}
OneLane == {a}
TwoLanes == {a, b}
=============================================================================
