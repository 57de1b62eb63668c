---------------------------- MODULE MCFeedRefresh ----------------------------
(* Model values and bounds for the runs of FeedRefresh. *)
EXTENDS FeedRefresh, TLC

CONSTANTS f1, f2, u1, u2, q1, a, b

OneFeed == {f1}
TwoFeeds == {f1, f2}
OneUser == {u1}
TwoUsers == {u1, u2}
OneRequest == {q1}
TwoLanes == {a, b}
LaneA == {a}
NoFeeds == {}
NoTimes == {}
AnyOutcome == Reported
NotPartial == Reported \ {"PARTIAL"}
OneTime == {2}
OkOrError == {"SUCCESS", "ERROR"}
=============================================================================
