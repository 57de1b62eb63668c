---------------------------- MODULE RefreshCycle ----------------------------
(***************************************************************************)
(* What the refresh core promises for each feed, without runs, lanes,      *)
(* leases or time.  A feed is idle, waits for a worker, or is worked on.   *)
(* Work is granted once at a time and every grant is numbered; work either *)
(* concludes, with one result added to the failure count, or is forfeited, *)
(* and then the feed waits again: it is never silently dropped.            *)
(***************************************************************************)
EXTENDS Integers

CONSTANTS Feeds, MaxGrants, FailureCap

VARIABLES
    stage,     \* "idle", "waiting" or "working"
    grants,    \* how often the feed has been granted to a worker
    failures   \* failed results since the last good one

cycleVars == <<stage, grants, failures>>

CycleInit ==
    /\ stage = [f \in Feeds |-> "idle"]
    /\ grants = [f \in Feeds |-> 0]
    /\ failures = [f \in Feeds |-> 0]

Ask(f) ==
    /\ stage[f] = "idle"
    /\ stage' = [stage EXCEPT ![f] = "waiting"]
    /\ UNCHANGED <<grants, failures>>

Grant(f) ==
    /\ stage[f] = "waiting"
    /\ grants[f] < MaxGrants
    /\ stage' = [stage EXCEPT ![f] = "working"]
    /\ grants' = [grants EXCEPT ![f] = @ + 1]
    /\ UNCHANGED failures

Conclude(f) ==
    /\ stage[f] = "working"
    /\ stage' = [stage EXCEPT ![f] = "idle"]
    /\ \E n \in {0, IF failures[f] < FailureCap THEN failures[f] + 1 ELSE FailureCap} :
          failures' = [failures EXCEPT ![f] = n]
    /\ UNCHANGED grants

Forfeit(f) ==
    /\ stage[f] = "working"
    /\ stage' = [stage EXCEPT ![f] = "waiting"]
    /\ UNCHANGED <<grants, failures>>

CycleNext == \E f \in Feeds : Ask(f) \/ Grant(f) \/ Conclude(f) \/ Forfeit(f)

CycleSpec == CycleInit /\ [][CycleNext]_cycleVars
=============================================================================
