-------------------------- MODULE FeedRefreshProofs --------------------------
(***************************************************************************)
(* Theorems about FeedRefresh for every number of feeds, users, lanes and  *)
(* runs and every value of the delays and limits: the runs and their       *)
(* leases, and what the tables say of each other - feeds and their         *)
(* subscribers, the outbox and the runs it reports, the active runs of a   *)
(* user, the retries of lost runs, and the schedule.                       *)
(***************************************************************************)
EXTENDS FeedRefresh, FiniteSetTheorems, TLAPS

-----------------------------------------------------------------------------
(* Typing *)

\* A lane holds what its place in the loop needs.
LaneOK ==
    \A l \in Lanes :
        /\ InAttempt(l) => claim[l] # NULL
        /\ pc[l] \in {"fetch", "commit"} => ctx[l] # NULL
        /\ pc[l] = "commit" => job[l] # NULL

RunTable == [RunIds -> Run \cup {NoRun(s) : s \in Gone}]

Lease == [owner : Lanes \cup {NULL}, token : 0 .. MaxLeaseToken, until : Instant]

\* A queued or running run is a row, not a gap.
LEMMA ActiveIsRun ==
    ASSUME run \in RunTable, NEW r \in RunIds, run[r].status \in Active
    PROVE  run[r] \in Run
BY DEF RunTable, Active, Gone, NoRun

\* The new row of an insertion is well formed.
LEMMA QueuedIsRun ==
    ASSUME now \in Nat, NEW f \in Feeds, NEW t \in Triggers, NEW k \in Keys,
           NEW u \in Users \cup {NULL}
    PROVE  Queued(f, t, k, u) \in Run
BY DEF Queued, Run, Active, Instant

\* Inserting a run keeps the type of the table.
LEMMA InsertKeepsTable ==
    ASSUME run \in RunTable, now \in Nat, NEW f \in Feeds, NEW t \in Triggers, NEW k \in Keys,
           NEW u \in Users \cup {NULL}, NEW r \in RunIds, InsertRun(r, f, t, k, u)
    PROVE  run' \in RunTable
BY QueuedIsRun DEF InsertRun, RunTable

\* Ending an active run keeps the type of the table.
LEMMA EndKeepsTable ==
    ASSUME run \in RunTable, now \in Nat, NEW r \in RunIds, run[r].status \in Active,
           NEW s \in Terminal
    PROVE  EndRun(r, s) \in RunTable
<1>1. run[r] \in Run
  BY ActiveIsRun
<1>2. [run[r] EXCEPT !.status = s, !.done = now] \in Run
  BY <1>1 DEF Run, Instant
<1>3. EndRun(r, s) = [run EXCEPT ![r] = [run[r] EXCEPT !.status = s, !.done = now]]
  BY DEF EndRun, RunTable
<1> QED
  BY <1>2, <1>3 DEF RunTable

\* Deleting runs keeps the type of the table.
LEMMA PurgeKeepsTable ==
    ASSUME run \in RunTable, NEW S
    PROVE  [r \in RunIds |-> IF r \in S THEN NoRun("PURGED") ELSE run[r]] \in RunTable
BY DEF RunTable, Gone

\* Recovery inserts at most the retry.
LEMMA RequeueKeepsTable ==
    ASSUME run \in RunTable, now \in Nat, NEW r \in RunIds, run[r].status = "RUNNING",
           Requeue(r, EndRun(r, "LEASE_LOST"))
    PROVE  run' \in RunTable
<1>1. run[r] \in Run
  BY ActiveIsRun DEF Active
<1>2. EndRun(r, "LEASE_LOST") \in RunTable
  BY EndKeepsTable DEF Active, Terminal
<1>3. Queued(run[r].feed, "RETRY", <<"r1", r>>, run[r].user) \in Run
  <2>1. run[r].feed \in Feeds /\ run[r].user \in Users \cup {NULL}
    BY <1>1 DEF Run
  <2>2. "RETRY" \in Triggers /\ <<"r1", r>> \in Keys
    BY DEF Triggers, Keys
  <2> QED
    BY <2>1, <2>2, QueuedIsRun
<1> QED
  BY <1>2, <1>3 DEF Requeue, RunTable

TypeInv == TypeOK /\ LaneOK

\* The empty database and idle lanes are well typed.
THEOREM TypeInit == Init => TypeInv
BY CoreAssumption DEF Init, TypeInv, TypeOK, LaneOK, InAttempt, Instant, NoRun, Gone

\* What an ended attempt leaves in the lane's variables.
LEMMA EndAttemptType ==
    ASSUME TypeInv, NEW l \in Lanes, EndAttempt(l)
    PROVE  /\ pc' \in [Lanes -> {"top", "recover", "enqueue", "purge", "claim", "load", "fetch", "commit"}]
           /\ todo' \in [Lanes -> SUBSET (Nat \X Feeds)]
           /\ claim' \in [Lanes -> Claims \cup {NULL}]
           /\ ctx' \in [Lanes -> Nat \cup {NULL}]
           /\ job' \in [Lanes -> Jobs \cup {NULL}]
           /\ LaneOK'
BY DEF TypeInv, TypeOK, LaneOK, InAttempt, EndAttempt, Goto

-----------------------------------------------------------------------------
(* One lemma per group of actions: each action keeps the typing. *)

\* Requests of users keep the typing.
LEMMA UserType ==
    ASSUME TypeInv, NEW u \in Users, NEW f \in Feeds,
           Subscribe(u, f) \/ Unsubscribe(u, f) \/ \E q \in Requests : QueueSubscriptionRefresh(u, f, q)
    PROVE  TypeInv'
<1> USE DEF TypeInv, LaneOK, InAttempt, laneVars
<1>1. CASE Subscribe(u, f)
  <2>1. run' \in RunTable
    <3>1. CASE UNCHANGED run
      BY <3>1 DEF TypeOK, RunTable
    <3>2. ASSUME NEW r \in RunIds, InsertRun(r, f, "SUBSCRIBE", <<"subscribe", r>>, u)
          PROVE  run' \in RunTable
      BY <3>2, InsertKeepsTable DEF TypeOK, RunTable, Triggers, Keys
    <3> QED
      BY <1>1, <3>1, <3>2 DEF Subscribe, SubscribeRefresh
  <2>2. sched' \in [Feeds -> [next : Nat, failures : Nat, retry : Instant,
                             attempt : Instant, succeeded : BOOLEAN]]
    <3> DEFINE Rec == [next : Nat, failures : Nat, retry : Instant,
                       attempt : Instant, succeeded : BOOLEAN]
    <3>1. sched \in [Feeds -> Rec] /\ now \in Nat
      BY DEF TypeOK
    <3>2. [sched[f] EXCEPT !.next = now] \in Rec
      BY <3>1
    <3>3. sched' = sched \/ sched' = [sched EXCEPT ![f] = [sched[f] EXCEPT !.next = now]]
      BY <1>1 DEF Subscribe
    <3> QED
      BY <3>1, <3>2, <3>3
  <2>3. /\ row' \in [Feeds -> {"ABSENT", "LIVE", "PURGED"}]
        /\ orphaned' \in [Feeds -> Instant]
        /\ subs' \in [Feeds -> SUBSET Users]
    BY <1>1 DEF Subscribe, TypeOK, Instant
  <2>4. UNCHANGED <<now, disabled, lease, outbox, laneVars>>
    BY <1>1 DEF Subscribe
  <2> QED
    BY <2>1, <2>2, <2>3, <2>4 DEF TypeOK, RunTable
<1>2. CASE Unsubscribe(u, f)
  BY <1>2 DEF Unsubscribe, TypeOK, Instant
<1>3. ASSUME NEW q \in Requests, QueueSubscriptionRefresh(u, f, q)
      PROVE  TypeInv'
  <2>1. PICK r \in RunIds : InsertRun(r, f, "MANUAL", <<"m1", u, q>>, u)
    BY <1>3 DEF QueueSubscriptionRefresh
  <2>2. run' \in RunTable
    BY <2>1, InsertKeepsTable DEF TypeOK, RunTable, Triggers, Keys
  <2> QED
    BY <1>3, <2>2 DEF QueueSubscriptionRefresh, TypeOK, RunTable
<1> QED
  BY <1>1, <1>2, <1>3

\* Recovery, scheduling and retention keep the typing.
LEMMA MaintainType ==
    ASSUME TypeInv, NEW l \in Lanes, Maintain(l)
    PROVE  TypeInv'
<1> USE DEF TypeInv, LaneOK, InAttempt, tables, laneVars
<1>1. CASE ScanExpired(l)
  <2>1. {<<r, run[r].feed>> : r \in Expired} \in SUBSET (Nat \X Feeds)
    <3>1. ASSUME NEW r \in Expired PROVE run[r].feed \in Feeds /\ r \in Nat
      BY ActiveIsRun, CoreAssumption, SMTT(20) DEF Expired, TypeOK, RunTable, Active, Run, RunIds
    <3> QED
      BY <3>1
  <2> QED
    BY <1>1, <2>1 DEF ScanExpired, Goto, TypeOK
<1>2. CASE ScanDue(l)
  <2>1. {<<sched[f].next, f>> : f \in {g \in Feeds : Due(g)}} \in SUBSET (Nat \X Feeds)
    BY DEF TypeOK
  <2> QED
    BY <1>2, <2>1 DEF ScanDue, Goto, TypeOK
<1>3. CASE ScanOrphans(l)
  <2>1. {<<now, f>> : f \in {g \in Feeds : OldOrphan(g, now)}} \in SUBSET (Nat \X Feeds)
    BY DEF TypeOK
  <2> QED
    BY <1>3, <2>1 DEF ScanOrphans, Goto, TypeOK
<1>4. CASE PurgeHistory(l)
  <2>1. run' \in RunTable
    BY <1>4, PurgeKeepsTable DEF PurgeHistory, TypeOK, RunTable
  <2>2. outbox' \subseteq outbox
    BY <1>4 DEF PurgeHistory
  <2> QED
    BY <1>4, <2>1, <2>2 DEF PurgeHistory, TypeOK, RunTable
<1>5. CASE PurgeEvents(l)
  BY <1>5 DEF PurgeEvents, TypeOK
<1>6. ASSUME NEW f \in Feeds, NEW r \in RunIds, RecoverRun(l, r, f)
      PROVE  TypeInv'
  <2>1. run' \in RunTable
    <3>1. CASE row[f] = "LIVE" /\ run[r].feed = f /\ r \in Expired
      BY <1>6, <3>1, RequeueKeepsTable DEF RecoverRun, Expired, TypeOK, RunTable
    <3>2. CASE ~(row[f] = "LIVE" /\ run[r].feed = f /\ r \in Expired)
      BY <1>6, <3>2 DEF RecoverRun, TypeOK, RunTable
    <3> QED
      BY <3>1, <3>2
  <2> QED
    BY <1>6, <2>1 DEF RecoverRun, TypeOK, RunTable
<1>7. ASSUME NEW f \in Feeds, NEW t \in 0 .. now, EnqueueRun(l, t, f)
      PROVE  TypeInv'
  <2>1. run' \in RunTable
    <3>1. ASSUME NEW r \in RunIds, InsertRun(r, f, "SCHEDULED", <<"s1", t>>, NULL)
          PROVE  run' \in RunTable
      <4>1. "SCHEDULED" \in Triggers /\ <<"s1", t>> \in Keys
        BY DEF Triggers, Keys, TypeOK
      <4> QED
        BY <3>1, <4>1, InsertKeepsTable DEF TypeOK, RunTable
    <3>2. CASE UNCHANGED run
      BY <3>2 DEF TypeOK, RunTable
    <3> QED
      BY <1>7, <3>1, <3>2 DEF EnqueueRun
  <2> QED
    BY <1>7, <2>1 DEF EnqueueRun, TypeOK, RunTable
<1>8. ASSUME NEW f \in Feeds, NEW t \in 0 .. now, PurgeFeed(l, t, f)
      PROVE  TypeInv'
  <2>1. run' \in RunTable
    <3> DEFINE S == {r \in RunIds : Exists(r) /\ run[r].feed = f}
    <3>1. CASE Purgeable(f, t)
      <4>1. run' = [r \in RunIds |-> IF r \in S THEN NoRun("PURGED") ELSE run[r]]
        BY <1>8, <3>1 DEF PurgeFeed
      <4> QED
        BY <4>1, PurgeKeepsTable DEF TypeOK, RunTable
    <3>2. CASE ~Purgeable(f, t)
      BY <1>8, <3>2 DEF PurgeFeed, TypeOK, RunTable
    <3> QED
      BY <3>1, <3>2
  <2> QED
    BY <1>8, <2>1 DEF PurgeFeed, TypeOK, RunTable
<1> QED
  BY <1>1, <1>2, <1>3, <1>4, <1>5, <1>6, <1>7, <1>8 DEF Maintain

\* What schedule.rs computes from a result is a schedule.
LEMMA ScheduleType ==
    ASSUME now \in Nat, NEW s \in Reported, NEW n \in Nat, NEW j \in Schedule(s, n)
    PROVE  j \in Jobs
<1>1. CASE s = "ERROR"
  <2> DEFINE m == MinOf(n + 1, FailureCap)
  <2>1. m \in Nat /\ m >= 1
    BY CoreAssumption DEF MinOf
  <2>2. Backoff(m) \in Nat
    <3>1. CASE m >= 7
      BY <3>1, CoreAssumption DEF Backoff
    <3>2. CASE m \in 1 .. 6
      <4>1. Doublings[m] \in Nat
        BY <3>2 DEF Doublings
      <4>2. BaseBackoff \in Nat
        BY CoreAssumption
      <4>3. BaseBackoff * Doublings[m] \in Nat
        BY <4>1, <4>2
      <4>4. ~(m >= 7)
        BY <3>2
      <4> QED
        BY <4>3, <4>4 DEF Backoff
    <3> QED
      BY <2>1, <3>1, <3>2
  <2>3. PICK jitter \in MinJitter .. Backoff(m), at \in RetryAfterTimes \cup {NULL} :
           j = [status |-> s, failures |-> m, retry |-> at,
                next |-> now + MinOf(MaxOf(jitter, IF at = NULL \/ at < now THEN 0 ELSE at - now),
                                     MaxDelay)]
    BY <1>1 DEF Schedule
  <2>4. jitter \in Nat /\ MaxDelay \in Nat
    BY <2>2, <2>3, CoreAssumption
  <2>5. (IF at = NULL \/ at < now THEN 0 ELSE at - now) \in Nat
    BY <2>3, CoreAssumption
  <2>6. j.next \in Nat
    BY <2>3, <2>4, <2>5 DEF MinOf, MaxOf
  <2>7. at \in Instant
    BY <2>3, CoreAssumption DEF Instant
  <2> QED
    BY <2>1, <2>3, <2>6, <2>7 DEF Jobs
<1>2. CASE s # "ERROR"
  BY <1>2, CoreAssumption DEF Schedule, Jobs, Instant
<1> QED
  BY <1>1, <1>2

\* A commit keeps the typing.
LEMMA FinishType ==
    ASSUME TypeInv, NEW l \in Lanes, pc[l] = "commit",
           NEW events \in SUBSET {"persisted", "completed"}, Finish(l, events)
    PROVE  TypeInv'
<1> DEFINE c == claim[l]
           j == job[l]
<1>1. c \in Claims /\ j \in Jobs /\ Holds(l)
  BY DEF TypeInv, TypeOK, LaneOK, InAttempt, Finish
<1>2. c.feed \in Feeds /\ c.run \in RunIds /\ run[c.run].status = "RUNNING"
  BY <1>1 DEF Claims, Holds
<1>3. j.status \in Reported /\ j.next \in Nat /\ j.failures \in Nat /\ j.retry \in Instant
  BY <1>1 DEF Jobs
<1>4. run' \in RunTable
  BY <1>2, <1>3, EndKeepsTable DEF Finish, TypeInv, TypeOK, RunTable, Active, Terminal
<1>5. lease' \in [Feeds -> Lease]
  <2>1. lease \in [Feeds -> Lease]
    BY DEF TypeInv, TypeOK, Lease
  <2>2. [lease[c.feed] EXCEPT !.owner = NULL, !.until = NULL] \in Lease
    BY <2>1, <1>2 DEF Instant, Lease
  <2>3. lease' = [lease EXCEPT ![c.feed] = [lease[c.feed] EXCEPT !.owner = NULL, !.until = NULL]]
    BY DEF Finish
  <2> QED
    BY <2>1, <2>2, <2>3
<1>6. sched' \in [Feeds -> [next : Nat, failures : Nat, retry : Instant,
                           attempt : Instant, succeeded : BOOLEAN]]
  <2> DEFINE new == [next |-> j.next, failures |-> j.failures, retry |-> j.retry, attempt |-> now,
                     succeeded |-> sched[c.feed].succeeded \/ j.status # "ERROR"]
  <2>1. sched' = [sched EXCEPT ![c.feed] = new]
    BY DEF Finish
  <2>2. now \in Instant
    BY DEF TypeInv, TypeOK, Instant
  <2> QED
    BY <2>1, <2>2, <1>2, <1>3 DEF TypeInv, TypeOK
<1>7. outbox' \in SUBSET (RunIds \X {"persisted", "completed"} \X Nat)
  BY <1>2 DEF Finish, TypeInv, TypeOK
<1>8. EndAttempt(l) /\ UNCHANGED <<now, row, disabled, orphaned, subs>>
  BY DEF Finish
<1> QED
  BY <1>4, <1>5, <1>6, <1>7, <1>8, EndAttemptType DEF TypeInv, TypeOK, RunTable, Lease

\* The steps of a claim and its attempt keep the typing.
LEMMA WorkType ==
    ASSUME TypeInv, NEW l \in Lanes, Work(l)
    PROVE  TypeInv'
<1> USE DEF tables, laneVars
<1>1. CASE FindWork(l)
  <2>1. ASSUME NEW r \in RunIds, Claimable(r)
        PROVE  {<<r, run[r].feed>>} \in SUBSET (Nat \X Feeds)
    <3>1. run[r] \in Run
      BY <2>1, ActiveIsRun DEF Claimable, TypeInv, TypeOK, RunTable, Active
    <3>2. run[r].feed \in Feeds /\ r \in Nat
      BY <3>1, CoreAssumption DEF Run, RunIds
    <3> QED
      BY <3>2
  <2>2. \/ Goto(l, "top", {})
        \/ \E r \in RunIds : Claimable(r) /\ Goto(l, "claim", {<<r, run[r].feed>>})
    BY <1>1 DEF FindWork, Oldest
  <2>3. /\ pc' \in [Lanes -> {"top", "recover", "enqueue", "purge", "claim", "load", "fetch", "commit"}]
        /\ todo' \in [Lanes -> SUBSET (Nat \X Feeds)]
        /\ \A k \in Lanes : pc'[k] \in {"load", "fetch", "commit"} => pc'[k] = pc[k]
    <3>1. CASE Goto(l, "top", {})
      BY <3>1 DEF Goto, TypeInv, TypeOK
    <3>2. ASSUME NEW r \in RunIds, Claimable(r), Goto(l, "claim", {<<r, run[r].feed>>})
          PROVE  /\ pc' = [pc EXCEPT ![l] = "claim"]
                 /\ todo' = [todo EXCEPT ![l] = {<<r, run[r].feed>>}]
                 /\ {<<r, run[r].feed>>} \in SUBSET (Nat \X Feeds)
      BY <2>1, <3>2 DEF Goto
    <3>3. CASE \E r \in RunIds : Claimable(r) /\ Goto(l, "claim", {<<r, run[r].feed>>})
      <4>1. PICK S \in SUBSET (Nat \X Feeds) :
               pc' = [pc EXCEPT ![l] = "claim"] /\ todo' = [todo EXCEPT ![l] = S]
        BY <3>2, <3>3
      <4> QED
        BY <4>1 DEF TypeInv, TypeOK
    <3> QED
      BY <2>2, <3>1, <3>3
  <2> QED
    BY <1>1, <2>3 DEF FindWork, TypeInv, TypeOK, LaneOK, InAttempt
<1>2. ASSUME NEW r \in RunIds, NEW f \in Feeds, ClaimRun(l, r, f)
      PROVE  TypeInv'
  <2>1. CASE row[f] = "LIVE" /\ run[r].feed = f /\ Claimable(r) /\ TokensLeft(f)
    <3> DEFINE token == lease[f].token + 1
    <3>1. token \in 0 .. MaxLeaseToken /\ now + LeaseDuration \in Nat /\ token \in Nat
      BY <2>1, CoreAssumption DEF TokensLeft, TypeInv, TypeOK
    <3>2. lease' \in [Feeds -> Lease]
      <4> DEFINE new == [owner |-> l, token |-> token, until |-> now + LeaseDuration]
      <4>1. lease' = [lease EXCEPT ![f] = new]
        BY <1>2, <2>1 DEF ClaimRun
      <4>2. new \in Lease
        BY <3>1 DEF Lease, Instant
      <4>3. lease \in [Feeds -> Lease]
        BY DEF TypeInv, TypeOK, Lease
      <4> HIDE DEF new
      <4> QED
        BY <4>1, <4>2, <4>3
    <3>3. run' \in RunTable
      <4>1. run[r] \in Run
        BY <2>1, ActiveIsRun DEF Claimable, TypeInv, TypeOK, RunTable, Active
      <4>2. [run[r] EXCEPT !.status = "RUNNING", !.token = token] \in Run
        BY <4>1, <3>1 DEF Run, Active
      <4>3. run' = [run EXCEPT ![r] = [run[r] EXCEPT !.status = "RUNNING", !.token = token]]
        BY <1>2, <2>1 DEF ClaimRun, TypeInv, TypeOK
      <4> QED
        BY <4>2, <4>3 DEF TypeInv, TypeOK, RunTable
    <3>4. claim' = [claim EXCEPT ![l] = [run |-> r, feed |-> f, token |-> token]]
      BY <1>2, <2>1 DEF ClaimRun
    <3>5. [run |-> r, feed |-> f, token |-> token] \in Claims
      BY <3>1 DEF Claims
    <3>6. Goto(l, "load", {})
      BY <1>2, <2>1 DEF ClaimRun
    <3>7. [run |-> r, feed |-> f, token |-> token] # NULL
      BY <3>5, NullAssumption
    <3> QED
      BY <1>2, <3>2, <3>3, <3>4, <3>5, <3>6, <3>7
         DEF ClaimRun, Goto, TypeInv, TypeOK, LaneOK, InAttempt, RunTable, Lease
  <2>2. CASE ~(row[f] = "LIVE" /\ run[r].feed = f /\ Claimable(r) /\ TokensLeft(f))
    BY <1>2, <2>2 DEF ClaimRun, Goto, TypeInv, TypeOK, LaneOK, InAttempt
  <2> QED
    BY <2>1, <2>2
<1>3. CASE LoadContext(l)
  <2>1. claim[l] \in Claims
    BY <1>3 DEF LoadContext, TypeInv, TypeOK, LaneOK, InAttempt
  <2>2. CASE EndAttempt(l) /\ UNCHANGED <<now, tables>>
    BY <2>2, EndAttemptType DEF TypeInv, TypeOK
  <2>3. CASE /\ ctx' = [ctx EXCEPT ![l] = sched[claim[l].feed].failures]
             /\ Goto(l, "fetch", {})
             /\ UNCHANGED <<now, tables, claim, job>>
    <3>1. sched[claim[l].feed].failures \in Nat
      BY <2>1 DEF Claims, TypeInv, TypeOK
    <3>2. sched[claim[l].feed].failures # NULL /\ pc[l] = "load"
      BY <1>3, <3>1, CoreAssumption DEF LoadContext
    <3> QED
      BY <2>3, <3>1, <3>2 DEF Goto, TypeInv, TypeOK, LaneOK, InAttempt
  <2> QED
    BY <1>3, <2>2, <2>3 DEF LoadContext
<1>4. ASSUME NEW s \in Outcomes, FetchDone(l, s)
      PROVE  TypeInv'
  <2>1. pc[l] = "fetch" /\ ctx[l] \in Nat /\ s \in Reported /\ now \in Nat
    BY <1>4, CoreAssumption DEF FetchDone, TypeInv, TypeOK, LaneOK, InAttempt, Reported
  <2>2. PICK j \in Schedule(s, ctx[l]) : job' = [job EXCEPT ![l] = j]
    BY <1>4 DEF FetchDone
  <2>3. j \in Jobs /\ j # NULL
    BY <2>1, <2>2, ScheduleType, NullAssumption
  <2> QED
    BY <1>4, <2>1, <2>2, <2>3 DEF FetchDone, Goto, TypeInv, TypeOK, LaneOK, InAttempt
<1>5. CASE PersistFeed(l) \/ CompleteNotModified(l) \/ CompleteFailure(l)
  BY <1>5, FinishType DEF PersistFeed, CompleteNotModified, CompleteFailure
<1>6. CASE CommitRefused(l)
  BY <1>6, EndAttemptType DEF CommitRefused, TypeInv, TypeOK
<1> QED
  BY <1>1, <1>2, <1>3, <1>4, <1>5, <1>6 DEF Work

\* A heartbeat keeps the typing.
LEMMA ExtendType ==
    ASSUME TypeInv, NEW l \in Lanes, ExtendLease(l)
    PROVE  TypeInv'
<1> DEFINE f == claim[l].feed
<1>1. f \in Feeds
  BY DEF ExtendLease, TypeInv, TypeOK, LaneOK, Claims
<1>2. now + LeaseDuration \in Instant
  BY CoreAssumption DEF Instant, TypeInv, TypeOK
<1>3. lease' = [lease EXCEPT ![f] = [lease[f] EXCEPT !.until = now + LeaseDuration]]
  BY DEF ExtendLease
<1>4. lease' \in [Feeds -> Lease]
  <2>1. lease \in [Feeds -> Lease]
    BY DEF TypeInv, TypeOK, Lease
  <2>2. [lease[f] EXCEPT !.until = now + LeaseDuration] \in Lease
    BY <2>1, <1>1, <1>2 DEF Lease
  <2> QED
    BY <2>1, <2>2, <1>3
<1> QED
  BY <1>4 DEF Lease, ExtendLease, TypeInv, TypeOK, LaneOK, InAttempt, laneVars

\* Every step keeps the typing.
THEOREM TypeStep == TypeInv /\ [Next]_vars => TypeInv'
<1> SUFFICES ASSUME TypeInv, [Next]_vars
             PROVE  TypeInv'
  OBVIOUS
<1> USE DEF tables, laneVars
<1>1. CASE User
  BY <1>1, UserType DEF User
<1>2. CASE Operator
  BY <1>2 DEF Operator, SetDisabled, TypeInv, TypeOK, LaneOK, InAttempt
<1>3. ASSUME NEW l \in Lanes, Maintain(l) \/ Work(l)
      PROVE  TypeInv'
  BY <1>3, MaintainType, WorkType
<1>4. ASSUME NEW l \in Lanes, ExtendLease(l)
      PROVE  TypeInv'
  BY <1>4, ExtendType
<1>5. ASSUME NEW l \in Lanes, HeartbeatRefused(l) \/ Drop(l)
      PROVE  TypeInv'
  <2>1. EndAttempt(l) /\ UNCHANGED <<now, tables>>
    BY <1>5 DEF HeartbeatRefused, Drop
  <2> QED
    BY <2>1, EndAttemptType DEF TypeInv, TypeOK
<1>6. CASE Tick
  BY <1>6 DEF Tick, TypeInv, TypeOK, LaneOK, InAttempt
<1>7. CASE UNCHANGED vars
  BY <1>7 DEF vars, TypeInv, TypeOK, LaneOK, InAttempt
<1> QED
  BY <1>1, <1>2, <1>3, <1>4, <1>5, <1>6, <1>7 DEF Next

\* The type invariant of the runs holds for every instance.
THEOREM TypeCorrect == Spec => []TypeOK
<1>1. TypeInv => TypeOK
  BY DEF TypeInv
<1> QED
  BY <1>1, TypeInit, TypeStep, PTL DEF Spec

-----------------------------------------------------------------------------
(* What a step can do to the runs and their leases.  The theorems below    *)
(* look at these seven kinds of step, not at the handlers behind them.     *)

\* A feed that exists keeps its schedule; no failure is counted or forgotten.
Quiet ==
    \A f \in Feeds :
        /\ sched'[f].failures = sched[f].failures
        /\ row[f] = "LIVE" => sched'[f] = sched[f]

Stillness == UNCHANGED <<run, lease>> /\ Quiet

Insertion ==
    /\ UNCHANGED lease /\ Quiet
    /\ \E r \in RunIds, f \in Feeds, t \in Triggers, k \in Keys, u \in Users \cup {NULL} :
          /\ ActiveRuns(f) = {}
          /\ t # "RETRY" /\ k[1] # "r1"
          /\ k[1] = "s1" => k[2] = sched[f].next /\ k[2] <= now
          /\ u # NULL => Cardinality(ActiveRunsOf(u)) < MaxActivePerUser
          /\ row'[f] = "LIVE" \/ (row' = row /\ subs[f] # {})
          /\ InsertRun(r, f, t, k, u)

Loss ==
    /\ UNCHANGED <<lease, sched>>
    /\ \E r \in RunIds : run[r].status = "RUNNING" /\ Requeue(r, EndRun(r, "LEASE_LOST"))

Granting ==
    /\ UNCHANGED sched
    /\ \E l \in Lanes, r \in RunIds :
          LET f == run[r].feed
              token == lease[f].token + 1
          IN  /\ run[r].status = "QUEUED" /\ TokensLeft(f)
              /\ lease' = [lease EXCEPT ![f] = [owner |-> l, token |-> token,
                                                until |-> now + LeaseDuration]]
              /\ run' = [run EXCEPT ![r] = [run[r] EXCEPT !.status = "RUNNING", !.token = token]]
              /\ claim' = [claim EXCEPT ![l] = [run |-> r, feed |-> f, token |-> token]]

Commit ==
    \E l \in Lanes, events \in SUBSET {"persisted", "completed"} :
        /\ pc[l] = "commit" /\ Finish(l, events)
        /\ "completed" \in events
        /\ "persisted" \in events <=> job[l].status \in {"SUCCESS", "PARTIAL"}

Extension ==
    /\ UNCHANGED <<run, sched>>
    /\ \E l \in Lanes : InAttempt(l) /\ ExtendLease(l)

Purging ==
    /\ UNCHANGED <<lease, sched>>
    /\ \E S \in SUBSET RunIds :
          /\ \A r \in S : run[r].status \in Terminal
          /\ run' = [r \in RunIds |-> IF r \in S THEN NoRun("PURGED") ELSE run[r]]

Kinds == Stillness \/ Insertion \/ Loss \/ Granting \/ Commit \/ Extension \/ Purging

\* A request inserts a run or leaves runs, leases and schedules alone.
LEMMA UserKind ==
    ASSUME TypeInv, NEW u \in Users, NEW f \in Feeds,
           Subscribe(u, f) \/ Unsubscribe(u, f) \/ \E q \in Requests : QueueSubscriptionRefresh(u, f, q)
    PROVE  Stillness \/ Insertion
<1>1. CASE Subscribe(u, f)
  <2>1. Quiet
    <3>1. sched \in [Feeds -> [next : Nat, failures : Nat, retry : Instant,
                               attempt : Instant, succeeded : BOOLEAN]]
      BY DEF TypeInv, TypeOK
    <3>2. sched' = IF row[f] = "ABSENT" THEN [sched EXCEPT ![f] = [sched[f] EXCEPT !.next = now]]
                                        ELSE sched
      BY <1>1 DEF Subscribe
    <3> QED
      BY <3>1, <3>2 DEF Quiet
  <2>2. UNCHANGED lease
    BY <1>1 DEF Subscribe
  <2>3. CASE UNCHANGED run
    BY <2>1, <2>2, <2>3 DEF Stillness
  <2>4. ASSUME NEW r \in RunIds, ActiveRuns(f) = {}, InsertRun(r, f, "SUBSCRIBE", <<"subscribe", r>>, u),
               Cardinality(ActiveRunsOf(u)) < MaxActivePerUser
        PROVE  Insertion
    <3>1. "SUBSCRIBE" \in Triggers \ {"RETRY"} /\ <<"subscribe", r>> \in Keys
      BY DEF Triggers, Keys
    <3>2. row'[f] = "LIVE"
      BY <1>1 DEF Subscribe, TypeInv, TypeOK
    <3> QED
      BY <2>1, <2>2, <2>4, <3>1, <3>2 DEF Insertion
  <2> QED
    BY <1>1, <2>3, <2>4 DEF Subscribe, SubscribeRefresh
<1>2. CASE Unsubscribe(u, f)
  BY <1>2 DEF Unsubscribe, Stillness, Quiet
<1>3. ASSUME NEW q \in Requests, QueueSubscriptionRefresh(u, f, q)
      PROVE  Insertion
  <2>1. PICK r \in RunIds : InsertRun(r, f, "MANUAL", <<"m1", u, q>>, u)
    BY <1>3 DEF QueueSubscriptionRefresh
  <2>2. "MANUAL" \in Triggers \ {"RETRY"} /\ <<"m1", u, q>> \in Keys
    BY DEF Triggers, Keys
  <2>3. /\ UNCHANGED <<lease, row>> /\ Quiet /\ subs[f] # {}
        /\ ActiveRuns(f) = {} /\ Cardinality(ActiveRunsOf(u)) < MaxActivePerUser
    BY <1>3 DEF QueueSubscriptionRefresh, Quiet
  <2> QED
    BY <2>1, <2>2, <2>3 DEF Insertion
<1> QED
  BY <1>1, <1>2, <1>3

\* Maintenance is one of the kinds of step.
LEMMA MaintainKind ==
    ASSUME TypeInv, NEW l \in Lanes, Maintain(l)
    PROVE  Kinds
<1> USE DEF tables, Kinds
<1>1. CASE ScanExpired(l) \/ ScanDue(l) \/ ScanOrphans(l) \/ PurgeEvents(l)
  BY <1>1 DEF ScanExpired, ScanDue, ScanOrphans, PurgeEvents, Stillness, Quiet
<1>2. CASE PurgeHistory(l)
  <2> DEFINE S == {r \in RunIds : /\ run[r].status \in Terminal
                                  /\ run[r].queued + HistoryAge < now
                                  /\ run[r].done + HistoryAge < now}
  <2>1. run' = [r \in RunIds |-> IF r \in S THEN NoRun("PURGED") ELSE run[r]]
    BY <1>2 DEF PurgeHistory
  <2>2. S \in SUBSET RunIds /\ \A r \in S : run[r].status \in Terminal
    OBVIOUS
  <2>3. UNCHANGED <<lease, sched>>
    BY <1>2 DEF PurgeHistory
  <2> QED
    BY <2>1, <2>2, <2>3 DEF Purging
<1>3. ASSUME NEW f \in Feeds, NEW r \in RunIds, RecoverRun(l, r, f)
      PROVE  Kinds
  <2>1. UNCHANGED <<lease, sched>>
    BY <1>3 DEF RecoverRun
  <2>2. CASE UNCHANGED run
    BY <2>1, <2>2 DEF Stillness, Quiet
  <2>3. CASE r \in Expired /\ Requeue(r, EndRun(r, "LEASE_LOST"))
    BY <2>1, <2>3 DEF Loss, Expired
  <2> QED
    BY <1>3, <2>2, <2>3 DEF RecoverRun
<1>4. ASSUME NEW f \in Feeds, NEW t \in 0 .. now, EnqueueRun(l, t, f)
      PROVE  Kinds
  <2>1. UNCHANGED <<lease, sched>>
    BY <1>4 DEF EnqueueRun
  <2>2. CASE UNCHANGED run
    BY <2>1, <2>2 DEF Stillness, Quiet
  <2>3. ASSUME NEW r \in RunIds, ActiveRuns(f) = {}, sched[f].next = t, Due(f),
               InsertRun(r, f, "SCHEDULED", <<"s1", t>>, NULL)
        PROVE  Insertion
    <3>1. "SCHEDULED" \in Triggers \ {"RETRY"} /\ <<"s1", t>> \in Keys
      BY DEF Triggers, Keys, TypeInv, TypeOK
    <3>2. Quiet /\ t <= now
      BY <2>1 DEF Quiet, TypeInv, TypeOK
    <3>3. row' = row /\ subs[f] # {}
      BY <1>4, <2>3 DEF EnqueueRun, Due
    <3> QED
      BY <2>1, <2>3, <3>1, <3>2, <3>3 DEF Insertion
  <2> QED
    BY <1>4, <2>2, <2>3 DEF EnqueueRun
<1>5. ASSUME NEW f \in Feeds, NEW t \in 0 .. now, PurgeFeed(l, t, f)
      PROVE  Kinds
  <2>1. UNCHANGED <<lease, sched>>
    BY <1>5 DEF PurgeFeed
  <2>2. CASE ~Purgeable(f, t)
    BY <1>5, <2>1, <2>2 DEF PurgeFeed, Stillness, Quiet
  <2>3. CASE Purgeable(f, t)
    <3> DEFINE S == {r \in RunIds : Exists(r) /\ run[r].feed = f}
    <3>1. run' = [r \in RunIds |-> IF r \in S THEN NoRun("PURGED") ELSE run[r]]
      BY <1>5, <2>3 DEF PurgeFeed
    <3>2. ASSUME NEW r \in S PROVE run[r].status \in Terminal
      BY <2>3, <3>2 DEF Purgeable, ActiveRuns, Exists, TypeInv, TypeOK, Run, NoRun, Gone
    <3> QED
      BY <2>1, <3>1, <3>2 DEF Purging
  <2> QED
    BY <2>2, <2>3
<1> QED
  BY <1>1, <1>2, <1>3, <1>4, <1>5 DEF Maintain

\* The work of a lane is one of the kinds of step.
LEMMA WorkKind ==
    ASSUME TypeInv, NEW l \in Lanes, Work(l)
    PROVE  Kinds
<1> USE DEF tables, Kinds
<1>1. CASE FindWork(l) \/ LoadContext(l) \/ CommitRefused(l)
  BY <1>1 DEF FindWork, LoadContext, CommitRefused, Stillness, Quiet
<1>2. ASSUME NEW s \in Outcomes, FetchDone(l, s)
      PROVE  Kinds
  BY <1>2 DEF FetchDone, Stillness, Quiet
<1>3. ASSUME NEW r \in RunIds, NEW f \in Feeds, ClaimRun(l, r, f)
      PROVE  Kinds
  <2>1. UNCHANGED sched
    BY <1>3 DEF ClaimRun
  <2>2. CASE row[f] = "LIVE" /\ run[r].feed = f /\ Claimable(r) /\ TokensLeft(f)
    <3> DEFINE token == lease[f].token + 1
    <3>1. /\ lease' = [lease EXCEPT ![f] = [owner |-> l, token |-> token,
                                            until |-> now + LeaseDuration]]
          /\ claim' = [claim EXCEPT ![l] = [run |-> r, feed |-> f, token |-> token]]
      BY <1>3, <2>2 DEF ClaimRun
    <3>2. run' = [run EXCEPT ![r] = [run[r] EXCEPT !.status = "RUNNING", !.token = token]]
      BY <1>3, <2>2 DEF ClaimRun
    <3> QED
      BY <2>1, <2>2, <3>1, <3>2 DEF Granting, Claimable
  <2>3. CASE ~(row[f] = "LIVE" /\ run[r].feed = f /\ Claimable(r) /\ TokensLeft(f))
    BY <1>3, <2>1, <2>3 DEF ClaimRun, Stillness, Quiet
  <2> QED
    BY <2>2, <2>3
<1>4. CASE PersistFeed(l) \/ CompleteNotModified(l) \/ CompleteFailure(l)
  BY <1>4 DEF PersistFeed, CompleteNotModified, CompleteFailure, Commit
<1> QED
  BY <1>1, <1>2, <1>3, <1>4 DEF Work

\* Every step is one of the kinds.
LEMMA StepKinds ==
    ASSUME TypeInv, [Next]_vars
    PROVE  Kinds
<1> USE DEF tables, Kinds
<1>1. CASE User
  BY <1>1, UserKind DEF User
<1>2. CASE Operator
  BY <1>2 DEF Operator, SetDisabled, Stillness, Quiet
<1>3. ASSUME NEW l \in Lanes, Maintain(l) \/ Work(l)
      PROVE  Kinds
  BY <1>3, MaintainKind, WorkKind
<1>4. ASSUME NEW l \in Lanes, ExtendLease(l)
      PROVE  Kinds
  BY <1>4 DEF ExtendLease, Extension
<1>5. ASSUME NEW l \in Lanes, HeartbeatRefused(l) \/ Drop(l)
      PROVE  Kinds
  BY <1>5 DEF HeartbeatRefused, Drop, Stillness, Quiet
<1>6. CASE Tick \/ UNCHANGED vars
  BY <1>6 DEF Tick, vars, Stillness, Quiet
<1> QED
  BY <1>1, <1>2, <1>3, <1>4, <1>5, <1>6 DEF Next

-----------------------------------------------------------------------------
(* One active run for each feed, covered by a lease while it runs *)

\* What a retry's key says: its run was lost (and may be gone since).
RetryKeys ==
    \A q, r \in RunIds :
        Exists(q) /\ run[q].key = <<"r1", r>> => run[r].status \in {"LEASE_LOST", "PURGED"}

RunInv == TypeInv /\ OneActiveRun /\ RunningIsLeased /\ RetryKeys

\* The status of every run after a run has been added to a feed without an
\* active one, and what an insertion does to it.
LEMMA InsertEffect ==
    ASSUME TypeInv, NEW r \in RunIds, NEW f \in Feeds, NEW t, NEW k, NEW u, InsertRun(r, f, t, k, u)
    PROVE  /\ run[r].status = "ABSENT"
           /\ run'[r] = Queued(f, t, k, u)
           /\ \A q \in RunIds \ {r} : run'[q] = run[q]
BY DEF InsertRun, Fresh, TypeInv, TypeOK

\* What the loss of a run does: the run ends, and a retry may be added.
LEMMA LossEffect ==
    ASSUME RunInv, NEW r \in RunIds, run[r].status = "RUNNING",
           Requeue(r, EndRun(r, "LEASE_LOST"))
    PROVE  \E q \in RunIds :
              /\ Fresh(q) /\ run[q].status = "ABSENT"
              /\ run'[q] = Queued(run[r].feed, "RETRY", <<"r1", r>>, run[r].user)
              /\ run'[r] = [run[r] EXCEPT !.status = "LEASE_LOST", !.done = now]
              /\ \A p \in RunIds \ {q, r} : run'[p] = run[p]
<1> DEFINE f == run[r].feed
           lost == EndRun(r, "LEASE_LOST")
<1>1. lost = [run EXCEPT ![r] = [run[r] EXCEPT !.status = "LEASE_LOST", !.done = now]]
  BY DEF EndRun
<1>2. ActiveRuns(f) \ {r} = {}
  BY DEF RunInv, OneActiveRun, ActiveRuns, Active
<1>3. ~KeyUsed(f, <<"r1", r>>)
  BY DEF RunInv, RetryKeys, KeyUsed
<1>4. PICK q \in RunIds :
         Fresh(q) /\ run' = [lost EXCEPT ![q] = Queued(f, "RETRY", <<"r1", r>>, run[r].user)]
  BY <1>2, <1>3 DEF Requeue
<1>5. run[q].status = "ABSENT" /\ q # r
  BY <1>4 DEF Fresh
<1>6. run \in [RunIds -> Run \cup {NoRun(s) : s \in Gone}]
  BY DEF RunInv, TypeInv, TypeOK
<1> HIDE DEF lost
<1> QED
  BY <1>1, <1>4, <1>5, <1>6

\* The invariant about runs holds of the empty database.
THEOREM RunInit == Init => RunInv
<1> SUFFICES ASSUME Init PROVE RunInv
  OBVIOUS
<1>1. \A r \in RunIds : run[r].status = "ABSENT"
  BY DEF Init, NoRun
<1> QED
  BY <1>1, TypeInit DEF RunInv, OneActiveRun, RunningIsLeased, RetryKeys, Exists, Gone, Active

\* The parts of a run the invariants look at, after a grant and after a commit.
LEMMA GrantEffect ==
    ASSUME TypeInv, Granting
    PROVE  \E l \in Lanes, r \in RunIds :
              LET f == run[r].feed
                  token == lease[f].token + 1
              IN  /\ run[r].status = "QUEUED" /\ f \in Feeds /\ TokensLeft(f)
                  /\ run'[r] = [run[r] EXCEPT !.status = "RUNNING", !.token = token]
                  /\ run'[r].status = "RUNNING" /\ run'[r].token = token
                  /\ run'[r].feed = f /\ run'[r].key = run[r].key
                  /\ \A q \in RunIds \ {r} : run'[q] = run[q]
                  /\ lease'[f] = [owner |-> l, token |-> token, until |-> now + LeaseDuration]
                  /\ \A g \in Feeds \ {f} : lease'[g] = lease[g]
                  /\ claim' = [claim EXCEPT ![l] = [run |-> r, feed |-> f, token |-> token]]
<1>1. PICK l \in Lanes, r \in RunIds :
         LET f == run[r].feed
             token == lease[f].token + 1
         IN  /\ run[r].status = "QUEUED" /\ TokensLeft(f)
             /\ lease' = [lease EXCEPT ![f] = [owner |-> l, token |-> token,
                                               until |-> now + LeaseDuration]]
             /\ run' = [run EXCEPT ![r] = [run[r] EXCEPT !.status = "RUNNING", !.token = token]]
             /\ claim' = [claim EXCEPT ![l] = [run |-> r, feed |-> f, token |-> token]]
  BY DEF Granting
<1> DEFINE f == run[r].feed
           token == lease[f].token + 1
<1>2. run \in RunTable /\ lease \in [Feeds -> Lease]
  BY DEF TypeInv, TypeOK, RunTable, Lease
<1>3. run[r] \in Run /\ f \in Feeds
  BY <1>1, <1>2, ActiveIsRun DEF Active, Run
<1>4. /\ run'[r] = [run[r] EXCEPT !.status = "RUNNING", !.token = token]
      /\ \A q \in RunIds \ {r} : run'[q] = run[q]
  BY <1>1, <1>2 DEF RunTable
<1>5. /\ run'[r].status = "RUNNING" /\ run'[r].token = token
      /\ run'[r].feed = f /\ run'[r].key = run[r].key
  BY <1>3, <1>4 DEF Run
<1>6. /\ lease'[f] = [owner |-> l, token |-> token, until |-> now + LeaseDuration]
      /\ \A g \in Feeds \ {f} : lease'[g] = lease[g]
  BY <1>1, <1>2, <1>3
<1> QED
  BY <1>1, <1>3, <1>4, <1>5, <1>6

\* What a commit writes.
LEMMA CommitEffect ==
    ASSUME TypeInv, NEW l \in Lanes, NEW events, pc[l] = "commit", Finish(l, events)
    PROVE  LET c == claim[l]
               j == job[l]
           IN  /\ c \in Claims /\ j \in Jobs /\ Holds(l)
               /\ run[c.run].status = "RUNNING" /\ run[c.run].feed = c.feed
               /\ run'[c.run] = [run[c.run] EXCEPT !.status = j.status, !.done = now]
               /\ run'[c.run].status = j.status
               /\ run'[c.run].key = run[c.run].key
               /\ run'[c.run].feed = c.feed
               /\ \A q \in RunIds \ {c.run} : run'[q] = run[q]
               /\ lease'[c.feed] = [lease[c.feed] EXCEPT !.owner = NULL, !.until = NULL]
               /\ \A g \in Feeds \ {c.feed} : lease'[g] = lease[g]
               /\ sched'[c.feed].failures = j.failures
               /\ sched'[c.feed].next = j.next
               /\ \A g \in Feeds \ {c.feed} : sched'[g] = sched[g]
<1> DEFINE c == claim[l]
           j == job[l]
<1>1. c \in Claims /\ j \in Jobs /\ Holds(l)
  BY DEF TypeInv, TypeOK, LaneOK, InAttempt, Finish
<1>2. c.feed \in Feeds /\ c.run \in RunIds /\ j.status \in Reported
  BY <1>1 DEF Claims, Jobs
<1>3. run[c.run].status = "RUNNING" /\ run[c.run].feed = c.feed
  BY <1>1 DEF Holds
<1>4. run \in RunTable /\ lease \in [Feeds -> Lease] /\ run[c.run] \in Run
  BY <1>2, <1>3, ActiveIsRun DEF TypeInv, TypeOK, RunTable, Lease, Active
<1>5. run' = [run EXCEPT ![c.run] = [run[c.run] EXCEPT !.status = j.status, !.done = now]]
  BY DEF Finish, EndRun
<1>6. lease' = [lease EXCEPT ![c.feed] = [lease[c.feed] EXCEPT !.owner = NULL, !.until = NULL]]
  BY DEF Finish
<1> DEFINE new == [next |-> j.next, failures |-> j.failures, retry |-> j.retry, attempt |-> now,
                   succeeded |-> sched[c.feed].succeeded \/ j.status # "ERROR"]
<1>7. sched' = [sched EXCEPT ![c.feed] = new]
  BY DEF Finish
<1>8. new.failures = j.failures /\ new.next = j.next
  OBVIOUS
<1>9. DOMAIN sched = Feeds
  BY DEF TypeInv, TypeOK
<1>10. /\ run'[c.run] = [run[c.run] EXCEPT !.status = j.status, !.done = now]
       /\ \A q \in RunIds \ {c.run} : run'[q] = run[q]
  BY <1>2, <1>4, <1>5 DEF RunTable
<1>11. /\ run'[c.run].status = j.status
       /\ run'[c.run].key = run[c.run].key
       /\ run'[c.run].feed = run[c.run].feed
  BY <1>4, <1>10 DEF Run
<1>12. /\ lease'[c.feed] = [lease[c.feed] EXCEPT !.owner = NULL, !.until = NULL]
       /\ \A g \in Feeds \ {c.feed} : lease'[g] = lease[g]
  BY <1>2, <1>4, <1>6
<1> HIDE DEF new
<1>13. /\ sched'[c.feed] = new
       /\ \A g \in Feeds \ {c.feed} : sched'[g] = sched[g]
  <2>1. sched \in [Feeds -> [next : Nat, failures : Nat, retry : Instant,
                             attempt : Instant, succeeded : BOOLEAN]]
    BY DEF TypeInv, TypeOK
  <2> QED
    BY <2>1, <1>2, <1>7
<1> HIDE DEF c, j
<1> QED
  BY <1>1, <1>3, <1>8, <1>10, <1>11, <1>12, <1>13 DEF c, j

\* A heartbeat changes neither the token nor the owner of a lease.
LEMMA ExtendEffect ==
    ASSUME TypeInv, NEW l \in Lanes, InAttempt(l), ExtendLease(l)
    PROVE  \A g \in Feeds : /\ lease'[g].token = lease[g].token
                            /\ lease'[g].owner = lease[g].owner
                            /\ lease'[g].until = NULL => lease[g].until = NULL
<1> DEFINE f == claim[l].feed
<1>1. f \in Feeds
  BY DEF TypeInv, TypeOK, LaneOK, Claims
<1>2. now + LeaseDuration # NULL
  BY CoreAssumption DEF TypeInv, TypeOK
<1>3. lease' = [lease EXCEPT ![f] = [lease[f] EXCEPT !.until = now + LeaseDuration]]
  BY DEF ExtendLease
<1>4. lease \in [Feeds -> Lease]
  BY DEF TypeInv, TypeOK, Lease
<1>5. lease'[f] = [lease[f] EXCEPT !.until = now + LeaseDuration]
      /\ \A g \in Feeds \ {f} : lease'[g] = lease[g]
  BY <1>1, <1>3, <1>4
<1>6. /\ lease'[f].token = lease[f].token
      /\ lease'[f].owner = lease[f].owner
      /\ lease'[f].until = now + LeaseDuration
  BY <1>1, <1>4, <1>5 DEF Lease
<1> QED
  BY <1>2, <1>5, <1>6

\* Retention only removes runs that ended.
LEMMA PurgeEffect ==
    ASSUME Purging
    PROVE  /\ UNCHANGED <<lease, sched>>
           /\ \A r \in RunIds :
                 \/ run'[r] = run[r]
                 \/ run[r].status \in Terminal /\ run'[r].status = "PURGED"
BY DEF Purging, NoRun

\* Inserting a run where no active one exists keeps the invariant.
LEMMA InsertionKeeps == RunInv /\ Insertion => (OneActiveRun /\ RunningIsLeased /\ RetryKeys)'
<1> SUFFICES ASSUME RunInv, Insertion
             PROVE  (OneActiveRun /\ RunningIsLeased /\ RetryKeys)'
  OBVIOUS
<1>1. PICK r \in RunIds, f \in Feeds, t \in Triggers, k \in Keys, u \in Users \cup {NULL} :
         ActiveRuns(f) = {} /\ t # "RETRY" /\ k[1] # "r1" /\ InsertRun(r, f, t, k, u)
  BY DEF Insertion
<1>2. /\ run[r].status = "ABSENT"
      /\ run'[r] = Queued(f, t, k, u)
      /\ \A q \in RunIds \ {r} : run'[q] = run[q]
  BY <1>1, InsertEffect DEF RunInv
<1>3. run'[r].status = "QUEUED" /\ run'[r].feed = f /\ run'[r].key = k
  BY <1>2 DEF Queued
<1>4. OneActiveRun'
  <2> SUFFICES ASSUME NEW p \in RunIds, NEW q \in RunIds,
                      run'[p].status \in Active, run'[q].status \in Active,
                      run'[p].feed = run'[q].feed
               PROVE  p = q
    BY DEF OneActiveRun
  <2>1. \A s \in RunIds \ {r} : run'[s].status \in Active => run'[s].feed # f
    BY <1>1, <1>2 DEF ActiveRuns
  <2> QED
    BY <2>1, <1>2, <1>3 DEF RunInv, OneActiveRun
<1>5. RunningIsLeased'
  BY <1>2, <1>3 DEF RunInv, RunningIsLeased, Insertion
<1>6. RetryKeys'
  <2> SUFFICES ASSUME NEW p \in RunIds, NEW q \in RunIds, Exists(p)', run'[p].key = <<"r1", q>>
               PROVE  run'[q].status \in {"LEASE_LOST", "PURGED"}
    BY DEF RetryKeys
  <2>1. p # r
    BY <1>1, <1>3
  <2>2. run[q].status \in {"LEASE_LOST", "PURGED"}
    BY <2>1, <1>2 DEF RunInv, RetryKeys, Exists
  <2> QED
    BY <2>2, <1>2
<1> QED
  BY <1>4, <1>5, <1>6

\* Losing a run and queueing its retry keeps the invariant.
LEMMA LossKeeps == RunInv /\ Loss => (OneActiveRun /\ RunningIsLeased /\ RetryKeys)'
<1> SUFFICES ASSUME RunInv, Loss
             PROVE  (OneActiveRun /\ RunningIsLeased /\ RetryKeys)'
  OBVIOUS
<1>1. PICK r \in RunIds : run[r].status = "RUNNING" /\ Requeue(r, EndRun(r, "LEASE_LOST"))
  BY DEF Loss
<1> DEFINE f == run[r].feed
<1>2. PICK q \in RunIds :
         /\ run[q].status = "ABSENT"
         /\ run'[q] = Queued(f, "RETRY", <<"r1", r>>, run[r].user)
         /\ run'[r] = [run[r] EXCEPT !.status = "LEASE_LOST", !.done = now]
         /\ \A p \in RunIds \ {q, r} : run'[p] = run[p]
  BY <1>1, LossEffect
<1>3. run[r] \in Run
  BY <1>1, ActiveIsRun DEF RunInv, TypeInv, TypeOK, RunTable, Active
<1>4. run'[r].status = "LEASE_LOST" /\ run'[r].feed = f /\ run'[r].key = run[r].key
  BY <1>2, <1>3 DEF Run
<1>5. run'[q].status = "QUEUED" /\ run'[q].feed = f /\ run'[q].key = <<"r1", r>>
  BY <1>2 DEF Queued
<1>6. OneActiveRun'
  <2> SUFFICES ASSUME NEW p \in RunIds, NEW s \in RunIds,
                      run'[p].status \in Active, run'[s].status \in Active,
                      run'[p].feed = run'[s].feed
               PROVE  p = s
    BY DEF OneActiveRun
  <2>1. \A x \in RunIds \ {q, r} : run'[x].status \in Active => run'[x].feed # f
    BY <1>1, <1>2 DEF RunInv, OneActiveRun, Active
  <2>2. p # r /\ s # r
    BY <1>4 DEF Active
  <2> QED
    BY <2>1, <2>2, <1>2, <1>5 DEF RunInv, OneActiveRun
<1>7. RunningIsLeased'
  <2>1. UNCHANGED lease
    BY DEF Loss
  <2>2. \A p \in RunIds : run'[p].status = "RUNNING" => run'[p] = run[p]
    BY <1>2, <1>4, <1>5
  <2> QED
    BY <2>1, <2>2 DEF RunInv, RunningIsLeased
<1>8. RetryKeys'
  <2> SUFFICES ASSUME NEW p \in RunIds, NEW s \in RunIds, Exists(p)', run'[p].key = <<"r1", s>>
               PROVE  run'[s].status \in {"LEASE_LOST", "PURGED"}
    BY DEF RetryKeys
  <2>1. CASE p = q
    BY <2>1, <1>4, <1>5
  <2>2. CASE p # q
    <3>1. Exists(p) /\ run[p].key = <<"r1", s>>
      BY <2>2, <1>1, <1>2, <1>4 DEF Exists, Gone
    <3>2. run[s].status \in {"LEASE_LOST", "PURGED"}
      BY <3>1 DEF RunInv, RetryKeys
    <3> QED
      BY <3>2, <1>1, <1>2
  <2> QED
    BY <2>1, <2>2
<1> QED
  BY <1>6, <1>7, <1>8

\* Granting a lease to the queued run keeps the invariant.
LEMMA GrantingKeeps == RunInv /\ Granting => (OneActiveRun /\ RunningIsLeased /\ RetryKeys)'
<1> SUFFICES ASSUME RunInv, Granting
             PROVE  (OneActiveRun /\ RunningIsLeased /\ RetryKeys)'
  OBVIOUS
<1>1. PICK l \in Lanes, r \in RunIds :
         LET f == run[r].feed
             token == lease[f].token + 1
         IN  /\ run[r].status = "QUEUED" /\ f \in Feeds /\ TokensLeft(f)
             /\ run'[r].status = "RUNNING" /\ run'[r].token = token
             /\ run'[r].feed = f /\ run'[r].key = run[r].key
             /\ \A q \in RunIds \ {r} : run'[q] = run[q]
             /\ lease'[f] = [owner |-> l, token |-> token, until |-> now + LeaseDuration]
             /\ \A g \in Feeds \ {f} : lease'[g] = lease[g]
  BY GrantEffect DEF RunInv
<1> DEFINE f == run[r].feed
<1>2. now + LeaseDuration # NULL /\ l # NULL
  BY CoreAssumption DEF RunInv, TypeInv, TypeOK
<1>3. \A q \in RunIds \ {r} : run[q].status \in Active => run[q].feed # f
  BY <1>1 DEF RunInv, OneActiveRun, Active
<1>4. OneActiveRun'
  BY <1>1, <1>3 DEF RunInv, OneActiveRun, Active
<1>5. RunningIsLeased'
  <2> SUFFICES ASSUME NEW q \in RunIds, run'[q].status = "RUNNING"
               PROVE  /\ lease'[run'[q].feed].token = run'[q].token
                      /\ lease'[run'[q].feed].owner # NULL
                      /\ lease'[run'[q].feed].until # NULL
    BY DEF RunningIsLeased
  <2>1. CASE q = r
    BY <2>1, <1>1, <1>2
  <2>2. CASE q # r
    <3>1. run'[q] = run[q] /\ run[q].feed # f
      BY <2>2, <1>1, <1>3 DEF Active
    <3>2. run[q].feed \in Feeds
      BY <3>1, ActiveIsRun DEF RunInv, TypeInv, TypeOK, RunTable, Active, Run
    <3> QED
      BY <3>1, <3>2, <1>1 DEF RunInv, RunningIsLeased
  <2> QED
    BY <2>1, <2>2
<1>6. RetryKeys'
  <2> SUFFICES ASSUME NEW p \in RunIds, NEW s \in RunIds, Exists(p)', run'[p].key = <<"r1", s>>
               PROVE  run'[s].status \in {"LEASE_LOST", "PURGED"}
    BY DEF RetryKeys
  <2>1. Exists(p) /\ run[p].key = <<"r1", s>>
    BY <1>1 DEF Exists, Gone
  <2>2. run[s].status \in {"LEASE_LOST", "PURGED"}
    BY <2>1 DEF RunInv, RetryKeys
  <2> QED
    BY <2>2, <1>1
<1> QED
  BY <1>4, <1>5, <1>6

\* Ending the run that holds the lease keeps the invariant.
LEMMA CommitKeeps == RunInv /\ Commit => (OneActiveRun /\ RunningIsLeased /\ RetryKeys)'
<1> SUFFICES ASSUME RunInv, Commit
             PROVE  (OneActiveRun /\ RunningIsLeased /\ RetryKeys)'
  OBVIOUS
<1>1. PICK l \in Lanes, events \in SUBSET {"persisted", "completed"} :
         pc[l] = "commit" /\ Finish(l, events)
  BY DEF Commit
<1> DEFINE c == claim[l]
           j == job[l]
<1>2. /\ c \in Claims /\ j \in Jobs
      /\ run[c.run].status = "RUNNING" /\ run[c.run].feed = c.feed
      /\ run'[c.run].status = j.status
      /\ run'[c.run].key = run[c.run].key
      /\ \A q \in RunIds \ {c.run} : run'[q] = run[q]
      /\ \A g \in Feeds \ {c.feed} : lease'[g] = lease[g]
  BY <1>1, CommitEffect DEF RunInv
<1>3. c.run \in RunIds /\ j.status \in Reported
  BY <1>2 DEF Claims, Jobs
<1> HIDE DEF c, j
<1>4. OneActiveRun'
  BY <1>2, <1>3 DEF RunInv, OneActiveRun, Active, Reported
<1>5. RunningIsLeased'
  <2> SUFFICES ASSUME NEW q \in RunIds, run'[q].status = "RUNNING"
               PROVE  /\ lease'[run'[q].feed].token = run'[q].token
                      /\ lease'[run'[q].feed].owner # NULL
                      /\ lease'[run'[q].feed].until # NULL
    BY DEF RunningIsLeased
  <2>1. q # c.run /\ run'[q] = run[q]
    BY <1>2, <1>3 DEF Reported
  <2>2. run[q].feed # c.feed
    BY <2>1, <1>2, <1>3 DEF RunInv, OneActiveRun, Active
  <2>3. run[q].feed \in Feeds
    BY <2>1, ActiveIsRun DEF RunInv, TypeInv, TypeOK, RunTable, Active, Run
  <2> QED
    BY <2>1, <2>2, <2>3, <1>2 DEF RunInv, RunningIsLeased
<1>6. RetryKeys'
  <2> SUFFICES ASSUME NEW p \in RunIds, NEW s \in RunIds, Exists(p)', run'[p].key = <<"r1", s>>
               PROVE  run'[s].status \in {"LEASE_LOST", "PURGED"}
    BY DEF RetryKeys
  <2>1. Exists(p) /\ run[p].key = <<"r1", s>>
    BY <1>2, <1>3 DEF Exists, Gone
  <2>2. run[s].status \in {"LEASE_LOST", "PURGED"}
    BY <2>1 DEF RunInv, RetryKeys
  <2> QED
    BY <2>2, <1>2
<1> QED
  BY <1>4, <1>5, <1>6

\* The other kinds of step keep the invariant.
LEMMA OtherKindsKeep ==
    RunInv /\ (Stillness \/ Extension \/ Purging) => (OneActiveRun /\ RunningIsLeased /\ RetryKeys)'
<1> SUFFICES ASSUME RunInv, Stillness \/ Extension \/ Purging
             PROVE  (OneActiveRun /\ RunningIsLeased /\ RetryKeys)'
  OBVIOUS
<1>1. CASE Stillness
  BY <1>1 DEF Stillness, RunInv, OneActiveRun, RunningIsLeased, RetryKeys, Exists
<1>2. CASE Extension
  <2>1. UNCHANGED run
    BY <1>2 DEF Extension
  <2>2. \A g \in Feeds : /\ lease'[g].token = lease[g].token
                         /\ lease'[g].owner = lease[g].owner
                         /\ lease'[g].until = NULL => lease[g].until = NULL
    BY <1>2, ExtendEffect DEF Extension, RunInv
  <2>3. \A r \in RunIds : run[r].status = "RUNNING" => run[r].feed \in Feeds
    BY ActiveIsRun DEF RunInv, TypeInv, TypeOK, RunTable, Active, Run
  <2>4. RunningIsLeased'
    BY <2>1, <2>2, <2>3 DEF RunInv, RunningIsLeased
  <2> QED
    BY <2>1, <2>4 DEF RunInv, OneActiveRun, RetryKeys, Exists
<1>3. CASE Purging
  <2>1. /\ UNCHANGED <<lease, sched>>
        /\ \A r \in RunIds : \/ run'[r] = run[r]
                             \/ run[r].status \in Terminal /\ run'[r].status = "PURGED"
    BY <1>3, PurgeEffect
  <2>2. \A r \in RunIds : run'[r].status # "PURGED" => run'[r] = run[r]
    BY <2>1
  <2> QED
    BY <2>1, <2>2 DEF RunInv, OneActiveRun, RunningIsLeased, RetryKeys, Exists, Active, Gone
<1> QED
  BY <1>1, <1>2, <1>3

\* Every step keeps the invariant about runs.
THEOREM RunStep == RunInv /\ [Next]_vars => RunInv'
<1> SUFFICES ASSUME RunInv, [Next]_vars
             PROVE  RunInv'
  OBVIOUS
<1>1. TypeInv'
  BY TypeStep DEF RunInv
<1>2. Kinds
  BY StepKinds DEF RunInv
<1>3. (OneActiveRun /\ RunningIsLeased /\ RetryKeys)'
  BY <1>2, InsertionKeeps, LossKeeps, GrantingKeeps, CommitKeeps, OtherKindsKeep DEF Kinds
<1> QED
  BY <1>1, <1>3 DEF RunInv

\* The invariant that carries the safety theorems.
THEOREM RunsSafe == Spec => []RunInv
BY RunInit, RunStep, PTL DEF Spec

\* No interleaving of the transactions that queue a run gives a feed two runs
\* queued or running.
THEOREM UniqueActiveRun == Spec => []OneActiveRun
<1>1. RunInv => OneActiveRun
  BY DEF RunInv
<1> QED
  BY <1>1, RunsSafe, PTL

\* A running run is always covered by its feed's lease.
THEOREM RunningRunIsLeased == Spec => []RunningIsLeased
<1>1. RunInv => RunningIsLeased
  BY DEF RunInv
<1> QED
  BY <1>1, RunsSafe, PTL

\* Both together, as the runs check them.
THEOREM RunsSound == Spec => []RunsAreSound
<1>1. RunInv => RunsAreSound
  BY DEF RunInv, RunsAreSound
<1> QED
  BY <1>1, RunsSafe, PTL

-----------------------------------------------------------------------------
(* What a step may never do *)

\* The status of one run, before and after a step.
LEMMA ForwardStep ==
    ASSUME RunInv, [Next]_vars, NEW r \in RunIds
    PROVE  LET s == run[r].status
               t == run'[r].status
           IN  \/ run'[r] = run[r]
               \/ s = "ABSENT" /\ t = "QUEUED"
               \/ s = "QUEUED" /\ t = "RUNNING"
               \/ s = "RUNNING" /\ t \in Terminal
               \/ s \in Terminal /\ t = "PURGED"
<1>1. CASE Stillness \/ Extension
  BY <1>1 DEF Stillness, Extension
<1>2. CASE Insertion
  <2>1. PICK q \in RunIds, f \in Feeds, t \in Triggers, k \in Keys, u \in Users \cup {NULL} :
           InsertRun(q, f, t, k, u)
    BY <1>2 DEF Insertion
  <2>2. /\ run[q].status = "ABSENT"
        /\ run'[q] = Queued(f, t, k, u)
        /\ \A p \in RunIds \ {q} : run'[p] = run[p]
    BY <2>1, InsertEffect DEF RunInv
  <2>3. run'[q].status = "QUEUED"
    BY <2>2 DEF Queued
  <2> QED
    BY <2>2, <2>3
<1>3. CASE Loss
  <2>1. PICK q \in RunIds : run[q].status = "RUNNING" /\ Requeue(q, EndRun(q, "LEASE_LOST"))
    BY <1>3 DEF Loss
  <2>2. PICK p \in RunIds :
           /\ run[p].status = "ABSENT"
           /\ run'[p] = Queued(run[q].feed, "RETRY", <<"r1", q>>, run[q].user)
           /\ run'[q] = [run[q] EXCEPT !.status = "LEASE_LOST", !.done = now]
           /\ \A x \in RunIds \ {p, q} : run'[x] = run[x]
    BY <2>1, LossEffect
  <2>3. run'[p].status = "QUEUED"
    BY <2>2 DEF Queued
  <2>4. run'[q].status = "LEASE_LOST"
    BY <2>1, <2>2, ActiveIsRun DEF RunInv, TypeInv, TypeOK, RunTable, Active, Run
  <2> QED
    BY <2>1, <2>2, <2>3, <2>4 DEF Terminal
<1>4. CASE Granting
  BY <1>4, GrantEffect DEF RunInv
<1>5. CASE Commit
  <2>1. PICK l \in Lanes, events \in SUBSET {"persisted", "completed"} :
           pc[l] = "commit" /\ Finish(l, events)
    BY <1>5 DEF Commit
  <2>2. /\ job[l].status \in Reported
        /\ run[claim[l].run].status = "RUNNING"
        /\ run'[claim[l].run].status = job[l].status
        /\ \A q \in RunIds \ {claim[l].run} : run'[q] = run[q]
    BY <2>1, CommitEffect DEF RunInv, Jobs
  <2> QED
    BY <2>2 DEF Terminal
<1>6. CASE Purging
  BY <1>6, PurgeEffect
<1> QED
  BY <1>1, <1>2, <1>3, <1>4, <1>5, <1>6, StepKinds DEF RunInv, Kinds

\* Runs only move forward: what a finished run recorded stays until retention
\* deletes it.
THEOREM RunsForward == Spec => RunsMoveForward
<1>1. RunInv /\ [Next]_vars =>
         [\A r \in RunIds :
             LET s == run[r].status
                 t == run'[r].status
             IN  \/ run'[r] = run[r]
                 \/ s = "ABSENT" /\ t = "QUEUED"
                 \/ s = "QUEUED" /\ t = "RUNNING"
                 \/ s = "RUNNING" /\ t \in Terminal
                 \/ s \in Terminal /\ t = "PURGED"]_vars
  BY ForwardStep
<1> QED
  BY <1>1, RunsSafe, PTL DEF Spec, RunsMoveForward

\* A schedule changes only with the end of a run under its lease.
LEMMA FencedStep ==
    ASSUME RunInv, [Next]_vars, NEW f \in Feeds, row[f] = "LIVE", sched'[f] # sched[f]
    PROVE  \E r \in RunIds :
              /\ run[r].feed = f
              /\ run[r].status = "RUNNING"
              /\ run[r].token = lease[f].token
              /\ lease[f].until > now
              /\ run'[r].status \in Reported
              /\ lease'[f] = [lease[f] EXCEPT !.owner = NULL, !.until = NULL]
<1>1. Commit
  BY StepKinds DEF RunInv, Kinds, Stillness, Insertion, Quiet, Loss, Granting, Extension, Purging
<1>2. PICK l \in Lanes, events \in SUBSET {"persisted", "completed"} :
         pc[l] = "commit" /\ Finish(l, events)
  BY <1>1 DEF Commit
<1>3. /\ claim[l] \in Claims /\ job[l] \in Jobs /\ Holds(l)
      /\ run'[claim[l].run].status = job[l].status
      /\ lease'[claim[l].feed] = [lease[claim[l].feed] EXCEPT !.owner = NULL, !.until = NULL]
      /\ \A g \in Feeds \ {claim[l].feed} : sched'[g] = sched[g]
  BY <1>2, CommitEffect DEF RunInv
<1>4. claim[l].feed = f
  BY <1>3
<1>5. claim[l].run \in RunIds /\ job[l].status \in Reported
  BY <1>3 DEF Claims, Jobs
<1> QED
  BY <1>3, <1>4, <1>5 DEF Holds

\* Fencing: the schedule of a feed moves only with the end of a run under an
\* unexpired lease, which that step releases.
THEOREM CommitsFenced == Spec => FencedCommit
<1>1. RunInv /\ [Next]_vars =>
         [\A f \in Feeds :
             row[f] = "LIVE" /\ sched'[f] # sched[f] =>
                \E r \in RunIds :
                   /\ run[r].feed = f
                   /\ run[r].status = "RUNNING"
                   /\ run[r].token = lease[f].token
                   /\ lease[f].until > now
                   /\ run'[r].status \in Reported
                   /\ lease'[f] = [lease[f] EXCEPT !.owner = NULL, !.until = NULL]]_vars
  BY FencedStep
<1> QED
  BY <1>1, RunsSafe, PTL DEF Spec, FencedCommit

-----------------------------------------------------------------------------
(* The failure count a lane read before its fetch is still the feed's when *)
(* the lane may write, although nothing locks it in between.               *)

Next1(n) == {0, MinOf(n + 1, FailureCap)}

CountInv ==
    \A l \in Lanes :
        /\ claim[l] # NULL =>
              /\ claim[l].token <= lease[claim[l].feed].token
              /\ /\ pc[l] \in {"fetch", "commit"}
                 /\ lease[claim[l].feed].owner = l
                 /\ lease[claim[l].feed].token = claim[l].token
                 => ctx[l] = sched[claim[l].feed].failures
        /\ pc[l] = "commit" => job[l].failures \in Next1(ctx[l])

\* No two results of a feed ask for the same instant.
Spaced == MinJitter > 0 /\ SuccessDelay > 0 /\ MaxDelay > 0

\* What a step does to the variables of a lane.
LaneKeeps(l) ==
    /\ claim'[l] = claim[l] /\ ctx'[l] = ctx[l] /\ job'[l] = job[l]
    /\ pc'[l] \in {"fetch", "commit"} => pc'[l] = pc[l]

LaneStops(l) == claim'[l] = NULL /\ pc'[l] = "top"

LaneClaims(l) ==
    /\ claim'[l] \in Claims /\ pc'[l] = "load"
    /\ claim'[l].token = lease'[claim'[l].feed].token

LaneLoads(l) ==
    /\ claim'[l] = claim[l] /\ pc'[l] = "fetch"
    /\ ctx'[l] = sched[claim[l].feed].failures
    /\ UNCHANGED <<lease, sched>>

LaneFetches(l) ==
    /\ claim'[l] = claim[l] /\ ctx'[l] = ctx[l]
    /\ pc[l] = "fetch" /\ pc'[l] = "commit"
    /\ job'[l].failures \in Next1(ctx[l])
    /\ UNCHANGED <<now, run>> /\ (Spaced => job'[l].next > now)

LaneKinds(l) ==
    LaneKeeps(l) \/ LaneStops(l) \/ LaneClaims(l) \/ LaneLoads(l) \/ LaneFetches(l)

\* The end of an attempt clears the lane.
LEMMA EndAttemptLanes ==
    ASSUME TypeInv, NEW l \in Lanes, NEW k \in Lanes, EndAttempt(l)
    PROVE  LaneKinds(k)
BY DEF TypeInv, TypeOK, EndAttempt, Goto, LaneKinds, LaneKeeps, LaneStops

\* A move of a lane between scans leaves its attempt alone.
LEMMA GotoLanes ==
    ASSUME TypeInv, NEW l \in Lanes, NEW k \in Lanes, NEW S,
           NEW where \in {"top", "recover", "enqueue", "purge", "claim"},
           Goto(l, where, S), UNCHANGED <<claim, ctx, job>>
    PROVE  LaneKinds(k)
BY DEF TypeInv, TypeOK, Goto, LaneKinds, LaneKeeps

\* Maintenance starts no attempt.
LEMMA MaintainLanes ==
    ASSUME TypeInv, NEW l \in Lanes, NEW k \in Lanes, Maintain(l)
    PROVE  LaneKinds(k)
<1>1. CASE ScanExpired(l) \/ ScanDue(l) \/ ScanOrphans(l)
  BY <1>1, GotoLanes DEF ScanExpired, ScanDue, ScanOrphans
<1>2. CASE PurgeHistory(l) \/ PurgeEvents(l)
  BY <1>2 DEF PurgeHistory, PurgeEvents, laneVars, LaneKinds, LaneKeeps
<1>3. ASSUME NEW f \in Feeds, NEW r \in RunIds, RecoverRun(l, r, f)
      PROVE  LaneKinds(k)
  BY <1>3 DEF RecoverRun, LaneKinds, LaneKeeps
<1>4. ASSUME NEW f \in Feeds, NEW t \in 0 .. now, EnqueueRun(l, t, f) \/ PurgeFeed(l, t, f)
      PROVE  LaneKinds(k)
  BY <1>4 DEF EnqueueRun, PurgeFeed, LaneKinds, LaneKeeps
<1> QED
  BY <1>1, <1>2, <1>3, <1>4 DEF Maintain

\* A schedule counts the failure from the number that was read.
LEMMA ScheduleCounts ==
    ASSUME NEW s, NEW n, NEW j \in Schedule(s, n)
    PROVE  j.failures \in Next1(n)
BY DEF Schedule, Next1

\* A schedule lies ahead.
LEMMA ScheduleAhead ==
    ASSUME Spaced, now \in Nat, NEW s, NEW n \in Nat, NEW j \in Schedule(s, n)
    PROVE  j.next > now
<1>1. CASE s = "ERROR"
  <2> DEFINE m == MinOf(n + 1, FailureCap)
  <2>1. PICK jitter \in MinJitter .. Backoff(m), at \in RetryAfterTimes \cup {NULL} :
           j = [status |-> s, failures |-> m, retry |-> at,
                next |-> now + MinOf(MaxOf(jitter, IF at = NULL \/ at < now THEN 0 ELSE at - now),
                                     MaxDelay)]
    BY <1>1 DEF Schedule
  <2>2. jitter \in Int /\ jitter > 0 /\ MaxDelay \in Nat /\ MaxDelay > 0
    BY CoreAssumption DEF Spaced
  <2>3. (IF at = NULL \/ at < now THEN 0 ELSE at - now) \in Nat
    BY <2>1, CoreAssumption
  <2> QED
    BY <2>1, <2>2, <2>3 DEF MinOf, MaxOf
<1>2. CASE s # "ERROR"
  BY <1>2, CoreAssumption DEF Schedule, Spaced
<1> QED
  BY <1>1, <1>2

\* What the work of one lane does to the variables of any lane.
LEMMA WorkLanes ==
    ASSUME TypeInv, NEW l \in Lanes, NEW k \in Lanes, Work(l)
    PROVE  LaneKinds(k)
<1> USE DEF LaneKinds
<1>1. CASE FindWork(l)
  <2>1. \/ Goto(l, "top", {})
        \/ \E r \in RunIds : Goto(l, "claim", {<<r, run[r].feed>>})
    BY <1>1 DEF FindWork, Oldest
  <2>2. UNCHANGED <<claim, ctx, job>>
    BY <1>1 DEF FindWork
  <2> QED
    BY <2>1, <2>2, GotoLanes
<1>2. ASSUME NEW r \in RunIds, NEW f \in Feeds, ClaimRun(l, r, f)
      PROVE  LaneKinds(k)
  <2>1. UNCHANGED <<ctx, job>>
    BY <1>2 DEF ClaimRun
  <2>2. CASE row[f] = "LIVE" /\ run[r].feed = f /\ Claimable(r) /\ TokensLeft(f)
    <3> DEFINE token == lease[f].token + 1
               c == [run |-> r, feed |-> f, token |-> token]
               new == [owner |-> l, token |-> token, until |-> now + LeaseDuration]
    <3>1. /\ lease' = [lease EXCEPT ![f] = new]
          /\ claim' = [claim EXCEPT ![l] = c]
          /\ pc' = [pc EXCEPT ![l] = "load"]
      BY <1>2, <2>2 DEF ClaimRun, Goto
    <3>2. token \in Nat
      BY DEF TypeInv, TypeOK
    <3>3. c \in Claims /\ c.feed = f /\ c.token = token /\ new.token = token
      BY <3>2 DEF Claims
    <3>4. lease'[f] = new
      <4>1. lease \in [Feeds -> Lease]
        BY DEF TypeInv, TypeOK, Lease
      <4> QED
        BY <3>1, <4>1
    <3> HIDE DEF c, new
    <3>5. CASE k = l
      BY <3>1, <3>3, <3>4, <3>5 DEF TypeInv, TypeOK, LaneClaims
    <3>6. CASE k # l
      BY <2>1, <3>1, <3>6 DEF TypeInv, TypeOK, LaneKeeps
    <3> QED
      BY <3>5, <3>6
  <2>3. CASE ~(row[f] = "LIVE" /\ run[r].feed = f /\ Claimable(r) /\ TokensLeft(f))
    BY <1>2, <2>1, <2>3, GotoLanes DEF ClaimRun
  <2> QED
    BY <2>2, <2>3
<1>3. CASE LoadContext(l)
  <2>1. CASE EndAttempt(l)
    BY <2>1, EndAttemptLanes
  <2>2. CASE /\ ctx' = [ctx EXCEPT ![l] = sched[claim[l].feed].failures]
             /\ Goto(l, "fetch", {})
             /\ UNCHANGED <<claim, job>>
    <3>1. UNCHANGED <<lease, sched>>
      BY <1>3 DEF LoadContext, tables
    <3>2. CASE k = l
      BY <2>2, <3>1, <3>2 DEF TypeInv, TypeOK, Goto, LaneLoads
    <3>3. CASE k # l
      BY <2>2, <3>3 DEF TypeInv, TypeOK, Goto, LaneKeeps
    <3> QED
      BY <3>2, <3>3
  <2> QED
    BY <1>3, <2>1, <2>2 DEF LoadContext
<1>4. ASSUME NEW s \in Outcomes, FetchDone(l, s)
      PROVE  LaneKinds(k)
  <2>1. PICK j \in Schedule(s, ctx[l]) : job' = [job EXCEPT ![l] = j]
    BY <1>4 DEF FetchDone
  <2>2. j.failures \in Next1(ctx[l])
    BY <2>1, ScheduleCounts
  <2>3. /\ pc[l] = "fetch" /\ pc' = [pc EXCEPT ![l] = "commit"]
        /\ UNCHANGED <<claim, ctx, now, run>>
    BY <1>4 DEF FetchDone, Goto, tables
  <2>4. Spaced => j.next > now
    <3>1. now \in Nat /\ ctx[l] \in Nat
      BY <2>3 DEF TypeInv, TypeOK, LaneOK
    <3> QED
      BY <3>1, <2>1, ScheduleAhead
  <2>5. CASE k = l
    BY <2>1, <2>2, <2>3, <2>4, <2>5 DEF TypeInv, TypeOK, LaneFetches
  <2>6. CASE k # l
    BY <2>1, <2>3, <2>6 DEF TypeInv, TypeOK, LaneKeeps
  <2> QED
    BY <2>5, <2>6
<1>5. CASE PersistFeed(l) \/ CompleteNotModified(l) \/ CompleteFailure(l) \/ CommitRefused(l)
  <2>1. EndAttempt(l)
    BY <1>5 DEF PersistFeed, CompleteNotModified, CompleteFailure, CommitRefused, Finish
  <2> QED
    BY <2>1, EndAttemptLanes
<1> QED
  BY <1>1, <1>2, <1>3, <1>4, <1>5 DEF Work

\* What a step does to the variables of a lane.
LEMMA StepLanes ==
    ASSUME TypeInv, [Next]_vars, NEW k \in Lanes
    PROVE  LaneKinds(k)
<1> USE DEF LaneKinds, LaneKeeps, laneVars
<1>1. CASE User
  BY <1>1, ZenonT(60) DEF User, Subscribe, Unsubscribe, QueueSubscriptionRefresh
<1>2. CASE Operator \/ Tick \/ UNCHANGED vars
  BY <1>2 DEF Operator, SetDisabled, Tick, vars
<1>3. ASSUME NEW l \in Lanes, Maintain(l) \/ Work(l)
      PROVE  LaneKinds(k)
  BY <1>3, MaintainLanes, WorkLanes
<1>4. ASSUME NEW l \in Lanes, ExtendLease(l)
      PROVE  LaneKinds(k)
  BY <1>4 DEF ExtendLease
<1>5. ASSUME NEW l \in Lanes, HeartbeatRefused(l) \/ Drop(l)
      PROVE  LaneKinds(k)
  BY <1>5, EndAttemptLanes DEF HeartbeatRefused, Drop
<1> QED
  BY <1>1, <1>2, <1>3, <1>4, <1>5 DEF Next

\* A lease token never goes back, and while a lane stays the owner under the
\* same token no failure of the feed is counted.
LEMMA TokensGrow ==
    ASSUME RunInv, [Next]_vars, NEW f \in Feeds
    PROVE  /\ lease[f].token \in Nat /\ lease'[f].token \in Nat
           /\ lease[f].token <= lease'[f].token
           /\ lease'[f].token = lease[f].token /\ lease'[f].owner # NULL =>
                 /\ lease'[f].owner = lease[f].owner
                 /\ sched'[f].failures = sched[f].failures
<1>1. lease[f].token \in Nat
  BY CoreAssumption DEF RunInv, TypeInv, TypeOK
<1>2. CASE Stillness \/ Insertion \/ Loss \/ Purging
  BY <1>1, <1>2 DEF Stillness, Insertion, Loss, Purging, Quiet
<1>3. CASE Extension
  <2>1. UNCHANGED sched /\ \A g \in Feeds : /\ lease'[g].token = lease[g].token
                                            /\ lease'[g].owner = lease[g].owner
    BY <1>3, ExtendEffect DEF Extension, RunInv
  <2> QED
    BY <2>1, <1>1
<1>4. CASE Granting
  <2>1. PICK l \in Lanes, r \in RunIds :
           /\ lease'[run[r].feed] = [owner |-> l, token |-> lease[run[r].feed].token + 1,
                                     until |-> now + LeaseDuration]
           /\ \A h \in Feeds \ {run[r].feed} : lease'[h] = lease[h]
    <3>1. TypeInv
      BY DEF RunInv
    <3> QED
      BY <3>1, <1>4, GrantEffect
  <2>2. UNCHANGED sched
    BY <1>4 DEF Granting
  <2>3. lease'[run[r].feed].token = lease[run[r].feed].token + 1
    BY <2>1
  <2> QED
    BY <2>1, <2>2, <2>3, <1>1
<1>5. CASE Commit
  <2>1. PICK l \in Lanes, events \in SUBSET {"persisted", "completed"} :
           pc[l] = "commit" /\ Finish(l, events)
    BY <1>5 DEF Commit
  <2>2. /\ claim[l] \in Claims
        /\ lease'[claim[l].feed] = [lease[claim[l].feed] EXCEPT !.owner = NULL, !.until = NULL]
        /\ \A g \in Feeds \ {claim[l].feed} : lease'[g] = lease[g]
        /\ \A g \in Feeds \ {claim[l].feed} : sched'[g] = sched[g]
    BY <2>1, CommitEffect DEF RunInv
  <2>3. CASE f = claim[l].feed
    <3>1. lease[f] \in Lease
      BY DEF RunInv, TypeInv, TypeOK, Lease
    <3>2. lease'[f].owner = NULL /\ lease'[f].token = lease[f].token
      BY <2>2, <2>3, <3>1 DEF Lease
    <3> QED
      BY <3>2, <1>1
  <2>4. CASE f # claim[l].feed
    BY <2>2, <2>4, <1>1
  <2> QED
    BY <2>3, <2>4
<1> QED
  BY <1>2, <1>3, <1>4, <1>5, StepKinds DEF RunInv, Kinds

FullInv == RunInv /\ CountInv

\* The whole invariant holds of the empty database.
THEOREM FullInit == Init => FullInv
BY RunInit DEF FullInv, CountInv, Init

\* Every step keeps the whole invariant.
THEOREM FullStep == FullInv /\ [Next]_vars => FullInv'
<1> SUFFICES ASSUME FullInv, [Next]_vars
             PROVE  FullInv'
  OBVIOUS
<1>1. RunInv'
  BY RunStep DEF FullInv
<1>2. ASSUME NEW l \in Lanes
      PROVE  /\ claim'[l] # NULL =>
                  /\ claim'[l].token <= lease'[claim'[l].feed].token
                  /\ /\ pc'[l] \in {"fetch", "commit"}
                     /\ lease'[claim'[l].feed].owner = l
                     /\ lease'[claim'[l].feed].token = claim'[l].token
                     => ctx'[l] = sched'[claim'[l].feed].failures
             /\ pc'[l] = "commit" => job'[l].failures \in Next1(ctx'[l])
  <2> DEFINE c == claim[l]
             f == c.feed
  <2>1. l # NULL
    BY CoreAssumption
  <2>2. c # NULL => c \in Claims
    BY DEF FullInv, RunInv, TypeInv, TypeOK
  <2>3. c # NULL => /\ f \in Feeds /\ c.token \in Nat
                    /\ c.token <= lease[f].token
    BY <2>2 DEF Claims, FullInv, CountInv
  <2>4. f \in Feeds =>
           /\ lease[f].token \in Nat /\ lease'[f].token \in Nat
           /\ lease[f].token <= lease'[f].token
           /\ lease'[f].token = lease[f].token /\ lease'[f].owner # NULL =>
                 /\ lease'[f].owner = lease[f].owner
                 /\ sched'[f].failures = sched[f].failures
    BY TokensGrow DEF FullInv
  <2>5. c # NULL => c.token <= lease'[f].token
    BY <2>3, <2>4
  <2>6. c # NULL /\ lease'[f].owner = l /\ lease'[f].token = c.token =>
           /\ lease[f].owner = l /\ lease[f].token = c.token
           /\ sched'[f].failures = sched[f].failures
    <3> SUFFICES ASSUME c # NULL, lease'[f].owner = l, lease'[f].token = c.token
                 PROVE  /\ lease[f].owner = l /\ lease[f].token = c.token
                        /\ sched'[f].failures = sched[f].failures
      OBVIOUS
    <3>1. lease'[f].token = lease[f].token
      BY <2>3, <2>4
    <3> QED
      BY <3>1, <2>1, <2>3, <2>4
  <2>7. CASE LaneKeeps(l)
    BY <2>7, <2>5, <2>6 DEF LaneKeeps, FullInv, CountInv
  <2>8. CASE LaneStops(l)
    BY <2>8 DEF LaneStops
  <2>9. CASE LaneClaims(l)
    <3>1. claim'[l].token \in Nat
      BY <2>9 DEF LaneClaims, Claims
    <3> QED
      BY <2>9, <3>1 DEF LaneClaims
  <2>10. CASE LaneLoads(l)
    BY <2>10, <2>5 DEF LaneLoads
  <2>11. CASE LaneFetches(l)
    BY <2>11, <2>5, <2>6 DEF LaneFetches, FullInv, CountInv
  <2> QED
    BY <2>7, <2>8, <2>9, <2>10, <2>11, StepLanes DEF LaneKinds, FullInv, RunInv
<1> QED
  BY <1>1, <1>2 DEF FullInv, CountInv

\* The whole invariant holds in every state.
THEOREM AllSafe == Spec => []FullInv
BY FullInit, FullStep, PTL DEF Spec

\* Which count a commit writes.
LEMMA CommitCounts ==
    ASSUME FullInv, NEW l \in Lanes, NEW events, pc[l] = "commit", Finish(l, events)
    PROVE  LET f == claim[l].feed
           IN  sched'[f].failures \in {0, MinOf(sched[f].failures + 1, FailureCap)}
<1>1. /\ claim[l] \in Claims /\ Holds(l)
      /\ sched'[claim[l].feed].failures = job[l].failures
  BY CommitEffect DEF FullInv, RunInv
<1>2. ctx[l] = sched[claim[l].feed].failures /\ job[l].failures \in Next1(ctx[l])
  BY <1>1 DEF Holds, FullInv, CountInv
<1> QED
  BY <1>1, <1>2 DEF Next1

\* The failure count of one feed, before and after a step.
LEMMA CountStep ==
    ASSUME FullInv, [Next]_vars, NEW f \in Feeds
    PROVE  sched'[f].failures \in
              {sched[f].failures, 0, MinOf(sched[f].failures + 1, FailureCap)}
<1>1. CASE Commit
  <2>1. PICK l \in Lanes, events \in SUBSET {"persisted", "completed"} :
           pc[l] = "commit" /\ Finish(l, events)
    BY <1>1 DEF Commit
  <2>2. \A g \in Feeds \ {claim[l].feed} : sched'[g] = sched[g]
    BY <2>1, CommitEffect DEF FullInv, RunInv
  <2> QED
    BY <2>1, <2>2, CommitCounts
<1>2. CASE ~Commit
  BY <1>2, StepKinds
     DEF FullInv, RunInv, Kinds, Stillness, Insertion, Quiet, Loss, Granting, Extension, Purging
<1> QED
  BY <1>1, <1>2

\* No interleaving loses or doubles a failure: the count is reset or goes up by
\* one, though it is read before the fetch and written after it.
THEOREM FailuresExact == Spec => FailureCountExact
<1>1. FullInv /\ [Next]_vars =>
         [\A f \in Feeds :
             sched'[f].failures \in
                {sched[f].failures, 0, MinOf(sched[f].failures + 1, FailureCap)}]_vars
  BY CountStep
<1> QED
  BY <1>1, AllSafe, PTL DEF Spec, FailureCountExact

\* What an attempt leaves behind is written once and under its lease.
THEOREM AttemptsFenced == Spec => AttemptsAreFenced
BY CommitsFenced, FailuresExact, RunsForward, PTL DEF AttemptsAreFenced

-----------------------------------------------------------------------------
(* Refinement: the feed's cycle of RefreshCycle *)

Has(f, s) == \E r \in RunIds : run[r].feed = f /\ run[r].status = s

StageAt(f) == IF Has(f, "RUNNING") THEN "working"
              ELSE IF Has(f, "QUEUED") THEN "waiting"
              ELSE "idle"

grantsOf == [f \in Feeds |-> lease[f].token]
failuresOf == [f \in Feeds |-> sched[f].failures]

\* A step that moves the stage of one feed changes only that value.
LEMMA StageIsLocal ==
    ASSUME NEW f \in Feeds, NEW x, StageAt(f)' = x, \A g \in Feeds \ {f} : StageAt(g)' = StageAt(g)
    PROVE  stageOf' = [stageOf EXCEPT ![f] = x]
<1>1. stageOf = [g \in Feeds |-> StageAt(g)]
  BY DEF stageOf, StageAt, Has
<1>2. stageOf' = [g \in Feeds |-> StageAt(g)']
  BY DEF stageOf, StageAt, Has
<1> QED
  BY <1>1, <1>2

\* The stage of a feed, read from the function of stages.
LEMMA StageValue ==
    ASSUME NEW f \in Feeds
    PROVE  stageOf[f] = StageAt(f)
BY DEF stageOf, StageAt, Has

\* Steps that only end finished things leave the cycle alone.
LEMMA QuietKinds ==
    ASSUME FullInv, Stillness \/ Extension \/ Purging
    PROVE  UNCHANGED <<stageOf, grantsOf, failuresOf>>
<1>1. stageOf' = stageOf
  <2>1. CASE UNCHANGED run
    BY <2>1 DEF stageOf
  <2>2. CASE Purging
    <3>1. \A r \in RunIds :
             \/ run'[r] = run[r]
             \/ run[r].status \in Terminal /\ run'[r].status = "PURGED"
      BY <2>2, PurgeEffect
    <3>2. \A g \in Feeds : StageAt(g)' = StageAt(g)
      BY <3>1 DEF StageAt, Has, Terminal, Reported
    <3>3. /\ stageOf = [g \in Feeds |-> StageAt(g)]
          /\ stageOf' = [g \in Feeds |-> StageAt(g)']
      BY DEF stageOf, StageAt, Has
    <3> QED
      BY <3>2, <3>3
  <2> QED
    BY <2>1, <2>2 DEF Stillness, Extension
<1>2. \A g \in Feeds : lease'[g].token = lease[g].token
  BY ExtendEffect DEF Stillness, Extension, Purging, FullInv, RunInv
<1>3. \A g \in Feeds : sched'[g].failures = sched[g].failures
  BY DEF Stillness, Extension, Purging, Quiet
<1> QED
  BY <1>1, <1>2, <1>3 DEF grantsOf, failuresOf

\* Inserting a run asks for work in the abstract cycle.
LEMMA InsertionAsks ==
    ASSUME FullInv, Insertion
    PROVE  \E f \in Feeds : Cycle!Ask(f)
<1>1. PICK r \in RunIds, f \in Feeds, t \in Triggers, k \in Keys, u \in Users \cup {NULL} :
         ActiveRuns(f) = {} /\ InsertRun(r, f, t, k, u)
  BY DEF Insertion
<1>2. /\ run[r].status = "ABSENT"
      /\ run'[r] = Queued(f, t, k, u)
      /\ \A q \in RunIds \ {r} : run'[q] = run[q]
  BY <1>1, InsertEffect DEF FullInv, RunInv
<1>3. run'[r].status = "QUEUED" /\ run'[r].feed = f
  BY <1>2 DEF Queued
<1>4. ~Has(f, "RUNNING") /\ ~Has(f, "QUEUED")
  BY <1>1 DEF ActiveRuns, Active, Has
<1>5. StageAt(f) = "idle"
  BY <1>4 DEF StageAt
<1>6. StageAt(f)' = "waiting"
  <2>1. ~Has(f, "RUNNING")' /\ Has(f, "QUEUED")'
    BY <1>2, <1>3, <1>4 DEF Has
  <2> QED
    BY <2>1 DEF StageAt
<1>7. \A g \in Feeds \ {f} : StageAt(g)' = StageAt(g)
  <2> SUFFICES ASSUME NEW g \in Feeds \ {f} PROVE StageAt(g)' = StageAt(g)
    OBVIOUS
  <2>1. Has(g, "RUNNING")' = Has(g, "RUNNING")
    BY <1>2, <1>3 DEF Has
  <2>2. Has(g, "QUEUED")' = Has(g, "QUEUED")
    BY <1>2, <1>3 DEF Has
  <2> QED
    BY <2>1, <2>2 DEF StageAt
<1>8. UNCHANGED <<grantsOf, failuresOf>>
  BY DEF grantsOf, failuresOf, Insertion, Quiet
<1> QED
  BY <1>5, <1>6, <1>7, <1>8, StageIsLocal, StageValue DEF Cycle!Ask, grantsOf, failuresOf

\* The runs of the other feeds tell the same stage as before.
LEMMA OtherStages ==
    ASSUME NEW r \in RunIds, NEW q \in RunIds, NEW f \in Feeds,
           \A p \in RunIds \ {q, r} : run'[p] = run[p],
           run[r].feed = f, run'[r].feed = f, run'[q].feed = f,
           run[q].feed = f \/ run[q].status = "ABSENT"
    PROVE  \A g \in Feeds \ {f} : StageAt(g)' = StageAt(g)
<1> SUFFICES ASSUME NEW g \in Feeds \ {f} PROVE StageAt(g)' = StageAt(g)
  OBVIOUS
<1>1. Has(g, "RUNNING")' = Has(g, "RUNNING")
  BY DEF Has
<1>2. Has(g, "QUEUED")' = Has(g, "QUEUED")
  BY DEF Has
<1> QED
  BY <1>1, <1>2 DEF StageAt

\* Losing a run forfeits the work in the abstract cycle.
LEMMA LossForfeits ==
    ASSUME FullInv, Loss
    PROVE  \E f \in Feeds : Cycle!Forfeit(f)
<1>1. PICK r \in RunIds : run[r].status = "RUNNING" /\ Requeue(r, EndRun(r, "LEASE_LOST"))
  BY DEF Loss
<1>3. run[r] \in Run
  BY <1>1, ActiveIsRun DEF FullInv, RunInv, TypeInv, TypeOK, RunTable, Active
<1>10. PICK f \in Feeds : f = run[r].feed
  BY <1>3 DEF Run
<1>2. PICK q \in RunIds :
         /\ run[q].status = "ABSENT"
         /\ run'[q] = Queued(f, "RETRY", <<"r1", r>>, run[r].user)
         /\ run'[r] = [run[r] EXCEPT !.status = "LEASE_LOST", !.done = now]
         /\ \A p \in RunIds \ {q, r} : run'[p] = run[p]
  BY <1>1, <1>10, LossEffect DEF FullInv
<1>4. run'[r].status = "LEASE_LOST" /\ run'[r].feed = f
  BY <1>2, <1>3, <1>10 DEF Run
<1>5. run'[q].status = "QUEUED" /\ run'[q].feed = f
  BY <1>2 DEF Queued
<1>6. StageAt(f) = "working"
  BY <1>1, <1>10 DEF StageAt, Has
<1>7. StageAt(f)' = "waiting"
  <2>1. \A p \in RunIds \ {q, r} : run[p].status \in Active => run[p].feed # f
    BY <1>1, <1>10 DEF FullInv, RunInv, OneActiveRun, Active
  <2>2. ~Has(f, "RUNNING")'
    <3> SUFFICES ASSUME NEW p \in RunIds, run'[p].feed = f, run'[p].status = "RUNNING"
                 PROVE  FALSE
      BY DEF Has
    <3>1. p \in RunIds \ {q, r}
      BY <1>4, <1>5
    <3>2. run'[p] = run[p]
      BY <3>1, <1>2
    <3> QED
      BY <2>1, <3>1, <3>2 DEF Active
  <2>3. Has(f, "QUEUED")'
    BY <1>5 DEF Has
  <2> QED
    BY <2>2, <2>3 DEF StageAt
<1>8. \A g \in Feeds \ {f} : StageAt(g)' = StageAt(g)
  <2>1. /\ \A p \in RunIds \ {q, r} : run'[p] = run[p]
        /\ run[q].status = "ABSENT"
    BY <1>2
  <2>2. run[r].feed = f /\ run'[r].feed = f /\ run'[q].feed = f
    BY <1>4, <1>5, <1>10
  <2> QED
    BY <2>1, <2>2, OtherStages
<1>9. UNCHANGED <<grantsOf, failuresOf>>
  BY DEF grantsOf, failuresOf, Loss
<1> QED
  BY <1>6, <1>7, <1>8, <1>9, StageIsLocal, StageValue DEF Cycle!Forfeit, grantsOf, failuresOf

\* Granting a lease grants the work in the abstract cycle.
LEMMA GrantingGrants ==
    ASSUME FullInv, Granting
    PROVE  \E f \in Feeds : Cycle!Grant(f)
<1>1. PICK l \in Lanes, r \in RunIds :
         LET f == run[r].feed
             token == lease[f].token + 1
         IN  /\ run[r].status = "QUEUED" /\ f \in Feeds /\ TokensLeft(f)
             /\ run'[r].status = "RUNNING"
             /\ run'[r].feed = f
             /\ \A q \in RunIds \ {r} : run'[q] = run[q]
             /\ lease'[f] = [owner |-> l, token |-> token, until |-> now + LeaseDuration]
             /\ \A g \in Feeds \ {f} : lease'[g] = lease[g]
  BY GrantEffect DEF FullInv, RunInv
<1>8. PICK f \in Feeds : f = run[r].feed
  BY <1>1
<1>2. StageAt(f) = "waiting"
  <2>1. Has(f, "QUEUED")
    BY <1>1, <1>8 DEF Has
  <2>2. ~Has(f, "RUNNING")
    BY <1>1, <1>8 DEF Has, FullInv, RunInv, OneActiveRun, Active
  <2> QED
    BY <2>1, <2>2 DEF StageAt
<1>3. StageAt(f)' = "working"
  BY <1>1, <1>8 DEF StageAt, Has
<1>4. \A g \in Feeds \ {f} : StageAt(g)' = StageAt(g)
  BY <1>1, <1>8, OtherStages
<1>5. grantsOf' = [grantsOf EXCEPT ![f] = grantsOf[f] + 1]
  <2>1. lease'[f].token = lease[f].token + 1
    BY <1>1, <1>8
  <2> QED
    BY <2>1, <1>1, <1>8 DEF grantsOf
<1>6. failuresOf' = failuresOf
  BY DEF failuresOf, Granting
<1>7. grantsOf[f] < MaxLeaseToken
  BY <1>1, <1>8 DEF grantsOf, TokensLeft
<1> QED
  BY <1>2, <1>3, <1>4, <1>5, <1>6, <1>7, StageIsLocal, StageValue
     DEF Cycle!Grant, grantsOf, failuresOf

\* A commit concludes the work in the abstract cycle.
LEMMA CommitConcludes ==
    ASSUME FullInv, Commit
    PROVE  \E f \in Feeds : Cycle!Conclude(f)
<1>1. PICK l \in Lanes, events \in SUBSET {"persisted", "completed"} :
         pc[l] = "commit" /\ Finish(l, events)
  BY DEF Commit
<1>a. claim[l] \in Claims /\ job[l] \in Jobs
  BY <1>1, CommitEffect DEF FullInv, RunInv
<1>b. PICK f \in Feeds, r \in RunIds : f = claim[l].feed /\ r = claim[l].run
  BY <1>a DEF Claims
<1>c. PICK n : n = sched'[f].failures
  OBVIOUS
<1>2. /\ run[r].status = "RUNNING" /\ run[r].feed = f
      /\ run'[r].status = job[l].status
      /\ run'[r].feed = f
      /\ \A q \in RunIds \ {r} : run'[q] = run[q]
      /\ lease'[f] = [lease[f] EXCEPT !.owner = NULL, !.until = NULL]
      /\ \A g \in Feeds \ {f} : lease'[g] = lease[g]
      /\ \A g \in Feeds \ {f} : sched'[g] = sched[g]
  BY <1>1, <1>b, <1>c, CommitEffect DEF FullInv, RunInv
<1>3. job[l].status \in Reported
  BY <1>a DEF Jobs
<1>4. StageAt(f) = "working"
  BY <1>2 DEF StageAt, Has
<1>5. StageAt(f)' = "idle"
  <2>1. \A q \in RunIds \ {r} : run[q].status \in Active => run[q].feed # f
    BY <1>2 DEF FullInv, RunInv, OneActiveRun, Active
  <2>2. ~Has(f, "RUNNING")' /\ ~Has(f, "QUEUED")'
    BY <2>1, <1>2, <1>3 DEF Has, Active, Reported
  <2> QED
    BY <2>2 DEF StageAt
<1>6. \A g \in Feeds \ {f} : StageAt(g)' = StageAt(g)
  BY <1>2, OtherStages
<1>7. grantsOf' = grantsOf
  <2>1. lease[f] \in Lease
    BY DEF FullInv, RunInv, TypeInv, TypeOK, Lease
  <2>2. lease'[f].token = lease[f].token
    BY <2>1, <1>2 DEF Lease
  <2>3. \A g \in Feeds : lease'[g].token = lease[g].token
    BY <2>2, <1>2
  <2> QED
    BY <2>3 DEF grantsOf
<1>8. failuresOf' = [failuresOf EXCEPT ![f] = n]
  <2>1. \A g \in Feeds : sched'[g].failures = IF g = f THEN n ELSE sched[g].failures
    BY <1>2, <1>b, <1>c
  <2> QED
    BY <2>1 DEF failuresOf
<1>9. n \in {0, IF failuresOf[f] < FailureCap THEN failuresOf[f] + 1 ELSE FailureCap}
  <2>1. n \in {0, MinOf(sched[f].failures + 1, FailureCap)}
    BY <1>1, <1>b, <1>c, CommitCounts
  <2>2. sched[f].failures \in Nat /\ FailureCap \in Nat
    BY CoreAssumption DEF FullInv, RunInv, TypeInv, TypeOK
  <2>3. failuresOf[f] = sched[f].failures
    BY DEF failuresOf
  <2> QED
    BY <2>1, <2>2, <2>3 DEF MinOf
<1>10. stageOf[f] = "working" /\ stageOf' = [stageOf EXCEPT ![f] = "idle"]
  BY <1>4, <1>5, <1>6, StageIsLocal, StageValue
<1> QED
  BY <1>7, <1>8, <1>9, <1>10 DEF Cycle!Conclude, grantsOf, failuresOf

\* Every step is a step or a stutter of the abstract cycle.
LEMMA CycleStep ==
    ASSUME FullInv, [Next]_vars
    PROVE  [Cycle!CycleNext]_(Cycle!cycleVars)
<1>1. CASE Stillness \/ Extension \/ Purging
  BY <1>1, QuietKinds DEF Cycle!cycleVars, grantsOf, failuresOf
<1>2. CASE Insertion \/ Loss \/ Granting \/ Commit
  BY <1>2, InsertionAsks, LossForfeits, GrantingGrants, CommitConcludes DEF Cycle!CycleNext
<1> QED
  BY <1>1, <1>2, StepKinds DEF FullInv, RunInv, Kinds

\* Runs, leases, fencing and recovery implement the abstract cycle of a feed.
THEOREM RefinesCycle == Spec => ImplementsCycle
<1>1. Init => Cycle!CycleInit
  <2> SUFFICES ASSUME Init PROVE Cycle!CycleInit
    OBVIOUS
  <2>1. \A r \in RunIds : run[r].status = "ABSENT"
    BY DEF Init, NoRun
  <2>2. stageOf = [f \in Feeds |-> "idle"]
    BY <2>1 DEF stageOf
  <2> QED
    BY <2>2 DEF Init, Cycle!CycleInit
<1>2. FullInv /\ [Next]_vars => [Cycle!CycleNext]_(Cycle!cycleVars)
  BY CycleStep
<1> QED
  BY <1>1, <1>2, AllSafe, PTL DEF Spec, ImplementsCycle, Cycle!CycleSpec

-----------------------------------------------------------------------------
(* Feeds and their subscribers *)

\* What an inserted run is about stays until the run is deleted.
LEMMA KeepsIdentity ==
    ASSUME RunInv, [Next]_vars, NEW r \in RunIds,
           run[r].status # "ABSENT", run'[r].status # "PURGED"
    PROVE  /\ run'[r].feed = run[r].feed
           /\ run'[r].key = run[r].key
           /\ run'[r].user = run[r].user
<1>1. CASE Stillness \/ Extension
  BY <1>1 DEF Stillness, Extension
<1>2. CASE Insertion
  <2>1. PICK q \in RunIds, f \in Feeds, t \in Triggers, k \in Keys, u \in Users \cup {NULL} :
           InsertRun(q, f, t, k, u)
    BY <1>2 DEF Insertion
  <2> QED
    BY <2>1, InsertEffect DEF RunInv
<1>3. CASE Loss
  <2>1. PICK q \in RunIds : run[q].status = "RUNNING" /\ Requeue(q, EndRun(q, "LEASE_LOST"))
    BY <1>3 DEF Loss
  <2>2. PICK p \in RunIds :
           /\ run[p].status = "ABSENT"
           /\ run'[q] = [run[q] EXCEPT !.status = "LEASE_LOST", !.done = now]
           /\ \A x \in RunIds \ {p, q} : run'[x] = run[x]
    BY <2>1, LossEffect
  <2>3. run[q] \in Run
    BY <2>1, ActiveIsRun DEF RunInv, TypeInv, TypeOK, RunTable, Active
  <2>4. run'[q].feed = run[q].feed /\ run'[q].key = run[q].key /\ run'[q].user = run[q].user
    BY <2>2, <2>3 DEF Run
  <2> QED
    BY <2>2, <2>4
<1>4. CASE Granting
  <2>1. PICK q \in RunIds, token \in Nat :
           /\ run[q].status = "QUEUED"
           /\ run'[q] = [run[q] EXCEPT !.status = "RUNNING", !.token = token]
           /\ \A x \in RunIds \ {q} : run'[x] = run[x]
    <3>1. PICK l \in Lanes, q \in RunIds :
             /\ run[q].status = "QUEUED" /\ run[q].feed \in Feeds
             /\ run'[q] = [run[q] EXCEPT !.status = "RUNNING", !.token = lease[run[q].feed].token + 1]
             /\ \A x \in RunIds \ {q} : run'[x] = run[x]
      BY <1>4, GrantEffect DEF RunInv
    <3>2. lease[run[q].feed].token + 1 \in Nat
      BY <3>1, CoreAssumption DEF RunInv, TypeInv, TypeOK
    <3> QED
      BY <3>1, <3>2
  <2>2. run[q] \in Run
    BY <2>1, ActiveIsRun DEF RunInv, TypeInv, TypeOK, RunTable, Active
  <2>3. run'[q].feed = run[q].feed /\ run'[q].key = run[q].key /\ run'[q].user = run[q].user
    BY <2>1, <2>2 DEF Run
  <2> QED
    BY <2>1, <2>3
<1>5. CASE Commit
  <2>1. PICK l \in Lanes, events \in SUBSET {"persisted", "completed"} :
           pc[l] = "commit" /\ Finish(l, events)
    BY <1>5 DEF Commit
  <2> DEFINE q == claim[l].run
             s == job[l].status
  <2>2. /\ claim[l] \in Claims /\ run[q].status = "RUNNING"
        /\ run'[q] = [run[q] EXCEPT !.status = s, !.done = now]
        /\ \A x \in RunIds \ {q} : run'[x] = run[x]
    BY <2>1, CommitEffect DEF RunInv
  <2> HIDE DEF q, s
  <2>3. q \in RunIds
    BY <2>2 DEF Claims, q
  <2>4. run[q] \in Run
    BY <2>2, <2>3, ActiveIsRun DEF RunInv, TypeInv, TypeOK, RunTable, Active
  <2>5. run'[q].feed = run[q].feed /\ run'[q].key = run[q].key /\ run'[q].user = run[q].user
    BY <2>2, <2>4 DEF Run
  <2> QED
    BY <2>2, <2>5
<1>6. CASE Purging
  BY <1>6, PurgeEffect
<1> QED
  BY <1>1, <1>2, <1>3, <1>4, <1>5, <1>6, StepKinds DEF RunInv, Kinds

\* Runs come from requests and from losses.
LEMMA InsertedHow ==
    ASSUME RunInv, [Next]_vars, NEW r \in RunIds,
           run[r].status = "ABSENT", run'[r].status # "ABSENT"
    PROVE  Insertion \/ Loss
<1>1. run'[r] # run[r] /\ run[r].status \notin {"QUEUED", "RUNNING"} \cup Terminal
  BY DEF Terminal, Reported
<1>2. ~Granting
  BY <1>1, GrantEffect DEF RunInv
<1>3. ~Commit
  BY <1>1, CommitEffect DEF RunInv, Commit
<1> QED
  BY <1>1, <1>2, <1>3, PurgeEffect, StepKinds DEF RunInv, Kinds, Stillness, Extension

\* orphaned_at follows the subscribers, and what belongs to a feed belongs to one
\* that is there.
MemberInv ==
    /\ OrphanIffUnsubscribed
    /\ \A f \in Feeds : subs[f] # {} => row[f] = "LIVE"
    /\ \A r \in RunIds : Exists(r) => run[r].feed \in Feeds /\ row[run[r].feed] = "LIVE"

\* The row of a feed and its subscribers change by a first or another subscriber,
\* one that leaves, and the deletion of the feed with its runs.
Joining ==
    \E u \in Users, f \in Feeds :
        /\ row' = [row EXCEPT ![f] = "LIVE"]
        /\ orphaned' = [orphaned EXCEPT ![f] = NULL]
        /\ subs' = [subs EXCEPT ![f] = @ \cup {u}]

Leaving ==
    \E u \in Users, f \in Feeds :
        /\ u \in subs[f] /\ UNCHANGED row
        /\ subs' = [subs EXCEPT ![f] = @ \ {u}]
        /\ orphaned' = IF subs[f] = {u} THEN [orphaned EXCEPT ![f] = now] ELSE orphaned

Deleting ==
    \E f \in Feeds :
        /\ subs[f] = {} /\ UNCHANGED <<orphaned, subs>>
        /\ row' = [row EXCEPT ![f] = "PURGED"]
        /\ run' = [r \in RunIds |-> IF Exists(r) /\ run[r].feed = f THEN NoRun("PURGED") ELSE run[r]]

\* No other step touches them.
LEMMA RowKinds ==
    ASSUME [Next]_vars
    PROVE  UNCHANGED <<row, orphaned, subs>> \/ Joining \/ Leaving \/ Deleting
<1> USE DEF tables, laneVars
<1>1. CASE User
  BY <1>1, ZenonT(60) DEF User, Subscribe, Unsubscribe, QueueSubscriptionRefresh, Joining, Leaving
<1>2. CASE Operator \/ Tick \/ UNCHANGED vars
  BY <1>2 DEF Operator, SetDisabled, Tick, vars
<1>3. ASSUME NEW l \in Lanes, Maintain(l)
      PROVE  UNCHANGED <<row, orphaned, subs>> \/ Deleting
  <2>1. ASSUME NEW f \in Feeds, NEW t \in 0 .. now, PurgeFeed(l, t, f)
        PROVE  UNCHANGED <<row, orphaned, subs>> \/ Deleting
    BY <2>1 DEF PurgeFeed, Purgeable, Deleting
  <2> QED
    BY <1>3, <2>1
       DEF Maintain, ScanExpired, ScanDue, ScanOrphans, PurgeHistory, PurgeEvents, RecoverRun, EnqueueRun
<1>4. ASSUME NEW l \in Lanes, Work(l)
      PROVE  UNCHANGED <<row, orphaned, subs>>
  BY <1>4 DEF Work, FindWork, ClaimRun, LoadContext, FetchDone, PersistFeed, CompleteNotModified,
              CompleteFailure, CommitRefused, Finish
<1>5. ASSUME NEW l \in Lanes, ExtendLease(l) \/ HeartbeatRefused(l) \/ Drop(l)
      PROVE  UNCHANGED <<row, orphaned, subs>>
  BY <1>5 DEF ExtendLease, HeartbeatRefused, Drop
<1> QED
  BY <1>1, <1>2, <1>3, <1>4, <1>5 DEF Next

\* A run is inserted for a feed that is there, before and after.
LEMMA InsertedForLive ==
    ASSUME RunInv, MemberInv, [Next]_vars, NEW r \in RunIds,
           run[r].status = "ABSENT", run'[r].status # "ABSENT"
    PROVE  run'[r].feed \in Feeds /\ row'[run'[r].feed] = "LIVE"
<1>1. Insertion \/ Loss
  BY InsertedHow
<1>2. CASE Insertion
  <2>1. PICK q \in RunIds, f \in Feeds, t \in Triggers, k \in Keys, u \in Users \cup {NULL} :
           /\ row'[f] = "LIVE" \/ (row' = row /\ subs[f] # {})
           /\ InsertRun(q, f, t, k, u)
    BY <1>2 DEF Insertion
  <2>2. run'[q] = Queued(f, t, k, u) /\ \A p \in RunIds \ {q} : run'[p] = run[p]
    BY <2>1, InsertEffect DEF RunInv
  <2>3. q = r
    BY <2>2
  <2>4. run'[r].feed = f
    BY <2>2, <2>3 DEF Queued
  <2> QED
    BY <2>1, <2>4 DEF MemberInv
<1>3. CASE Loss
  <2>1. PICK q \in RunIds : run[q].status = "RUNNING" /\ Requeue(q, EndRun(q, "LEASE_LOST"))
    BY <1>3 DEF Loss
  <2>2. PICK p \in RunIds :
           /\ run[p].status = "ABSENT"
           /\ run'[p] = Queued(run[q].feed, "RETRY", <<"r1", q>>, run[q].user)
           /\ \A x \in RunIds \ {p, q} : run'[x] = run[x]
    BY <2>1, LossEffect
  <2>3. r = p
    BY <2>1, <2>2
  <2>4. run'[r].feed = run[q].feed
    BY <2>2, <2>3 DEF Queued
  <2>5. run[q].feed \in Feeds /\ row[run[q].feed] = "LIVE"
    BY <2>1 DEF MemberInv, Exists, Gone
  <2>6. row'[run[q].feed] = "LIVE"
    <3>1. CASE Deleting
      <4>1. run'[r] = run[r]
        BY <3>1 DEF Deleting, Exists, Gone
      <4> QED
        BY <4>1
    <3>2. CASE Joining
      BY <2>5, <3>2 DEF Joining, RunInv, TypeInv, TypeOK
    <3> QED
      BY <2>5, <3>1, <3>2, RowKinds DEF Leaving
  <2> QED
    BY <2>4, <2>5, <2>6
<1> QED
  BY <1>1, <1>2, <1>3

\* No feed, no run.
LEMMA MemberInit == Init => MemberInv
BY DEF Init, MemberInv, OrphanIffUnsubscribed, Exists, NoRun, Gone

\* Every step keeps feeds, subscribers and runs together.
LEMMA MemberStep == RunInv /\ MemberInv /\ [Next]_vars => MemberInv'
<1> SUFFICES ASSUME RunInv, MemberInv, [Next]_vars
             PROVE  MemberInv'
  OBVIOUS
<1>1. /\ row \in [Feeds -> {"ABSENT", "LIVE", "PURGED"}] /\ orphaned \in [Feeds -> Instant]
      /\ subs \in [Feeds -> SUBSET Users] /\ now \in Nat /\ now # NULL
  BY CoreAssumption DEF RunInv, TypeInv, TypeOK
<1>2. /\ OrphanIffUnsubscribed'
      /\ \A f \in Feeds : subs'[f] # {} => row'[f] = "LIVE"
  BY <1>1, RowKinds DEF MemberInv, OrphanIffUnsubscribed, Joining, Leaving, Deleting
<1>3. ASSUME NEW r \in RunIds, Exists(r)'
      PROVE  run'[r].feed \in Feeds /\ row'[run'[r].feed] = "LIVE"
  <2>1. run'[r].status \notin {"ABSENT", "PURGED"}
    BY <1>3 DEF Exists, Gone
  <2>2. CASE run[r].status = "ABSENT"
    BY <2>1, <2>2, InsertedForLive
  <2>3. CASE run[r].status # "ABSENT"
    <3>1. run'[r].feed = run[r].feed
      BY <2>1, <2>3, KeepsIdentity
    <3>2. run[r].status # "PURGED"
      BY <2>1, ForwardStep DEF Terminal, Reported
    <3>3. run[r].feed \in Feeds /\ row[run[r].feed] = "LIVE"
      BY <2>3, <3>2 DEF MemberInv, Exists, Gone
    <3>4. row'[run[r].feed] = "LIVE"
      <4>1. CASE Deleting
        <5>1. PICK f \in Feeds :
                 /\ row' = [row EXCEPT ![f] = "PURGED"]
                 /\ run' = [q \in RunIds |-> IF Exists(q) /\ run[q].feed = f THEN NoRun("PURGED")
                                                                             ELSE run[q]]
          BY <4>1 DEF Deleting
        <5>2. run[r].feed # f
          BY <2>1, <2>3, <3>2, <5>1 DEF Exists, Gone, NoRun
        <5> QED
          BY <1>1, <3>3, <5>1, <5>2
      <4>2. CASE ~Deleting
        BY <1>1, <3>3, <4>2, RowKinds DEF Joining, Leaving
      <4> QED
        BY <4>1, <4>2
    <3> QED
      BY <3>1, <3>3, <3>4
  <2> QED
    BY <2>2, <2>3
<1> QED
  BY <1>2, <1>3 DEF MemberInv

\* Feeds, subscribers and runs stay together.
THEOREM MembersSafe == Spec => [](RunInv /\ MemberInv)
BY RunInit, RunStep, MemberInit, MemberStep, PTL DEF Spec

\* orphaned_at is set exactly while a feed has no subscriber.
THEOREM OrphansMarked == Spec => []OrphanIffUnsubscribed
<1>1. MemberInv => OrphanIffUnsubscribed
  BY DEF MemberInv
<1> QED
  BY <1>1, MembersSafe, PTL

\* A deleted feed leaves neither a subscription nor a run behind.
THEOREM PurgesWhole == Spec => []PurgeLeavesNothing
<1>1. MemberInv => PurgeLeavesNothing
  BY DEF MemberInv, PurgeLeavesNothing
<1> QED
  BY <1>1, MembersSafe, PTL

-----------------------------------------------------------------------------
(* The outbox *)

\* A run that is still there is reported as it ended, each way once; a run that is
\* yet to be inserted is not reported.
OutboxInv ==
    /\ \A r \in RunIds : Exists(r) =>
          /\ (\E e \in outbox : e[1] = r /\ e[2] = "completed") <=> (run[r].status \in Reported)
          /\ (\E e \in outbox : e[1] = r /\ e[2] = "persisted")
                <=> (run[r].status \in {"SUCCESS", "PARTIAL"})
    /\ \A e \in outbox : run[e[1]].status # "ABSENT"
    /\ \A d, e \in outbox : d[1] = e[1] /\ d[2] = e[2] => d = e

\* A step that is no commit reports nothing, and forgets no run that is there.
Sweeping ==
    /\ outbox' \subseteq outbox
    /\ \A e \in outbox \ outbox' : ~Exists(e[1])'

\* The outbox is written by commits and swept by retention.
LEMMA OutboxKinds ==
    ASSUME TypeInv, [Next]_vars
    PROVE  Commit \/ Sweeping
<1> USE DEF tables, laneVars
<1>1. CASE User
  BY <1>1, ZenonT(60) DEF User, Subscribe, Unsubscribe, QueueSubscriptionRefresh, Sweeping
<1>2. CASE Operator \/ Tick \/ UNCHANGED vars
  BY <1>2 DEF Operator, SetDisabled, Tick, vars, Sweeping
<1>3. ASSUME NEW l \in Lanes, Maintain(l)
      PROVE  Sweeping
  <2>1. CASE PurgeHistory(l)
    <3> DEFINE old == {r \in RunIds : /\ run[r].status \in Terminal
                                      /\ run[r].queued + HistoryAge < now
                                      /\ run[r].done + HistoryAge < now}
    <3>1. /\ run' = [r \in RunIds |-> IF r \in old THEN NoRun("PURGED") ELSE run[r]]
          /\ outbox' = {e \in outbox : e[1] \notin old}
      BY <2>1 DEF PurgeHistory
    <3>2. \A r \in old : ~Exists(r)'
      BY <3>1 DEF Exists, NoRun, Gone
    <3> QED
      BY <3>1, <3>2 DEF Sweeping
  <2>2. CASE PurgeEvents(l)
    <3>1. /\ outbox' = outbox \ {e \in outbox : ~Exists(e[1]) /\ e[3] + HistoryAge < now}
          /\ UNCHANGED run
      BY <2>2 DEF PurgeEvents
    <3> QED
      BY <3>1 DEF Sweeping, Exists
  <2>3. ASSUME NEW f \in Feeds, NEW r \in RunIds, RecoverRun(l, r, f)
        PROVE  Sweeping
    BY <2>3 DEF RecoverRun, Sweeping
  <2>4. ASSUME NEW f \in Feeds, NEW t \in 0 .. now, EnqueueRun(l, t, f) \/ PurgeFeed(l, t, f)
        PROVE  Sweeping
    BY <2>4 DEF EnqueueRun, PurgeFeed, Sweeping
  <2>5. CASE ScanExpired(l) \/ ScanDue(l) \/ ScanOrphans(l)
    BY <2>5 DEF ScanExpired, ScanDue, ScanOrphans, Sweeping
  <2> QED
    BY <1>3, <2>1, <2>2, <2>3, <2>4, <2>5 DEF Maintain
<1>4. ASSUME NEW l \in Lanes, Work(l)
      PROVE  Commit \/ Sweeping
  <2>1. CASE PersistFeed(l) \/ CompleteNotModified(l) \/ CompleteFailure(l)
    BY <2>1 DEF PersistFeed, CompleteNotModified, CompleteFailure, Commit
  <2>2. CASE FindWork(l) \/ LoadContext(l) \/ CommitRefused(l)
    BY <2>2 DEF FindWork, LoadContext, CommitRefused, Sweeping
  <2>3. ASSUME NEW s \in Outcomes, FetchDone(l, s)
        PROVE  Sweeping
    BY <2>3 DEF FetchDone, Sweeping
  <2>4. ASSUME NEW r \in RunIds, NEW f \in Feeds, ClaimRun(l, r, f)
        PROVE  Sweeping
    BY <2>4 DEF ClaimRun, Sweeping
  <2> QED
    BY <1>4, <2>1, <2>2, <2>3, <2>4 DEF Work
<1>5. ASSUME NEW l \in Lanes, ExtendLease(l) \/ HeartbeatRefused(l) \/ Drop(l)
      PROVE  Sweeping
  BY <1>5 DEF ExtendLease, HeartbeatRefused, Drop, Sweeping
<1> QED
  BY <1>1, <1>2, <1>3, <1>4, <1>5 DEF Next

\* A running run ends otherwise than by a commit only when it is lost.
LEMMA ReportedByCommit ==
    ASSUME RunInv, [Next]_vars, NEW r \in RunIds,
           run[r].status = "RUNNING", run'[r].status \in Reported
    PROVE  Commit
<1>1. run'[r] # run[r]
  BY DEF Reported
<1>2. CASE Insertion
  BY <1>1, <1>2, InsertEffect DEF Insertion, RunInv
<1>3. CASE Loss
  <2>1. PICK q \in RunIds : run[q].status = "RUNNING" /\ Requeue(q, EndRun(q, "LEASE_LOST"))
    BY <1>3 DEF Loss
  <2>2. PICK p \in RunIds :
           /\ run[p].status = "ABSENT"
           /\ run'[q] = [run[q] EXCEPT !.status = "LEASE_LOST", !.done = now]
           /\ \A x \in RunIds \ {p, q} : run'[x] = run[x]
    BY <2>1, LossEffect
  <2>3. run'[q].status = "LEASE_LOST"
    BY <2>1, <2>2, ActiveIsRun DEF RunInv, TypeInv, TypeOK, RunTable, Active, Run
  <2> QED
    BY <1>1, <2>2, <2>3 DEF Reported
<1>4. CASE Granting
  BY <1>1, <1>4, GrantEffect DEF RunInv
<1>5. CASE Purging
  BY <1>1, <1>5, PurgeEffect DEF Terminal, Reported
<1> QED
  BY <1>1, <1>2, <1>3, <1>4, <1>5, StepKinds DEF RunInv, Kinds, Stillness, Extension

\* The empty outbox reports nothing, and there is nothing to report.
LEMMA OutboxInit == Init => OutboxInv
BY DEF Init, OutboxInv, Exists, NoRun, Gone

\* A commit reports the run it ends, which was not reported before.
LEMMA CommitReports == RunInv /\ OutboxInv /\ [Next]_vars /\ Commit => OutboxInv'
<1> SUFFICES ASSUME RunInv, OutboxInv, Commit, [Next]_vars
             PROVE  OutboxInv'
  OBVIOUS
<1>1. PICK l \in Lanes, events \in SUBSET {"persisted", "completed"} :
         /\ pc[l] = "commit" /\ Finish(l, events)
         /\ "completed" \in events
         /\ "persisted" \in events <=> job[l].status \in {"SUCCESS", "PARTIAL"}
  BY DEF Commit
<1> DEFINE c == claim[l].run
           s == job[l].status
<1>2. /\ c \in RunIds /\ s \in Reported /\ run[c].status = "RUNNING"
      /\ run'[c].status = s
      /\ \A q \in RunIds \ {c} : run'[q] = run[q]
  BY <1>1, CommitEffect DEF RunInv, Claims, Jobs
<1>3. outbox' = outbox \cup {<<c, e, now>> : e \in events}
  BY <1>1 DEF Finish
<1> HIDE DEF c, s
<1>4. outbox \subseteq RunIds \X {"persisted", "completed"} \X Nat
  BY DEF RunInv, TypeInv, TypeOK
<1>5. \A e \in outbox : e[1] # c
  <2>1. Exists(c) /\ run[c].status \notin Reported \cup {"SUCCESS", "PARTIAL"}
    BY <1>2 DEF Exists, Gone, Reported
  <2>2. ASSUME NEW e \in outbox, e[1] = c PROVE FALSE
    <3>1. e[2] \in {"persisted", "completed"}
      BY <1>4
    <3> QED
      BY <1>2, <2>1, <2>2, <3>1 DEF OutboxInv
  <2> QED
    BY <2>2
<1>6. \A e \in outbox' : IF e[1] = c THEN e[2] \in events /\ e[3] = now /\ e = <<c, e[2], now>>
                                     ELSE e \in outbox
  BY <1>3, <1>5
<1>7. ASSUME NEW r \in RunIds, Exists(r)'
      PROVE  /\ (\E e \in outbox' : e[1] = r /\ e[2] = "completed") <=> (run'[r].status \in Reported)
             /\ (\E e \in outbox' : e[1] = r /\ e[2] = "persisted")
                   <=> (run'[r].status \in {"SUCCESS", "PARTIAL"})
  <2>1. CASE r = c
    <3> DEFINE Event(k) == <<c, k, now>>
    <3>1. \A k \in events : Event(k) \in outbox' /\ Event(k)[1] = c /\ Event(k)[2] = k
      BY <1>3
    <3> HIDE DEF Event
    <3>2. \E e \in outbox' : e[1] = c /\ e[2] = "completed"
      BY <1>1, <3>1
    <3>3. (\E e \in outbox' : e[1] = c /\ e[2] = "persisted") <=> "persisted" \in events
      BY <1>6, <3>1
    <3> QED
      BY <2>1, <3>2, <3>3, <1>1, <1>2 DEF s
  <2>2. CASE r # c
    <3>1. run'[r] = run[r] /\ Exists(r)
      BY <1>2, <1>7, <2>2 DEF Exists
    <3>2. \A e : e[1] = r => (e \in outbox' <=> e \in outbox)
      BY <1>3, <1>6, <2>2
    <3> QED
      BY <3>1, <3>2 DEF OutboxInv
  <2> QED
    BY <2>1, <2>2
<1>8. \A e \in outbox' : run'[e[1]].status # "ABSENT"
  BY <1>2, <1>4, <1>6 DEF OutboxInv, Reported
<1>9. \A d, e \in outbox' : d[1] = e[1] /\ d[2] = e[2] => d = e
  BY <1>6 DEF OutboxInv
<1> QED
  BY <1>7, <1>8, <1>9 DEF OutboxInv

\* Any other step leaves what is reported of the runs that stay.
LEMMA SweepingKeeps == RunInv /\ OutboxInv /\ [Next]_vars /\ ~Commit => OutboxInv'
<1> SUFFICES ASSUME RunInv, OutboxInv, ~Commit, [Next]_vars
             PROVE  OutboxInv'
  OBVIOUS
<1>1. Sweeping
  BY OutboxKinds DEF RunInv
<1>2. ASSUME NEW r \in RunIds
      PROVE  /\ run'[r].status = "ABSENT" => run[r].status = "ABSENT"
             /\ Exists(r)' =>
                   \/ run[r].status = "ABSENT" /\ run'[r].status = "QUEUED"
                   \/ /\ Exists(r)
                      /\ run'[r].status \in Reported <=> run[r].status \in Reported
                      /\ run'[r].status \in {"SUCCESS", "PARTIAL"}
                            <=> run[r].status \in {"SUCCESS", "PARTIAL"}
  BY ForwardStep, ReportedByCommit DEF Exists, Gone, Terminal, Reported
<1>3. outbox \subseteq RunIds \X {"persisted", "completed"} \X Nat
  BY DEF RunInv, TypeInv, TypeOK
<1>4. \A e \in outbox : run[e[1]].status # "ABSENT"
  BY DEF OutboxInv
<1>5. ASSUME NEW r \in RunIds, Exists(r)'
      PROVE  /\ (\E e \in outbox' : e[1] = r /\ e[2] = "completed") <=> (run'[r].status \in Reported)
             /\ (\E e \in outbox' : e[1] = r /\ e[2] = "persisted")
                   <=> (run'[r].status \in {"SUCCESS", "PARTIAL"})
  <2>1. \A e : e[1] = r => (e \in outbox' <=> e \in outbox)
    BY <1>1, <1>5 DEF Sweeping
  <2>2. CASE run[r].status = "ABSENT" /\ run'[r].status = "QUEUED"
    BY <1>4, <2>1, <2>2 DEF Reported
  <2>3. CASE /\ Exists(r)
             /\ run'[r].status \in Reported <=> run[r].status \in Reported
             /\ run'[r].status \in {"SUCCESS", "PARTIAL"}
                   <=> run[r].status \in {"SUCCESS", "PARTIAL"}
    BY <2>1, <2>3 DEF OutboxInv
  <2> QED
    BY <1>2, <1>5, <2>2, <2>3
<1>6. \A e \in outbox' : run'[e[1]].status # "ABSENT"
  BY <1>1, <1>2, <1>3, <1>4 DEF Sweeping
<1>7. \A d, e \in outbox' : d[1] = e[1] /\ d[2] = e[2] => d = e
  BY <1>1 DEF Sweeping, OutboxInv
<1> QED
  BY <1>5, <1>6, <1>7 DEF OutboxInv

\* The outbox reports the runs in every state.
THEOREM OutboxSafe == Spec => [](RunInv /\ OutboxInv)
BY RunInit, RunStep, OutboxInit, CommitReports, SweepingKeeps, PTL DEF Spec

\* An event of each kind at most makes as many events as kinds.
LEMMA EventsCounted ==
    ASSUME NEW E, IsFiniteSet({e[2] : e \in E}), \A d, e \in E : d[2] = e[2] => d = e
    PROVE  Cardinality(E) = Cardinality({e[2] : e \in E})
<1> DEFINE K == {e[2] : e \in E}
           g == [e \in E |-> e[2]]
<1>1. g \in Injection(E, K) /\ g \in Surjection(E, K)
  BY DEF Injection, Surjection, IsInjective
<1> QED
  BY <1>1, FS_Injection

\* The outbox reports an attempt if and only if it was committed, once.
THEOREM OutboxFaithful == Spec => []OutboxMatchesRuns
<1>1. ASSUME RunInv, OutboxInv
      PROVE  OutboxMatchesRuns
  <2> SUFFICES ASSUME NEW r \in RunIds, Exists(r)
               PROVE  LET kinds == {e[2] : e \in {x \in outbox : x[1] = r}}
                      IN  /\ ("completed" \in kinds) <=> (run[r].status \in Reported)
                          /\ ("persisted" \in kinds) <=> (run[r].status \in {"SUCCESS", "PARTIAL"})
                          /\ Cardinality({e \in outbox : e[1] = r}) = Cardinality(kinds)
    BY DEF OutboxMatchesRuns
  <2> DEFINE E == {e \in outbox : e[1] = r}
             kinds == {e[2] : e \in E}
  <2>1. kinds \subseteq {"persisted"} \cup {"completed"}
    BY <1>1 DEF RunInv, TypeInv, TypeOK
  <2>2. IsFiniteSet(kinds)
    <3>1. IsFiniteSet({"persisted"} \cup {"completed"})
      BY FS_Singleton, FS_AddElement
    <3> QED
      BY <2>1, <3>1, FS_Subset
  <2>3. \A d, e \in E : d[2] = e[2] => d = e
    BY <1>1 DEF OutboxInv
  <2>4. Cardinality(E) = Cardinality(kinds)
    BY <2>2, <2>3, EventsCounted
  <2>5. /\ ("completed" \in kinds) <=> (run[r].status \in Reported)
        /\ ("persisted" \in kinds) <=> (run[r].status \in {"SUCCESS", "PARTIAL"})
    BY <1>1 DEF OutboxInv
  <2> QED
    BY <2>4, <2>5
<1> QED
  BY <1>1, OutboxSafe, PTL

-----------------------------------------------------------------------------
(* The limit of a user's active runs *)

\* The runs a step takes in: an inserted one, or none.
LEMMA ActiveBefore ==
    ASSUME RunInv, [Next]_vars, NEW u \in Users, NEW r \in RunIds,
           r \in ActiveRunsOf(u)', run[r].status # "ABSENT"
    PROVE  r \in ActiveRunsOf(u)
<1>1. run'[r].status \in Active /\ run'[r].user = u
  BY DEF ActiveRunsOf
<1>2. run'[r].user = run[r].user
  BY <1>1, KeepsIdentity DEF Active
<1>3. run[r].status \in Active
  BY <1>1, ForwardStep DEF Active, Terminal, Reported
<1> QED
  BY <1>1, <1>2, <1>3 DEF ActiveRunsOf

\* The ids of runs are bounded.
LEMMA RunsFinite == IsFiniteSet(RunIds)
<1>1. 1 \in Int /\ MaxRuns \in Int
  BY CoreAssumption
<1> QED
  BY <1>1, FS_Interval DEF RunIds

\* The runs of a user can be counted.
LEMMA ActiveFinite ==
    ASSUME NEW u
    PROVE  IsFiniteSet(ActiveRunsOf(u)) /\ Cardinality(ActiveRunsOf(u)) \in Nat
<1>1. ActiveRunsOf(u) \subseteq RunIds
  BY DEF ActiveRunsOf
<1> QED
  BY <1>1, RunsFinite, FS_Subset, FS_CardinalityType

\* No user is over the limit before a run is queued.
LEMMA LimitInit == Init => ActiveRunLimit
<1> SUFFICES ASSUME Init, NEW u \in Users
             PROVE  Cardinality(ActiveRunsOf(u)) <= MaxActivePerUser
  BY DEF ActiveRunLimit
<1>1. ActiveRunsOf(u) = {}
  BY DEF Init, ActiveRunsOf, NoRun, Active
<1> QED
  BY <1>1, FS_EmptySet, CoreAssumption

\* A request counts before it inserts; a retry takes the place of the lost run.
LEMMA LimitStep == RunInv /\ ActiveRunLimit /\ [Next]_vars => ActiveRunLimit'
<1> SUFFICES ASSUME RunInv, ActiveRunLimit, [Next]_vars, NEW u \in Users
             PROVE  Cardinality(ActiveRunsOf(u)') <= MaxActivePerUser
  BY DEF ActiveRunLimit
<1> DEFINE A == ActiveRunsOf(u)
           B == ActiveRunsOf(u)'
<1>1. IsFiniteSet(A) /\ Cardinality(A) \in Nat /\ Cardinality(A) <= MaxActivePerUser
  BY ActiveFinite DEF ActiveRunLimit
<1>2. IsFiniteSet(B) /\ Cardinality(B) \in Nat
  <2>1. B \subseteq RunIds
    BY DEF ActiveRunsOf
  <2> QED
    BY <2>1, RunsFinite, FS_Subset, FS_CardinalityType
<1>3. MaxActivePerUser \in Nat /\ u # NULL
  BY CoreAssumption
<1>4. \A r \in B : r \in RunIds /\ run[r].status # "ABSENT" => r \in A
  BY ActiveBefore
<1>5. B \subseteq RunIds
  BY DEF ActiveRunsOf
<1>6. CASE Insertion
  <2>1. PICK r \in RunIds, f \in Feeds, t \in Triggers, k \in Keys, v \in Users \cup {NULL} :
           /\ v # NULL => Cardinality(ActiveRunsOf(v)) < MaxActivePerUser
           /\ InsertRun(r, f, t, k, v)
    BY <1>6 DEF Insertion
  <2>2. /\ run'[r] = Queued(f, t, k, v)
        /\ \A q \in RunIds \ {r} : run'[q] = run[q]
    BY <2>1, InsertEffect DEF RunInv
  <2>3. \A q \in B : q # r => q \in A
    BY <2>2 DEF ActiveRunsOf
  <2>4. CASE v = u
    <3>1. B \subseteq A \cup {r}
      BY <2>3
    <3>2. Cardinality(A) < MaxActivePerUser
      BY <1>3, <2>1, <2>4
    <3>3. IsFiniteSet(A \cup {r}) /\ Cardinality(A \cup {r}) <= Cardinality(A) + 1
      <4>1. /\ IsFiniteSet(A \cup {r})
            /\ Cardinality(A \cup {r}) = IF r \in A THEN Cardinality(A) ELSE Cardinality(A) + 1
        BY <1>1, FS_AddElement
      <4> QED
        BY <1>1, <4>1
    <3>4. Cardinality(B) <= Cardinality(A \cup {r}) /\ Cardinality(A \cup {r}) \in Nat
      BY <3>1, <3>3, FS_Subset, FS_CardinalityType
    <3> QED
      BY <1>1, <1>2, <1>3, <3>2, <3>3, <3>4
  <2>5. CASE v # u
    <3>1. run'[r].user = v
      BY <2>2 DEF Queued
    <3>2. r \notin B
      BY <2>5, <3>1 DEF ActiveRunsOf
    <3>3. B \subseteq A
      BY <2>3, <3>2
    <3>4. Cardinality(B) <= Cardinality(A)
      BY <1>1, <3>3, FS_Subset
    <3> QED
      BY <1>1, <1>2, <1>3, <3>4
  <2> QED
    BY <2>4, <2>5
<1>7. CASE Loss
  <2>1. PICK r \in RunIds : run[r].status = "RUNNING" /\ Requeue(r, EndRun(r, "LEASE_LOST"))
    BY <1>7 DEF Loss
  <2>2. PICK q \in RunIds :
           /\ run[q].status = "ABSENT"
           /\ run'[q] = Queued(run[r].feed, "RETRY", <<"r1", r>>, run[r].user)
           /\ run'[r] = [run[r] EXCEPT !.status = "LEASE_LOST", !.done = now]
           /\ \A p \in RunIds \ {q, r} : run'[p] = run[p]
    BY <2>1, LossEffect
  <2>3. run'[r].status = "LEASE_LOST" /\ run'[q].user = run[r].user
    <3>1. run[r] \in Run
      BY <2>1, ActiveIsRun DEF RunInv, TypeInv, TypeOK, RunTable, Active
    <3> QED
      BY <2>2, <3>1 DEF Run, Queued
  <2>4. r \notin B /\ \A p \in B : p # q => p \in A \ {r}
    <3>1. r \notin B
      BY <2>3 DEF ActiveRunsOf, Active
    <3>2. \A p \in RunIds \ {q, r} : p \in B => p \in A
      BY <2>2 DEF ActiveRunsOf
    <3> QED
      BY <1>5, <3>1, <3>2
  <2>5. CASE run[r].user = u
    <3>1. r \in A
      BY <2>1, <2>5 DEF ActiveRunsOf, Active
    <3>2. B \subseteq (A \ {r}) \cup {q}
      BY <2>4
    <3>3. IsFiniteSet(A \ {r}) /\ Cardinality(A \ {r}) = Cardinality(A) - 1
      BY <1>1, <3>1, FS_RemoveElement
    <3>4. IsFiniteSet((A \ {r}) \cup {q}) /\ Cardinality((A \ {r}) \cup {q}) <= Cardinality(A)
      <4>1. Cardinality((A \ {r}) \cup {q}) = IF q \in A \ {r} THEN Cardinality(A \ {r})
                                                              ELSE Cardinality(A \ {r}) + 1
        BY <3>3, FS_AddElement
      <4>2. IsFiniteSet((A \ {r}) \cup {q})
        BY <3>3, FS_AddElement
      <4> QED
        BY <1>1, <3>3, <4>1, <4>2
    <3>5. Cardinality(B) <= Cardinality((A \ {r}) \cup {q}) /\ Cardinality((A \ {r}) \cup {q}) \in Nat
      BY <3>2, <3>4, FS_Subset, FS_CardinalityType
    <3> QED
      BY <1>1, <1>2, <1>3, <3>4, <3>5
  <2>6. CASE run[r].user # u
    <3>1. q \notin B
      BY <2>3, <2>6 DEF ActiveRunsOf
    <3>2. B \subseteq A
      BY <2>4, <3>1
    <3>3. Cardinality(B) <= Cardinality(A)
      BY <1>1, <3>2, FS_Subset
    <3> QED
      BY <1>1, <1>2, <1>3, <3>3
  <2> QED
    BY <2>5, <2>6
<1>8. CASE ~Insertion /\ ~Loss
  <2>1. B \subseteq A
    <3>1. ASSUME NEW r \in B, run[r].status = "ABSENT"
          PROVE  FALSE
      <4>1. run'[r] # run[r] /\ run[r].status \notin {"QUEUED", "RUNNING"} \cup Terminal /\ r \in RunIds
        BY <3>1 DEF Terminal, Reported, ActiveRunsOf, Active
      <4>2. ~Granting
        BY <4>1, GrantEffect DEF RunInv
      <4>3. ~Commit
        BY <4>1, CommitEffect DEF RunInv, Commit
      <4> QED
        BY <1>8, <4>1, <4>2, <4>3, PurgeEffect, StepKinds DEF RunInv, Kinds, Stillness, Extension
    <3> QED
      BY <1>4, <1>5, <3>1
  <2>2. Cardinality(B) <= Cardinality(A)
    BY <1>1, <2>1, FS_Subset
  <2> QED
    BY <1>1, <1>2, <1>3, <2>2
<1> QED
  BY <1>6, <1>7, <1>8

\* No interleaving of requests and recoveries takes a user over the limit.
THEOREM LimitKept == Spec => []ActiveRunLimit
<1>1. Spec => [](RunInv /\ ActiveRunLimit)
  BY RunInit, RunStep, LimitInit, LimitStep, PTL DEF Spec
<1> QED
  BY <1>1, PTL

-----------------------------------------------------------------------------
(* The retry of a lost run *)

RetriesOf(r) == {q \in RunIds : Exists(q) /\ run[q].key = <<"r1", r>>}

\* Ids are given out without a gap, and a lost run has its one retry behind it,
\* which may be deleted before it.
LostInv ==
    /\ \A q, r \in RunIds : q < r /\ run[r].status # "ABSENT" => run[q].status # "ABSENT"
    /\ \A r \in RunIds : run[r].status = "LEASE_LOST" =>
          \/ \E q \in RunIds : /\ q > r /\ RetriesOf(r) = {q}
                               /\ run[q].feed = run[r].feed /\ run[q].user = run[r].user
          \/ RetriesOf(r) = {} /\ \E q \in RunIds : q > r /\ run[q].status = "PURGED"

\* Only recovery takes a run for lost.
LEMMA LostByRecovery ==
    ASSUME RunInv, [Next]_vars, NEW r \in RunIds,
           run[r].status # "LEASE_LOST", run'[r].status = "LEASE_LOST"
    PROVE  /\ run[r].status = "RUNNING"
           /\ \E q \in RunIds :
                 /\ Fresh(q) /\ run[q].status = "ABSENT"
                 /\ run'[q] = Queued(run[r].feed, "RETRY", <<"r1", r>>, run[r].user)
                 /\ run'[r] = [run[r] EXCEPT !.status = "LEASE_LOST", !.done = now]
                 /\ \A p \in RunIds \ {q, r} : run'[p] = run[p]
<1>1. run[r].status = "RUNNING" /\ run'[r] # run[r]
  BY ForwardStep DEF Terminal, Reported
<1>2. Loss
  <2>1. ~Insertion
    BY <1>1, InsertEffect DEF Insertion, RunInv
  <2>2. ~Granting
    BY <1>1, GrantEffect DEF RunInv
  <2>3. ~Commit
    BY <1>1, CommitEffect, ZenonT(60) DEF RunInv, Commit, Jobs, Reported
  <2>4. ~Purging
    BY <1>1, PurgeEffect
  <2> QED
    BY <1>1, <2>1, <2>2, <2>3, <2>4, StepKinds DEF RunInv, Kinds, Stillness, Extension
<1>3. PICK p \in RunIds : run[p].status = "RUNNING" /\ Requeue(p, EndRun(p, "LEASE_LOST"))
  BY <1>2 DEF Loss
<1>4. PICK q \in RunIds :
         /\ Fresh(q) /\ run[q].status = "ABSENT"
         /\ run'[q] = Queued(run[p].feed, "RETRY", <<"r1", p>>, run[p].user)
         /\ run'[p] = [run[p] EXCEPT !.status = "LEASE_LOST", !.done = now]
         /\ \A x \in RunIds \ {q, p} : run'[x] = run[x]
  BY <1>3, LossEffect
<1>5. p = r
  BY <1>1, <1>4
<1> QED
  BY <1>1, <1>4, <1>5

\* Nothing is lost yet.
LEMMA LostInit == Init => LostInv
BY DEF Init, LostInv, NoRun

\* A step keeps the chain of retries.
LEMMA LostStep == RunInv /\ LostInv /\ [Next]_vars => LostInv'
<1> SUFFICES ASSUME RunInv, LostInv, [Next]_vars
             PROVE  LostInv'
  OBVIOUS
<1> USE DEF Gone
<1>1. RunIds \subseteq Int
  BY CoreAssumption DEF RunIds
<1>2. ASSUME NEW q \in RunIds, NEW r \in RunIds, q < r, run'[r].status # "ABSENT"
      PROVE  run'[q].status # "ABSENT"
  <2>1. CASE run[r].status # "ABSENT"
    BY <1>2, <2>1, ForwardStep DEF LostInv, Terminal, Reported
  <2>2. CASE run[r].status = "ABSENT"
    <3>1. Fresh(r)
      <4>1. CASE Insertion
        <5>1. PICK p \in RunIds, f \in Feeds, t \in Triggers, k \in Keys, u \in Users \cup {NULL} :
                 InsertRun(p, f, t, k, u)
          BY <4>1 DEF Insertion
        <5>2. \A x \in RunIds \ {p} : run'[x] = run[x]
          BY <5>1, InsertEffect DEF RunInv
        <5> QED
          BY <1>2, <2>2, <5>1, <5>2 DEF InsertRun
      <4>2. CASE Loss
        <5>1. PICK s \in RunIds : run[s].status = "RUNNING" /\ Requeue(s, EndRun(s, "LEASE_LOST"))
          BY <4>2 DEF Loss
        <5>2. PICK p \in RunIds : /\ Fresh(p)
                                  /\ \A x \in RunIds \ {p, s} : run'[x] = run[x]
          BY <5>1, LossEffect
        <5> QED
          BY <1>2, <2>2, <5>1, <5>2
      <4> QED
        BY <1>2, <2>2, <4>1, <4>2, InsertedHow
    <3>2. run[q].status # "ABSENT"
      BY <1>2, <3>1 DEF Fresh
    <3> QED
      BY <3>2, ForwardStep DEF Terminal, Reported
  <2> QED
    BY <2>1, <2>2
<1>3. ASSUME NEW r \in RunIds, run[r].status = "LEASE_LOST", run'[r].status = "LEASE_LOST"
      PROVE  \/ \E q \in RunIds : /\ q > r /\ RetriesOf(r)' = {q}
                                  /\ run'[q].feed = run'[r].feed /\ run'[q].user = run'[r].user
             \/ RetriesOf(r)' = {} /\ \E q \in RunIds : q > r /\ run'[q].status = "PURGED"
  <2>1. run'[r] = run[r]
    BY <1>3, ForwardStep
  <2>2. \A q \in RunIds : run[q].status = "PURGED" => run'[q].status = "PURGED"
    BY ForwardStep DEF Terminal, Reported
  <2>3. ASSUME NEW q \in RetriesOf(r)'
        PROVE  q \in RetriesOf(r)
    <3>1. q \in RunIds /\ run'[q].status \notin Gone /\ run'[q].key = <<"r1", r>>
      BY DEF RetriesOf, Exists
    <3>2. run[q].status # "ABSENT"
      <4>1. SUFFICES ASSUME run[q].status = "ABSENT" PROVE FALSE
        OBVIOUS
      <4>2. CASE Insertion
        <5>1. PICK p \in RunIds, f \in Feeds, t \in Triggers, k \in Keys, u \in Users \cup {NULL} :
                 k[1] # "r1" /\ InsertRun(p, f, t, k, u)
          BY <4>2 DEF Insertion
        <5>2. /\ run'[p] = Queued(f, t, k, u)
              /\ \A x \in RunIds \ {p} : run'[x] = run[x]
          BY <5>1, InsertEffect DEF RunInv
        <5>3. q = p
          BY <3>1, <4>1, <5>2
        <5>4. run'[q].key = k
          BY <5>2, <5>3 DEF Queued
        <5> QED
          BY <3>1, <5>1, <5>4
      <4>3. CASE Loss
        <5>1. PICK s \in RunIds : run[s].status = "RUNNING" /\ Requeue(s, EndRun(s, "LEASE_LOST"))
          BY <4>3 DEF Loss
        <5>2. PICK p \in RunIds :
                 /\ run'[p] = Queued(run[s].feed, "RETRY", <<"r1", s>>, run[s].user)
                 /\ \A x \in RunIds \ {p, s} : run'[x] = run[x]
          BY <5>1, LossEffect
        <5>3. q = p
          BY <3>1, <4>1, <5>1, <5>2
        <5>4. run'[q].key = <<"r1", s>>
          BY <5>2, <5>3 DEF Queued
        <5> QED
          BY <1>3, <3>1, <5>1, <5>4
      <4> QED
        BY <3>1, <4>1, <4>2, <4>3, InsertedHow
    <3>3. run[q].key = <<"r1", r>>
      BY <3>1, <3>2, KeepsIdentity
    <3>4. run[q].status # "PURGED"
      BY <2>2, <3>1
    <3> QED
      BY <3>1, <3>2, <3>3, <3>4 DEF RetriesOf, Exists
  <2>4. CASE \E q \in RunIds : /\ q > r /\ RetriesOf(r) = {q}
                               /\ run[q].feed = run[r].feed /\ run[q].user = run[r].user
    <3>1. PICK q \in RunIds : /\ q > r /\ RetriesOf(r) = {q}
                              /\ run[q].feed = run[r].feed /\ run[q].user = run[r].user
      BY <2>4
    <3>2. run[q].status \notin Gone /\ run[q].key = <<"r1", r>>
      BY <3>1 DEF RetriesOf, Exists
    <3>3. CASE run'[q].status = "PURGED"
      <4>1. q \notin RetriesOf(r)'
        BY <3>3 DEF RetriesOf, Exists
      <4>2. RetriesOf(r)' = {}
        BY <2>3, <3>1, <4>1
      <4> QED
        BY <3>1, <3>3, <4>2
    <3>4. CASE run'[q].status # "PURGED"
      <4>1. /\ run'[q].feed = run[q].feed /\ run'[q].key = run[q].key
            /\ run'[q].user = run[q].user
        BY <3>2, <3>4, KeepsIdentity
      <4>2. run'[q].status # "ABSENT"
        BY <3>2, ForwardStep DEF Terminal, Reported
      <4>3. q \in RetriesOf(r)'
        BY <3>2, <3>4, <4>1, <4>2 DEF RetriesOf, Exists
      <4>4. RetriesOf(r)' = {q}
        BY <2>3, <3>1, <4>3
      <4> QED
        BY <2>1, <3>1, <4>1, <4>4
    <3> QED
      BY <3>3, <3>4
  <2>5. CASE RetriesOf(r) = {} /\ \E q \in RunIds : q > r /\ run[q].status = "PURGED"
    BY <2>2, <2>3, <2>5
  <2> QED
    BY <1>3, <2>4, <2>5 DEF LostInv
<1>4. ASSUME NEW r \in RunIds, run[r].status # "LEASE_LOST", run'[r].status = "LEASE_LOST"
      PROVE  \E q \in RunIds : /\ q > r /\ RetriesOf(r)' = {q}
                               /\ run'[q].feed = run'[r].feed /\ run'[q].user = run'[r].user
  <2>1. run[r].status = "RUNNING"
    BY <1>4, LostByRecovery
  <2>2. PICK q \in RunIds :
           /\ Fresh(q) /\ run[q].status = "ABSENT"
           /\ run'[q] = Queued(run[r].feed, "RETRY", <<"r1", r>>, run[r].user)
           /\ run'[r] = [run[r] EXCEPT !.status = "LEASE_LOST", !.done = now]
           /\ \A p \in RunIds \ {q, r} : run'[p] = run[p]
    BY <1>4, LostByRecovery
  <2>3. run[r] \in Run
    BY <2>1, ActiveIsRun DEF RunInv, TypeInv, TypeOK, RunTable, Active
  <2>4. run'[r].feed = run[r].feed /\ run'[r].user = run[r].user /\ run'[r].key = run[r].key
    BY <2>2, <2>3 DEF Run
  <2>5. /\ run'[q].feed = run[r].feed /\ run'[q].user = run[r].user
        /\ run'[q].status = "QUEUED" /\ run'[q].key = <<"r1", r>>
    BY <2>2 DEF Queued
  <2>6. q > r
    BY <1>1, <2>1, <2>2 DEF LostInv
  <2>7. \A p \in RunIds : Exists(p) => run[p].key # <<"r1", r>>
    BY <2>1 DEF RunInv, RetryKeys
  <2>8. ASSUME NEW p \in RetriesOf(r)', p # q
        PROVE  FALSE
    <3>1. p \in RunIds /\ run'[p].key = <<"r1", r>> /\ run'[p].status \notin Gone
      BY <2>8 DEF RetriesOf, Exists
    <3>2. Exists(p) /\ run[p].key = run'[p].key
      BY <2>1, <2>2, <2>4, <2>8, <3>1 DEF Exists
    <3> QED
      BY <2>7, <3>1, <3>2
  <2>9. q \in RetriesOf(r)'
    BY <2>5 DEF RetriesOf, Exists
  <2>10. RetriesOf(r)' = {q}
    BY <2>8, <2>9
  <2> QED
    BY <2>4, <2>5, <2>6, <2>10
<1> QED
  BY <1>2, <1>3, <1>4 DEF LostInv

\* Every lost run is followed by exactly one retry, until retention removes it.
THEOREM RetriedOnce == Spec => []LostIsRetriedOnce
<1>1. Spec => [](RunInv /\ LostInv)
  BY RunInit, RunStep, LostInit, LostStep, PTL DEF Spec
<1>2. LostInv => LostIsRetriedOnce
  <2> SUFFICES ASSUME LostInv, NEW r \in RunIds, run[r].status = "LEASE_LOST"
               PROVE  \/ \E q \in RetriesOf(r) : /\ RetriesOf(r) = {q}
                                                 /\ run[q].feed = run[r].feed
                                                 /\ run[q].user = run[r].user
                      \/ RetriesOf(r) = {} /\ \E q \in RunIds : q > r /\ run[q].status = "PURGED"
    BY DEF LostIsRetriedOnce, RetriesOf
  <2> QED
    BY DEF LostInv
<1> QED
  BY <1>1, <1>2, PTL

-----------------------------------------------------------------------------
(* The schedule *)

\* The lane of an attempt that may still be recorded.
Runs(l) ==
    LET c == claim[l]
    IN  /\ c # NULL
        /\ run[c.run].status = "RUNNING" /\ run[c.run].feed = c.feed /\ run[c.run].token = c.token

KeyOf(r, f, t) == Exists(r) /\ run[r].feed = f /\ run[r].key = <<"s1", t>>

\* Scheduled runs were due when they were inserted, and a schedule about to be
\* recorded lies behind them all.
SchedInv ==
    /\ ScheduleAdvances
    /\ \A r \in RunIds, f \in Feeds, t \in Nat : KeyOf(r, f, t) => t <= now
    /\ \A l \in Lanes : pc[l] = "commit" /\ Runs(l) =>
          \A r \in RunIds, f \in Feeds, t \in Nat :
             claim[l].feed = f /\ KeyOf(r, f, t) => t < job[l].next

\* The clock does not go back.
LEMMA ClockStep ==
    ASSUME TypeInv, [Next]_vars
    PROVE  now \in Nat /\ now' \in Nat /\ now <= now'
<1>1. User => now' = now
  BY DEF User, Subscribe, Unsubscribe, QueueSubscriptionRefresh
<1>2. Operator => now' = now
  BY DEF Operator, SetDisabled
<1>3. ASSUME NEW l \in Lanes, Maintain(l)
      PROVE  now' = now
  BY <1>3 DEF Maintain, ScanExpired, ScanDue, ScanOrphans, PurgeHistory, PurgeEvents, RecoverRun,
              EnqueueRun, PurgeFeed
<1>4. ASSUME NEW l \in Lanes, Work(l)
      PROVE  now' = now
  BY <1>4 DEF Work, FindWork, ClaimRun, LoadContext, FetchDone, PersistFeed, CompleteNotModified,
              CompleteFailure, Finish, CommitRefused
<1>5. ASSUME NEW l \in Lanes, ExtendLease(l) \/ HeartbeatRefused(l) \/ Drop(l)
      PROVE  now' = now
  BY <1>5 DEF ExtendLease, HeartbeatRefused, Drop
<1>6. CASE Tick \/ UNCHANGED vars
  BY <1>6 DEF Tick, vars, TypeInv, TypeOK
<1> QED
  BY <1>1, <1>2, <1>3, <1>4, <1>5, <1>6 DEF Next, TypeInv, TypeOK

\* Where a scheduled run of a feed comes from.
LEMMA KeyBefore ==
    ASSUME RunInv, [Next]_vars, NEW r \in RunIds, NEW f \in Feeds, NEW t \in Nat, KeyOf(r, f, t)'
    PROVE  \/ KeyOf(r, f, t)
           \/ /\ run[r].status = "ABSENT" /\ run'[r].status = "QUEUED"
              /\ ActiveRuns(f) = {} /\ t <= now
<1>1. run'[r].status \notin Gone /\ run'[r].feed = f /\ run'[r].key = <<"s1", t>>
  BY DEF KeyOf, Exists
<1>2. CASE run[r].status = "ABSENT"
  <2>1. CASE Insertion
    <3>1. PICK p \in RunIds, g \in Feeds, tr \in Triggers, k \in Keys, u \in Users \cup {NULL} :
             /\ ActiveRuns(g) = {}
             /\ k[1] = "s1" => k[2] = sched[g].next /\ k[2] <= now
             /\ InsertRun(p, g, tr, k, u)
      BY <2>1 DEF Insertion
    <3>2. /\ run'[p] = Queued(g, tr, k, u)
          /\ \A x \in RunIds \ {p} : run'[x] = run[x]
      BY <3>1, InsertEffect DEF RunInv
    <3>3. r = p
      BY <1>1, <1>2, <3>2 DEF Gone
    <3>4. run'[r].feed = g /\ run'[r].key = k /\ run'[r].status = "QUEUED"
      BY <3>2, <3>3 DEF Queued
    <3>5. k[1] = "s1" /\ k[2] = t
      BY <1>1, <3>4
    <3> QED
      BY <1>1, <1>2, <3>1, <3>4, <3>5
  <2>2. CASE Loss
    <3>1. PICK s \in RunIds : run[s].status = "RUNNING" /\ Requeue(s, EndRun(s, "LEASE_LOST"))
      BY <2>2 DEF Loss
    <3>2. PICK p \in RunIds :
             /\ run'[p] = Queued(run[s].feed, "RETRY", <<"r1", s>>, run[s].user)
             /\ \A x \in RunIds \ {p, s} : run'[x] = run[x]
      BY <3>1, LossEffect
    <3>3. r = p
      BY <1>1, <1>2, <3>1, <3>2 DEF Gone
    <3>4. run'[r].key = <<"r1", s>>
      BY <3>2, <3>3 DEF Queued
    <3> QED
      BY <1>1, <3>4
  <2> QED
    BY <1>1, <1>2, <2>1, <2>2, InsertedHow DEF Gone
<1>3. CASE run[r].status # "ABSENT"
  <2>1. run'[r].feed = run[r].feed /\ run'[r].key = run[r].key
    BY <1>1, <1>3, KeepsIdentity DEF Gone
  <2>2. run[r].status # "PURGED"
    BY <1>1, ForwardStep DEF Terminal, Reported, Gone
  <2> QED
    BY <1>1, <1>3, <2>1, <2>2 DEF KeyOf, Exists, Gone
<1> QED
  BY <1>2, <1>3

\* A lane that may record an attempt after a step could before it, unless it has
\* just been granted the run.
LEMMA RunsBefore ==
    ASSUME FullInv, [Next]_vars, NEW l \in Lanes, claim'[l] = claim[l], Runs(l)'
    PROVE  Runs(l)
<1> DEFINE c == claim[l]
<1>1. /\ c \in Claims /\ c.run \in RunIds /\ c.feed \in Feeds /\ c.token \in Nat
      /\ run'[c.run].status = "RUNNING" /\ run'[c.run].feed = c.feed /\ run'[c.run].token = c.token
  BY DEF Runs, Claims, FullInv, RunInv, TypeInv, TypeOK
<1>2. c.token <= lease[c.feed].token /\ lease[c.feed].token \in Nat
  BY <1>1, CoreAssumption, NullAssumption DEF FullInv, CountInv, RunInv, TypeInv, TypeOK
<1>3. CASE Granting
  <2>1. PICK r \in RunIds :
           /\ run[r].status = "QUEUED"
           /\ run'[r].token = lease[run[r].feed].token + 1
           /\ run'[r].feed = run[r].feed
           /\ \A q \in RunIds \ {r} : run'[q] = run[q]
    BY <1>3, GrantEffect DEF FullInv, RunInv
  <2>2. r # c.run
    BY <1>1, <1>2, <2>1
  <2>3. run'[c.run] = run[c.run]
    BY <1>1, <2>1, <2>2
  <2> QED
    BY <1>1, <2>3 DEF Runs
<1>4. CASE ~Granting
  <2>1. run[c.run].status # "QUEUED" \/ run'[c.run].status # "RUNNING"
    <3> SUFFICES ASSUME run[c.run].status = "QUEUED" PROVE FALSE
      BY <1>1
    <3>1. run'[c.run] # run[c.run] /\ run[c.run].status \notin {"ABSENT", "RUNNING"} \cup Terminal
      BY <1>1 DEF Terminal, Reported
    <3>2. ~Insertion
      BY <1>1, <3>1, InsertEffect DEF Insertion, FullInv, RunInv
    <3>3. ~Loss
      <4> SUFFICES ASSUME Loss PROVE FALSE
        OBVIOUS
      <4>1. PICK s \in RunIds : run[s].status = "RUNNING" /\ Requeue(s, EndRun(s, "LEASE_LOST"))
        BY DEF Loss
      <4>2. PICK p \in RunIds : /\ run[p].status = "ABSENT"
                                /\ \A x \in RunIds \ {p, s} : run'[x] = run[x]
        BY <4>1, LossEffect DEF FullInv
      <4> QED
        BY <1>1, <3>1, <4>1, <4>2
    <3>4. ~Commit
      BY <1>1, <3>1, CommitEffect DEF FullInv, RunInv, Commit
    <3> QED
      BY <1>1, <1>4, <3>1, <3>2, <3>3, <3>4, PurgeEffect, StepKinds
         DEF FullInv, RunInv, Kinds, Stillness, Extension
  <2>2. run'[c.run] = run[c.run]
    BY <1>1, <2>1, ForwardStep DEF FullInv, Terminal, Reported
  <2> QED
    BY <1>1, <2>2 DEF Runs
<1> QED
  BY <1>3, <1>4

\* No schedule is used up before a run is inserted.
LEMMA SchedInit == Init => SchedInv
BY DEF Init, SchedInv, ScheduleAdvances, KeyUsed, KeyOf, Exists, NoRun, Gone

\* What is recorded for a feed was not used up.
LEMMA PendingStep ==
    ASSUME Spaced, FullInv, SchedInv, [Next]_vars, NEW l \in Lanes,
           pc'[l] = "commit", Runs(l)', NEW f \in Feeds, claim'[l].feed = f,
           NEW r \in RunIds, NEW t \in Nat, KeyOf(r, f, t)'
    PROVE  t < job'[l].next
<1> DEFINE c == claim[l]
<1>1. LaneKeeps(l) \/ LaneFetches(l)
  BY StepLanes DEF FullInv, RunInv, LaneKinds, LaneStops, LaneClaims, LaneLoads
<1>2. claim'[l] = c
  BY <1>1 DEF LaneKeeps, LaneFetches
<1>3. Runs(l)
  BY <1>2, RunsBefore
<1>4. c \in Claims /\ c.run \in RunIds /\ c.feed \in Feeds
  BY <1>3 DEF Runs, Claims, FullInv, RunInv, TypeInv, TypeOK
<1>5. KeyOf(r, f, t)
  <2>1. ActiveRuns(f) # {}
    BY <1>2, <1>3, <1>4 DEF Runs, ActiveRuns, Active
  <2> QED
    BY <2>1, KeyBefore DEF FullInv
<1>6. CASE LaneKeeps(l)
  BY <1>2, <1>3, <1>5, <1>6 DEF LaneKeeps, SchedInv
<1>7. CASE LaneFetches(l)
  <2>1. t <= now
    BY <1>5 DEF SchedInv
  <2>2. job'[l].next > now /\ job'[l].next \in Nat /\ now \in Nat
    <3>1. TypeInv'
      BY TypeStep DEF FullInv, RunInv
    <3>2. job'[l] \in Jobs
      BY <3>1 DEF TypeInv, TypeOK, LaneOK
    <3> QED
      BY <1>7, <3>2 DEF LaneFetches, Jobs, FullInv, RunInv, TypeInv, TypeOK
  <2> QED
    BY <2>1, <2>2
<1> QED
  BY <1>1, <1>6, <1>7

\* The schedule of a feed goes on.
LEMMA AdvanceStep ==
    ASSUME FullInv, MemberInv, SchedInv, [Next]_vars, NEW f \in Feeds,
           NEW n \in Nat, sched'[f].next = n, NEW r \in RunIds, KeyOf(r, f, n)'
    PROVE  ActiveRuns(f)' # {}
<1>2. run'[r].feed = f
  BY DEF KeyOf
<1>3. CASE run'[r].status = "QUEUED"
  BY <1>2, <1>3 DEF ActiveRuns, Active
<1>4. CASE KeyOf(r, f, n)
  <2>1. row[f] = "LIVE"
    BY <1>4 DEF KeyOf, MemberInv
  <2>2. CASE \E l \in Lanes, events \in SUBSET {"persisted", "completed"} :
                pc[l] = "commit" /\ Finish(l, events) /\ claim[l].feed = f
    <3>1. PICK l \in Lanes, events \in SUBSET {"persisted", "completed"} :
             pc[l] = "commit" /\ Finish(l, events) /\ claim[l].feed = f
      BY <2>2
    <3>2. Holds(l) /\ n = job[l].next /\ job[l] \in Jobs
      BY <3>1, CommitEffect DEF FullInv, RunInv
    <3>3. n < job[l].next /\ job[l].next \in Nat
      BY <1>4, <3>1, <3>2 DEF SchedInv, Runs, Holds, Jobs
    <3> QED
      BY <3>2, <3>3
  <2>3. CASE ~ \E l \in Lanes, events \in SUBSET {"persisted", "completed"} :
                  pc[l] = "commit" /\ Finish(l, events) /\ claim[l].feed = f
    <3>1. Commit => /\ sched'[f] = sched[f]
                    /\ \A q \in RunIds : run[q].feed = f => run'[q] = run[q]
      <4> SUFFICES ASSUME Commit
                   PROVE  /\ sched'[f] = sched[f]
                          /\ \A q \in RunIds : run[q].feed = f => run'[q] = run[q]
        OBVIOUS
      <4>1. PICK l \in Lanes, events \in SUBSET {"persisted", "completed"} :
               pc[l] = "commit" /\ Finish(l, events)
        BY DEF Commit
      <4>2. /\ run[claim[l].run].feed = claim[l].feed
            /\ \A q \in RunIds \ {claim[l].run} : run'[q] = run[q]
            /\ \A g \in Feeds \ {claim[l].feed} : sched'[g] = sched[g]
        BY <4>1, CommitEffect DEF FullInv, RunInv
      <4>3. claim[l].feed # f
        BY <2>3, <4>1
      <4> QED
        BY <4>2, <4>3
    <3>2. sched'[f] = sched[f]
      BY <2>1, <3>1, StepKinds
         DEF FullInv, RunInv, Kinds, Stillness, Insertion, Quiet, Loss, Granting, Extension, Purging
    <3>3. PICK q \in RunIds : run[q].feed = f /\ run[q].status \in Active
      <4>1. KeyUsed(f, <<"s1", sched[f].next>>)
        BY <1>4, <3>2 DEF KeyUsed, KeyOf
      <4> QED
        BY <2>1, <4>1 DEF SchedInv, ScheduleAdvances, ActiveRuns
    <3>4. CASE run'[q].status \in Active
      <4>1. run'[q].feed = f
        BY <3>3, <3>4, KeepsIdentity DEF FullInv, Active
      <4> QED
        BY <3>4, <4>1 DEF ActiveRuns
    <3>5. CASE run'[q].status \notin Active
      <4>1. run[q].status = "RUNNING" /\ run'[q].status \in Terminal /\ run'[q] # run[q]
        BY <3>3, <3>5, ForwardStep DEF FullInv, Active, Terminal, Reported
      <4>2. run'[q].status = "LEASE_LOST"
        BY <3>1, <3>3, <4>1, ReportedByCommit DEF FullInv, Terminal
      <4>3. PICK p \in RunIds : run'[p] = Queued(run[q].feed, "RETRY", <<"r1", q>>, run[q].user)
        BY <4>1, <4>2, LostByRecovery DEF FullInv
      <4>4. run'[p].feed = f /\ run'[p].status = "QUEUED"
        BY <3>3, <4>3 DEF Queued
      <4> QED
        BY <4>4 DEF ActiveRuns, Active
    <3> QED
      BY <3>4, <3>5
  <2> QED
    BY <2>2, <2>3
<1> QED
  <2>1. \/ KeyOf(r, f, n)
        \/ run'[r].status = "QUEUED"
    BY KeyBefore DEF FullInv
  <2> QED
    BY <1>3, <1>4, <2>1

\* Every step keeps the schedule going.
LEMMA SchedStep ==
    ASSUME Spaced
    PROVE  FullInv /\ MemberInv /\ SchedInv /\ [Next]_vars => SchedInv'
<1> SUFFICES ASSUME FullInv, MemberInv, SchedInv, [Next]_vars
             PROVE  SchedInv'
  OBVIOUS
<1>1. ScheduleAdvances'
  <2> SUFFICES ASSUME NEW f \in Feeds, KeyUsed(f, <<"s1", sched[f].next>>)'
               PROVE  ActiveRuns(f)' # {}
    BY DEF ScheduleAdvances
  <2>1. PICK n : n = sched'[f].next
    OBVIOUS
  <2>2. n \in Nat
    BY <2>1, TypeStep DEF FullInv, RunInv, TypeInv, TypeOK
  <2>3. PICK r \in RunIds : KeyOf(r, f, n)'
    BY <2>1 DEF KeyUsed, KeyOf
  <2> QED
    BY <2>1, <2>2, <2>3, AdvanceStep
<1>2. ASSUME NEW r \in RunIds, NEW f \in Feeds, NEW t \in Nat, KeyOf(r, f, t)'
      PROVE  t <= now'
  <2>1. t <= now
    BY <1>2, KeyBefore DEF FullInv, SchedInv
  <2> QED
    BY <2>1, ClockStep DEF FullInv, RunInv
<1>3. ASSUME NEW l \in Lanes, pc'[l] = "commit", Runs(l)',
             NEW r \in RunIds, NEW f \in Feeds, NEW t \in Nat, claim'[l].feed = f, KeyOf(r, f, t)'
      PROVE  t < job'[l].next
  BY <1>3, PendingStep
<1> QED
  BY <1>1, <1>2, <1>3 DEF SchedInv

\* A feed whose instant is used up has an active run to move the schedule on,
\* provided that no result asks for the instant at which it came.
THEOREM ScheduleGoesOn ==
    ASSUME Spaced
    PROVE  Spec => []ScheduleAdvances
<1>1. FullInv /\ MemberInv /\ SchedInv /\ [Next]_vars => SchedInv'
  BY SchedStep
<1>2. FullInv /\ MemberInv /\ [Next]_vars => MemberInv'
  BY MemberStep DEF FullInv
<1>3. Spec => [](FullInv /\ MemberInv /\ SchedInv)
  BY <1>1, <1>2, FullInit, FullStep, MemberInit, SchedInit, PTL DEF Spec
<1>4. SchedInv => ScheduleAdvances
  BY DEF SchedInv
<1> QED
  BY <1>3, <1>4, PTL

=============================================================================
