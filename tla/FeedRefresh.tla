----------------------------- MODULE FeedRefresh -----------------------------
(***************************************************************************)
(* The refresh core of the feed reader: the tables feeds, subscriptions,   *)
(* feed_refresh_runs and lifecycle_outbox, the requests that queue a run,  *)
(* and the worker lanes that recover, enqueue, claim, fetch and commit.    *)
(*                                                                         *)
(* Every database transaction of src/src/feeds locks the feed row before   *)
(* it reads anything it relies on, so a transaction is one action.  What   *)
(* a lane read before (candidate lists, the failure count, the computed    *)
(* schedule) is kept in the lane's own variables and used later.           *)
(***************************************************************************)
EXTENDS Integers, Sequences, FiniteSets

CONSTANTS
    Feeds,            \* ids of feed rows; an id is never used twice
    Users,
    Requests,         \* client request ids of a manual refresh
    Lanes,            \* worker lanes of all processes
    Schedulers,       \* the lanes with index 0
    NULL,
    MaxRuns,          \* bound: refresh runs ever inserted
    MaxNow,           \* bound: the clock stops here once no lease is held
    MaxLeaseToken,    \* i64::MAX in the code
    FailureCap,       \* i64::MAX in the code
    LeaseDuration,    \* 60 s
    SuccessDelay,     \* 5 min
    BaseBackoff,      \* 5 min
    MaxDelay,         \* 4 h
    MinJitter,        \* 0 in the code, see the README
    Outcomes,         \* the ways an attempt may end
    RetryAfterTimes,  \* instants a server may name in Retry-After
    Cooldown,         \* 30 s
    OrphanGrace,      \* 30 days
    HistoryAge,       \* 7 days
    MaxActivePerUser, \* 20
    MaxSubscriptions, \* 1000
    Disableable       \* feeds an operator may disable

RunIds == 1 .. MaxRuns

ASSUME CoreAssumption ==
    /\ MaxRuns \in Nat
    /\ FailureCap >= 1
    /\ {MaxNow, MaxLeaseToken, FailureCap, LeaseDuration, SuccessDelay} \subseteq Nat
    /\ {BaseBackoff, MaxDelay, MinJitter, Cooldown, OrphanGrace, HistoryAge} \subseteq Nat
    /\ {MaxActivePerUser, MaxSubscriptions} \subseteq Nat
    /\ Outcomes \subseteq {"SUCCESS", "NOT_MODIFIED", "PARTIAL", "ERROR"}
    /\ RetryAfterTimes \subseteq Nat
    /\ Schedulers \subseteq Lanes
    /\ Disableable \subseteq Feeds
    /\ NULL \notin Nat \cup Feeds \cup Users \cup Lanes

VARIABLES
    now,       \* the database clock
    row,       \* feeds: whether the row exists
    disabled,  \* feeds.is_disabled
    orphaned,  \* feeds.orphaned_at
    subs,      \* subscriptions: who subscribes to a feed
    lease,     \* feeds.lease_owner, lease_token, lease_until
    sched,     \* feeds.next_fetch_at and the other columns an attempt updates
    run,       \* feed_refresh_runs
    outbox,    \* lifecycle_outbox: <<run, event type, created_at>>
    pc,        \* where a lane is in run_lane
    todo,      \* candidates the lane has read and not yet processed
    claim,     \* the RefreshClaim of the lane
    ctx,       \* consecutive_failures as the attempt read it
    job        \* outcome and schedule the attempt is about to commit

tables == <<row, disabled, orphaned, subs, lease, sched, run, outbox>>
laneVars == <<pc, todo, claim, ctx, job>>
vars == <<now, row, disabled, orphaned, subs, lease, sched, run, outbox,
          pc, todo, claim, ctx, job>>

-----------------------------------------------------------------------------
(* Data *)

Active == {"QUEUED", "RUNNING"}
Reported == {"SUCCESS", "NOT_MODIFIED", "PARTIAL", "ERROR"}
Terminal == Reported \cup {"LEASE_LOST"}
Triggers == {"SCHEDULED", "MANUAL", "SUBSCRIBE", "RETRY"}
Instant == Nat \cup {NULL}

Keys ==
    ({"s1"} \X Nat) \cup ({"r1", "subscribe"} \X RunIds) \cup ({"m1"} \X Users \X Requests)

Run == [feed : Feeds, trigger : Triggers, status : Active \cup Terminal, key : Keys,
        token : Nat \cup {NULL}, user : Users \cup {NULL}, queued : Nat, done : Instant]

Gone == {"ABSENT", "PURGED"}
NoRun(s) == [feed |-> NULL, status |-> s]
Exists(r) == run[r].status \notin Gone

Claims == [run : RunIds, feed : Feeds, token : Nat]
Jobs == [status : Reported, next : Nat, failures : Nat, retry : Instant]

ASSUME NullAssumption == NULL \notin Claims \cup Jobs

-----------------------------------------------------------------------------
(* Queries *)

\* Mutant: a running run is not counted as active.
QueuedRuns(f) == {r \in RunIds : run[r].feed = f /\ run[r].status = "QUEUED"}

ActiveRuns(f) == {r \in RunIds : run[r].feed = f /\ run[r].status \in Active}

\* Mutant: a running run does not count towards the limit.
QueuedRunsOf(u) == {r \in RunIds : run[r].status = "QUEUED" /\ run[r].user = u}

ActiveRunsOf(u) == {r \in RunIds : run[r].status \in Active /\ run[r].user = u}

KeyUsed(f, key) == \E r \in RunIds : Exists(r) /\ run[r].feed = f /\ run[r].key = key

\* Ids are given out in the order of insertion, which stands for queued_at.
Fresh(r) ==
    /\ run[r].status = "ABSENT"
    /\ \A q \in RunIds : q < r => run[q].status # "ABSENT"

\* Mutant: an expired lease is not free.
LeaseReleased(f) == lease[f].owner = NULL /\ lease[f].until = NULL

LeaseFree(f) ==
    \/ lease[f].owner = NULL /\ lease[f].until = NULL
    \/ lease[f].until # NULL /\ lease[f].until <= now

TokensLeft(f) == lease[f].token < MaxLeaseToken

\* The WHERE clause shared by the claim candidate query and the claim itself.
Claimable(r) ==
    /\ run[r].status = "QUEUED"
    /\ ~disabled[run[r].feed]
    /\ run[r].trigger = "SCHEDULED" => sched[run[r].feed].next <= now
    /\ LeaseFree(run[r].feed)

\* Rows are compared by queued_at and then by a random id.
Oldest(S) == {r \in S : \A q \in S : run[r].queued <= run[q].queued}

\* Mutant: a run whose lease has expired is not stale.
StaleIfReleased(r) ==
    LET f == run[r].feed
    IN  lease[f].token # run[r].token \/ lease[f].owner = NULL

Stale(r) ==
    LET f == run[r].feed
    IN  \/ lease[f].token # run[r].token
        \/ lease[f].owner = NULL
        \/ lease[f].until = NULL
        \/ lease[f].until # NULL /\ lease[f].until <= now

Expired == {r \in RunIds : run[r].status = "RUNNING" /\ Stale(r)}

Due(f) ==
    /\ row[f] = "LIVE"
    /\ ~disabled[f]
    /\ orphaned[f] = NULL
    /\ sched[f].next <= now
    /\ subs[f] # {}

\* The cutoff of a retention pass is OrphanGrace before the time t it began.
OldOrphan(f, t) ==
    /\ row[f] = "LIVE"
    /\ orphaned[f] # NULL
    /\ orphaned[f] + OrphanGrace <= t

Purgeable(f, t) ==
    /\ OldOrphan(f, t)
    /\ subs[f] = {}
    /\ ActiveRuns(f) = {}

\* Mutant: a commit is authorized after the lease has expired.
HoldsExpired(l) ==
    LET c == claim[l]
    IN  /\ c # NULL
        /\ lease[c.feed].owner = l
        /\ lease[c.feed].token = c.token
        /\ run[c.run].status = "RUNNING"

\* The guard of every write of an attempt: the claim is the feed's lease, the
\* lease has not expired, and the run still runs under it.
Holds(l) ==
    LET c == claim[l]
    IN  /\ c # NULL
        /\ row[c.feed] = "LIVE"
        /\ lease[c.feed].owner = l
        /\ lease[c.feed].token = c.token
        /\ lease[c.feed].until # NULL
        /\ lease[c.feed].until > now
        /\ run[c.run].status = "RUNNING"
        /\ run[c.run].feed = c.feed
        /\ run[c.run].token = c.token

-----------------------------------------------------------------------------
(* The insertion of a run *)

Queued(f, trigger, key, u) ==
    [feed |-> f, trigger |-> trigger, status |-> "QUEUED", key |-> key,
     token |-> NULL, user |-> u, queued |-> now, done |-> NULL]

InsertRun(r, f, trigger, key, u) ==
    /\ Fresh(r)
    /\ run' = [run EXCEPT ![r] = Queued(f, trigger, key, u)]

EndRun(r, status) == [run EXCEPT ![r].status = status, ![r].done = now]

-----------------------------------------------------------------------------
(* Requests of users.  Each is one transaction that locks the user row and *)
(* then the feed row.  A request the code rejects changes nothing.         *)

\* queue_subscribe_refresh_if_due
SubscribeRefresh(u, f, isNew) ==
    IF /\ isNew \/ ~sched[f].succeeded \/ sched[f].next <= now
       /\ ActiveRuns(f) = {}
    THEN /\ Cardinality(ActiveRunsOf(u)) < MaxActivePerUser
         /\ \E r \in RunIds : InsertRun(r, f, "SUBSCRIBE", <<"subscribe", r>>, u)
    ELSE UNCHANGED run

Subscribe(u, f) ==
    /\ row[f] # "PURGED"
    /\ u \notin subs[f]
    /\ ~disabled[f]
    /\ Cardinality({g \in Feeds : u \in subs[g]}) < MaxSubscriptions
    /\ row' = [row EXCEPT ![f] = "LIVE"]
    /\ sched' = IF row[f] = "ABSENT" THEN [sched EXCEPT ![f].next = now] ELSE sched
    /\ orphaned' = [orphaned EXCEPT ![f] = NULL]
    /\ subs' = [subs EXCEPT ![f] = @ \cup {u}]
    /\ SubscribeRefresh(u, f, row[f] = "ABSENT")
    /\ UNCHANGED <<now, disabled, lease, outbox, laneVars>>

\* Mutant: the last subscriber leaves without a trace.
UnsubscribeOnly(u, f) ==
    /\ u \in subs[f]
    /\ subs' = [subs EXCEPT ![f] = @ \ {u}]
    /\ UNCHANGED <<now, row, disabled, orphaned, lease, sched, run, outbox, laneVars>>

Unsubscribe(u, f) ==
    /\ u \in subs[f]
    /\ subs' = [subs EXCEPT ![f] = @ \ {u}]
    /\ orphaned' = IF subs[f] = {u} THEN [orphaned EXCEPT ![f] = now] ELSE orphaned
    /\ UNCHANGED <<now, row, disabled, lease, sched, run, outbox, laneVars>>

CoolingDown(f) ==
    \/ sched[f].attempt # NULL /\ now < sched[f].attempt + Cooldown
    \/ sched[f].retry # NULL /\ now < sched[f].retry

\* A request whose key is known returns the earlier run.
QueueSubscriptionRefresh(u, f, q) ==
    /\ u \in subs[f]
    /\ ~KeyUsed(f, <<"m1", u, q>>)
    /\ ActiveRuns(f) = {}
    /\ ~disabled[f]
    /\ orphaned[f] = NULL
    /\ ~CoolingDown(f)
    /\ Cardinality(ActiveRunsOf(u)) < MaxActivePerUser
    /\ \E r \in RunIds : InsertRun(r, f, "MANUAL", <<"m1", u, q>>, u)
    /\ UNCHANGED <<now, row, disabled, orphaned, subs, lease, sched, outbox, laneVars>>

\* No code sets feeds.is_disabled; an operator does, in the database.
SetDisabled(f, d) ==
    /\ f \in Disableable
    /\ row[f] = "LIVE"
    /\ disabled[f] # d
    /\ disabled' = [disabled EXCEPT ![f] = d]
    /\ UNCHANGED <<now, row, orphaned, subs, lease, sched, run, outbox, laneVars>>

-----------------------------------------------------------------------------
(* One turn of run_lane: recover, then (scheduler) enqueue and maintain,   *)
(* then claim and execute.  "top" is the head of the loop; a lane that     *)
(* finds no work waits there for a wake-up or at most a second.            *)

Goto(l, where, S) ==
    /\ pc' = [pc EXCEPT ![l] = where]
    /\ todo' = [todo EXCEPT ![l] = S]

EndAttempt(l) ==
    /\ Goto(l, "top", {})
    /\ claim' = [claim EXCEPT ![l] = NULL]
    /\ ctx' = [ctx EXCEPT ![l] = NULL]
    /\ job' = [job EXCEPT ![l] = NULL]

\* A candidate is a pair: a run (recover, claim) or an instant (enqueue, purge), and a feed.
ScanExpired(l) ==
    /\ pc[l] = "top"
    /\ Goto(l, "recover", {<<r, run[r].feed>> : r \in Expired})
    /\ UNCHANGED <<now, tables, claim, ctx, job>>

\* Mutant: a lost run is not followed by a retry.
LoseRun(r, lost) == run' = lost

\* Mutant: the retry forgets on whose behalf the lost run was queued.
RequeueForNobody(r, lost) ==
    \E q \in RunIds :
       /\ Fresh(q)
       /\ run' = [lost EXCEPT ![q] = Queued(run[r].feed, "RETRY", <<"r1", r>>, NULL)]

Requeue(r, lost) ==
    LET f == run[r].feed
        key == <<"r1", r>>
    IN  IF ActiveRuns(f) \ {r} # {} \/ KeyUsed(f, key)
        THEN run' = lost
        ELSE \E q \in RunIds :
                /\ Fresh(q)
                /\ run' = [lost EXCEPT ![q] = Queued(f, "RETRY", key, run[r].user)]

\* One candidate of recover_expired_runs.  Everything the scan saw is checked
\* again under the lock; a vanished feed aborts the pass.
RecoverRun(l, r, f) ==
    /\ pc[l] = "recover"
    /\ <<r, f>> \in todo[l]
    /\ todo' = [todo EXCEPT ![l] = IF row[f] = "LIVE" THEN @ \ {<<r, f>>} ELSE {}]
    /\ IF row[f] = "LIVE" /\ run[r].feed = f /\ r \in Expired
       THEN Requeue(r, EndRun(r, "LEASE_LOST"))
       ELSE UNCHANGED run
    /\ UNCHANGED <<now, row, disabled, orphaned, subs, lease, sched, outbox, pc, claim, ctx, job>>

ScanDue(l) ==
    /\ pc[l] = "recover"
    /\ todo[l] = {}
    /\ l \in Schedulers
    /\ Goto(l, "enqueue", {<<sched[f].next, f>> : f \in {g \in Feeds : Due(g)}})
    /\ UNCHANGED <<now, tables, claim, ctx, job>>

\* One candidate of enqueue_due_scheduled: due, and due at the instant scanned.
EnqueueRun(l, t, f) ==
    /\ pc[l] = "enqueue"
    /\ <<t, f>> \in todo[l]
    /\ todo' = [todo EXCEPT ![l] = IF row[f] = "LIVE" THEN @ \ {<<t, f>>} ELSE {}]
    /\ IF Due(f) /\ sched[f].next = t /\ ActiveRuns(f) = {} /\ ~KeyUsed(f, <<"s1", t>>)
       THEN \E r \in RunIds : InsertRun(r, f, "SCHEDULED", <<"s1", t>>, NULL)
       ELSE UNCHANGED run
    /\ UNCHANGED <<now, row, disabled, orphaned, subs, lease, sched, outbox, pc, claim, ctx, job>>

-----------------------------------------------------------------------------
(* Retention, on the scheduler lane after the enqueue *)

\* purge_orphaned_feeds: the clock is read once, for the whole pass.
ScanOrphans(l) ==
    /\ l \in Schedulers
    /\ pc[l] \in {"recover", "enqueue"}
    /\ todo[l] = {}
    /\ Goto(l, "purge", {<<now, f>> : f \in {g \in Feeds : OldOrphan(g, now)}})
    /\ UNCHANGED <<now, tables, claim, ctx, job>>

\* Mutant: the purge trusts its scan.
PurgeFeedBlind(l, t, f) ==
    /\ pc[l] = "purge"
    /\ <<t, f>> \in todo[l]
    /\ todo' = [todo EXCEPT ![l] = @ \ {<<t, f>>}]
    /\ row' = [row EXCEPT ![f] = "PURGED"]
    /\ run' = [r \in RunIds |->
                  IF Exists(r) /\ run[r].feed = f THEN NoRun("PURGED") ELSE run[r]]
    /\ UNCHANGED <<now, disabled, orphaned, subs, lease, sched, outbox, pc, claim, ctx, job>>

\* Deleting the feed cascades to its runs, not to the outbox.
PurgeFeed(l, t, f) ==
    /\ pc[l] = "purge"
    /\ <<t, f>> \in todo[l]
    /\ todo' = [todo EXCEPT ![l] = @ \ {<<t, f>>}]
    /\ IF Purgeable(f, t)
       THEN /\ row' = [row EXCEPT ![f] = "PURGED"]
            /\ run' = [r \in RunIds |->
                          IF Exists(r) /\ run[r].feed = f THEN NoRun("PURGED") ELSE run[r]]
       ELSE UNCHANGED <<row, run>>
    /\ UNCHANGED <<now, disabled, orphaned, subs, lease, sched, outbox, pc, claim, ctx, job>>

\* purge_refresh_history.  No dispatcher exists, so every event is still
\* pending and none protects its run.
PurgeHistory(l) ==
    LET old == {r \in RunIds : /\ run[r].status \in Terminal
                               /\ run[r].queued + HistoryAge < now
                               /\ run[r].done + HistoryAge < now}
    IN  /\ l \in Schedulers
        /\ pc[l] \in {"recover", "enqueue", "purge"}
        /\ todo[l] = {}
        /\ old # {}
        /\ run' = [r \in RunIds |-> IF r \in old THEN NoRun("PURGED") ELSE run[r]]
        /\ outbox' = {e \in outbox : e[1] \notin old}
        /\ UNCHANGED <<now, row, disabled, orphaned, subs, lease, sched, laneVars>>

\* Mutant: old events go even if their run is still there.
PurgeEventsByAge(l) ==
    LET old == {e \in outbox : e[3] + HistoryAge < now}
    IN  /\ l \in Schedulers
        /\ pc[l] \in {"recover", "enqueue", "purge"}
        /\ todo[l] = {}
        /\ old # {}
        /\ outbox' = outbox \ old
        /\ UNCHANGED <<now, row, disabled, orphaned, subs, lease, sched, run, laneVars>>

\* purge_orphaned_refresh_events: what a deleted feed left in the outbox.
PurgeEvents(l) ==
    LET old == {e \in outbox : ~Exists(e[1]) /\ e[3] + HistoryAge < now}
    IN  /\ l \in Schedulers
        /\ pc[l] \in {"recover", "enqueue", "purge"}
        /\ todo[l] = {}
        /\ old # {}
        /\ outbox' = outbox \ old
        /\ UNCHANGED <<now, row, disabled, orphaned, subs, lease, sched, run, laneVars>>

-----------------------------------------------------------------------------
(* Claiming *)

\* A lane looks for work after its recovery pass; the scheduler lane may scan
\* first, every 30 seconds for the schedule and every hour for retention.
FindWork(l) ==
    /\ pc[l] \in {"recover", "enqueue", "purge"}
    /\ todo[l] = {}
    /\ LET ready == {r \in RunIds : Claimable(r)}
       IN  IF ready = {}
           THEN Goto(l, "top", {})
           ELSE \E r \in Oldest(ready) : Goto(l, "claim", {<<r, run[r].feed>>})
    /\ UNCHANGED <<now, tables, claim, ctx, job>>

\* claim_due: the row count of the conditional update decides who gets the run.
ClaimRun(l, r, f) ==
    /\ pc[l] = "claim"
    /\ <<r, f>> \in todo[l]
    /\ IF row[f] = "LIVE" /\ run[r].feed = f /\ Claimable(r) /\ TokensLeft(f)
       THEN LET token == lease[f].token + 1
            IN  /\ lease' = [lease EXCEPT ![f] = [owner |-> l, token |-> token,
                                                  until |-> now + LeaseDuration]]
                /\ run' = [run EXCEPT ![r].status = "RUNNING", ![r].token = token]
                /\ claim' = [claim EXCEPT ![l] = [run |-> r, feed |-> f, token |-> token]]
                /\ Goto(l, "load", {})
       ELSE /\ Goto(l, "top", {})
            /\ UNCHANGED <<lease, run, claim>>
    /\ UNCHANGED <<now, row, disabled, orphaned, subs, sched, outbox, ctx, job>>

-----------------------------------------------------------------------------
(* The attempt: execute_claim under coordinate_attempt *)

\* load_refresh_context: nothing of the lease is checked here.
LoadContext(l) ==
    /\ pc[l] = "load"
    /\ LET c == claim[l]
       IN  IF Exists(c.run) /\ ~disabled[c.feed]
           THEN /\ ctx' = [ctx EXCEPT ![l] = sched[c.feed].failures]
                /\ Goto(l, "fetch", {})
                /\ UNCHANGED <<claim, job>>
           ELSE EndAttempt(l)
    /\ UNCHANGED <<now, tables>>

MinOf(a, b) == IF a < b THEN a ELSE b
MaxOf(a, b) == IF a > b THEN a ELSE b

Doublings == <<1, 2, 4, 8, 16, 32>>
Backoff(n) == IF n >= 7 THEN MaxDelay ELSE BaseBackoff * Doublings[n]

\* after_result of schedule.rs, with the clock read before the commit
Schedule(status, failures) ==
    IF status = "ERROR"
    THEN LET n == MinOf(failures + 1, FailureCap)
         IN  {[status |-> status, failures |-> n, retry |-> at,
               next |-> now + MinOf(MaxOf(jitter, IF at = NULL \/ at < now THEN 0 ELSE at - now),
                                    MaxDelay)] :
                 jitter \in MinJitter .. Backoff(n), at \in RetryAfterTimes \cup {NULL}}
    ELSE {[status |-> status, failures |-> 0, retry |-> NULL, next |-> now + SuccessDelay]}

FetchDone(l, status) ==
    /\ pc[l] = "fetch"
    /\ \E j \in Schedule(status, ctx[l]) : job' = [job EXCEPT ![l] = j]
    /\ Goto(l, "commit", {})
    /\ UNCHANGED <<now, tables, claim, ctx>>

\* What every commit does: release the lease, keeping its token, record the
\* attempt and its schedule, end the run and report it.
Finish(l, events) ==
    LET c == claim[l]
        j == job[l]
    IN  /\ Holds(l)
        /\ lease' = [lease EXCEPT ![c.feed].owner = NULL, ![c.feed].until = NULL]
        /\ sched' = [sched EXCEPT ![c.feed] =
                        [next |-> j.next, failures |-> j.failures, retry |-> j.retry,
                         attempt |-> now, succeeded |-> @.succeeded \/ j.status # "ERROR"]]
        /\ run' = EndRun(c.run, j.status)
        /\ outbox' = outbox \cup {<<c.run, e, now>> : e \in events}
        /\ EndAttempt(l)
        /\ UNCHANGED <<now, row, disabled, orphaned, subs>>

PersistFeed(l) ==
    /\ pc[l] = "commit"
    /\ job[l].status \in {"SUCCESS", "PARTIAL"}
    /\ Finish(l, {"persisted", "completed"})

CompleteNotModified(l) ==
    /\ pc[l] = "commit"
    /\ job[l].status = "NOT_MODIFIED"
    /\ Finish(l, {"completed"})

CompleteFailure(l) ==
    /\ pc[l] = "commit"
    /\ job[l].status = "ERROR"
    /\ Finish(l, {"completed"})

\* The authorization updates no row: LeaseLost or InvalidTransition.  The
\* recovery pass that follows is the one at the top of the loop.
CommitRefused(l) ==
    /\ pc[l] = "commit"
    /\ ~Holds(l)
    /\ EndAttempt(l)
    /\ UNCHANGED <<now, tables>>

\* The heartbeat of coordinate_attempt, at any point of the attempt.
InAttempt(l) == pc[l] \in {"load", "fetch", "commit"}

ExtendLease(l) ==
    /\ InAttempt(l)
    /\ now < MaxNow
    /\ Holds(l)
    /\ lease' = [lease EXCEPT ![claim[l].feed].until = now + LeaseDuration]
    /\ UNCHANGED <<now, row, disabled, orphaned, subs, sched, run, outbox, laneVars>>

HeartbeatRefused(l) ==
    /\ InAttempt(l)
    /\ ~Holds(l)
    /\ EndAttempt(l)
    /\ UNCHANGED <<now, tables>>

-----------------------------------------------------------------------------
(* Faults and time *)

\* The attempt fails with an error that writes nothing (database, corrupt
\* feed), a pass is cut short, or the process dies and restarts.
Drop(l) ==
    /\ pc[l] # "top"
    /\ EndAttempt(l)
    /\ UNCHANGED <<now, tables>>

\* The clock runs up to MaxNow, and on while a lease is still to expire.
Tick ==
    /\ now < MaxNow \/ \E f \in Feeds : lease[f].until # NULL /\ lease[f].until > now
    /\ now' = now + 1
    /\ UNCHANGED <<tables, laneVars>>

-----------------------------------------------------------------------------
Init ==
    /\ now = 0
    /\ row = [f \in Feeds |-> "ABSENT"]
    /\ disabled = [f \in Feeds |-> FALSE]
    /\ orphaned = [f \in Feeds |-> NULL]
    /\ subs = [f \in Feeds |-> {}]
    /\ lease = [f \in Feeds |-> [owner |-> NULL, token |-> 0, until |-> NULL]]
    /\ sched = [f \in Feeds |-> [next |-> 0, failures |-> 0, retry |-> NULL,
                                 attempt |-> NULL, succeeded |-> FALSE]]
    /\ run = [r \in RunIds |-> NoRun("ABSENT")]
    /\ outbox = {}
    /\ pc = [l \in Lanes |-> "top"]
    /\ todo = [l \in Lanes |-> {}]
    /\ claim = [l \in Lanes |-> NULL]
    /\ ctx = [l \in Lanes |-> NULL]
    /\ job = [l \in Lanes |-> NULL]

User ==
    \E u \in Users, f \in Feeds :
        \/ Subscribe(u, f)
        \/ Unsubscribe(u, f)
        \/ \E q \in Requests : QueueSubscriptionRefresh(u, f, q)

Operator == \E f \in Feeds, d \in BOOLEAN : SetDisabled(f, d)

Maintain(l) ==
    \/ ScanExpired(l)
    \/ ScanDue(l)
    \/ ScanOrphans(l)
    \/ PurgeHistory(l)
    \/ PurgeEvents(l)
    \/ \E f \in Feeds :
          \/ \E r \in RunIds : RecoverRun(l, r, f)
          \/ \E t \in 0 .. now : EnqueueRun(l, t, f) \/ PurgeFeed(l, t, f)

Work(l) ==
    \/ FindWork(l)
    \/ \E r \in RunIds, f \in Feeds : ClaimRun(l, r, f)
    \/ LoadContext(l)
    \/ \E status \in Outcomes : FetchDone(l, status)
    \/ PersistFeed(l)
    \/ CompleteNotModified(l)
    \/ CompleteFailure(l)
    \/ CommitRefused(l)

Next ==
    \/ User
    \/ Operator
    \/ \E l \in Lanes : Maintain(l) \/ Work(l) \/ ExtendLease(l) \/ HeartbeatRefused(l) \/ Drop(l)
    \/ Tick

Spec == Init /\ [][Next]_vars

LaneStep(l) == Maintain(l) \/ Work(l) \/ HeartbeatRefused(l)

\* Every lane keeps running its loop, the scheduler lane scans the schedule
\* again and again, time passes, and faults do not go on forever: from some
\* point on a step that looks like one is an ordinary step of the lane.
Fairness ==
    /\ WF_vars(Tick)
    /\ \A l \in Lanes : WF_vars(LaneStep(l))
    /\ \A l \in Schedulers : SF_vars(ScanDue(l))
    /\ <>[][\A l \in Lanes : Drop(l) => LaneStep(l)]_vars

FairSpec == Spec /\ Fairness

-----------------------------------------------------------------------------
(* Safety *)

\* Every column and lane variable keeps its type; the lease token stays under
\* its limit, and an owner and a deadline are set and cleared together.
TypeOK ==
    /\ now \in Nat
    /\ row \in [Feeds -> {"ABSENT", "LIVE", "PURGED"}]
    /\ disabled \in [Feeds -> BOOLEAN]
    /\ orphaned \in [Feeds -> Instant]
    /\ subs \in [Feeds -> SUBSET Users]
    /\ lease \in [Feeds -> [owner : Lanes \cup {NULL}, token : 0 .. MaxLeaseToken, until : Instant]]
    /\ sched \in [Feeds -> [next : Nat, failures : Nat, retry : Instant,
                            attempt : Instant, succeeded : BOOLEAN]]
    /\ run \in [RunIds -> Run \cup {NoRun(s) : s \in Gone}]
    /\ outbox \in SUBSET (RunIds \X {"persisted", "completed"} \X Nat)
    /\ pc \in [Lanes -> {"top", "recover", "enqueue", "purge", "claim", "load", "fetch", "commit"}]
    /\ todo \in [Lanes -> SUBSET (Nat \X Feeds)]
    /\ claim \in [Lanes -> Claims \cup {NULL}]
    /\ ctx \in [Lanes -> Nat \cup {NULL}]
    /\ job \in [Lanes -> Jobs \cup {NULL}]

\* The transactions that queue a run (subscribe, manual refresh, schedule,
\* recovery) each look for an active run under the feed lock: however they
\* interleave, a feed never has two runs queued or running.
OneActiveRun ==
    \A q, r \in RunIds :
        /\ run[q].status \in Active /\ run[r].status \in Active
        /\ run[q].feed = run[r].feed
        => q = r

\* A running run is always covered by its feed's lease: same token, an owner
\* and a deadline.  Otherwise recovery would take it for stale at once.
RunningIsLeased ==
    \A r \in RunIds :
        run[r].status = "RUNNING" =>
            LET f == run[r].feed
            IN  /\ lease[f].token = run[r].token
                /\ lease[f].owner # NULL
                /\ lease[f].until # NULL

\* At no time do two runs of a feed wait or run, nor does one run without a lease.
RunsAreSound == OneActiveRun /\ RunningIsLeased

\* A scheduled run is inserted once for each value of next_fetch_at.  If that
\* value is used up, only an active run can move the schedule on: a feed in
\* that state without one would never be fetched again.
ScheduleAdvances ==
    \A f \in Feeds :
        row[f] = "LIVE" /\ KeyUsed(f, <<"s1", sched[f].next>>) => ActiveRuns(f) # {}

\* Every lost run is followed by exactly one retry, for the same feed and on
\* behalf of the same user, until history retention removes it.
LostIsRetriedOnce ==
    \A r \in RunIds :
        run[r].status = "LEASE_LOST" =>
            LET retries == {q \in RunIds : Exists(q) /\ run[q].key = <<"r1", r>>}
            IN  \/ \E q \in retries : /\ retries = {q}
                                      /\ run[q].feed = run[r].feed
                                      /\ run[q].user = run[r].user
                \/ retries = {} /\ \E q \in RunIds : q > r /\ run[q].status = "PURGED"

\* The outbox reports an attempt if and only if it was committed: one
\* "completed" event for each reported run, preceded by "persisted" when
\* entries were stored, and none for a lost or unfinished run.
OutboxMatchesRuns ==
    \A r \in RunIds :
        Exists(r) =>
            LET kinds == {e[2] : e \in {x \in outbox : x[1] = r}}
            IN  /\ ("completed" \in kinds) <=> (run[r].status \in Reported)
                /\ ("persisted" \in kinds) <=> (run[r].status \in {"SUCCESS", "PARTIAL"})
                /\ Cardinality({e \in outbox : e[1] = r}) = Cardinality(kinds)

\* orphaned_at is set exactly while a feed has no subscriber, so that
\* retention neither deletes a feed in use nor forgets one.
OrphanIffUnsubscribed ==
    \A f \in Feeds : row[f] = "LIVE" => (orphaned[f] # NULL <=> subs[f] = {})

\* Retention deletes no feed that has gained a subscriber or a run since it was
\* found, and a deleted feed leaves no run behind.
PurgeLeavesNothing ==
    \A f \in Feeds :
        row[f] = "PURGED" =>
            /\ subs[f] = {}
            /\ \A r \in RunIds : Exists(r) => run[r].feed # f

\* A user's queued and running runs stay within the limit, the retries that
\* recovery inserts in the user's name without asking included.
ActiveRunLimit ==
    \A u \in Users : Cardinality(ActiveRunsOf(u)) <= MaxActivePerUser

-----------------------------------------------------------------------------
(* Action properties *)

\* consecutive_failures is read before the fetch and written after it; no
\* interleaving loses a count: it is reset or goes up by one.
FailureCountExact ==
    [][\A f \in Feeds :
         sched'[f].failures \in
            {sched[f].failures, 0, MinOf(sched[f].failures + 1, FailureCap)}]_vars

\* The schedule of an existing feed moves only with the end of a run that was
\* running under an unexpired lease, and the lease is released in that step.
FencedCommit ==
    [][\A f \in Feeds :
         row[f] = "LIVE" /\ sched'[f] # sched[f] =>
            \E r \in RunIds :
               /\ run[r].feed = f
               /\ run[r].status = "RUNNING"
               /\ run[r].token = lease[f].token
               /\ lease[f].until > now
               /\ run'[r].status \in Reported
               /\ lease'[f] = [lease[f] EXCEPT !.owner = NULL, !.until = NULL]]_vars

\* A run moves forward only, and what a finished run recorded never changes
\* until retention deletes it.
RunsMoveForward ==
    [][\A r \in RunIds :
         LET s == run[r].status
             t == run'[r].status
         IN  \/ run'[r] = run[r]
             \/ s = "ABSENT" /\ t = "QUEUED"
             \/ s = "QUEUED" /\ t = "RUNNING"
             \/ s = "RUNNING" /\ t \in Terminal
             \/ s \in Terminal /\ t = "PURGED"]_vars

\* What an attempt leaves behind is written once, under its lease: the schedule,
\* the count of failures, and the end of the run.
AttemptsAreFenced == FencedCommit /\ FailureCountExact /\ RunsMoveForward

\* A lane that may still write loses that right only by its own step or when
\* its deadline passes: no recovery, purge, request or other lane takes it away.
AuthorityLasts ==
    [][\A l \in Lanes :
         Holds(l) => Holds(l)' \/ claim'[l] = NULL \/ lease[claim[l].feed].until <= now']_vars

\* What the design says of Retry-After: no fetch of a feed starts before the
\* instant its server named.  The code refutes it: a subscription to a feed that
\* never succeeded, and the retry of a lost run, are not gated by that instant,
\* and the schedule caps the wait at MaxDelay.
RetryAfterRespected ==
    [][\A f \in Feeds :
         lease'[f].token # lease[f].token => sched[f].retry = NULL \/ sched[f].retry <= now]_vars

-----------------------------------------------------------------------------
(* Liveness *)

\* Whatever happens to the lane that runs it, a running run ends: the attempt
\* commits, or its lease expires and a recovery pass finds it.
RunningEnds ==
    \A r \in RunIds : run[r].status = "RUNNING" ~> run[r].status # "RUNNING"

\* A queued run of an enabled feed starts, as long as tokens are left.
QueuedStarts ==
    \A r \in RunIds :
        run[r].status = "QUEUED" ~>
            \/ run[r].status # "QUEUED"
            \/ disabled[run[r].feed]
            \/ lease[run[r].feed].token = MaxLeaseToken

\* A due, subscribed and enabled feed gets a run.
DueIsFetched ==
    \A f \in Feeds : Due(f) ~> ActiveRuns(f) # {} \/ ~Due(f)

-----------------------------------------------------------------------------
(* Refinement *)

stageOf ==
    [f \in Feeds |->
        IF \E r \in RunIds : run[r].feed = f /\ run[r].status = "RUNNING" THEN "working"
        ELSE IF \E r \in RunIds : run[r].feed = f /\ run[r].status = "QUEUED" THEN "waiting"
        ELSE "idle"]

Cycle == INSTANCE RefreshCycle
    WITH stage <- stageOf,
         grants <- [f \in Feeds |-> lease[f].token],
         failures <- [f \in Feeds |-> sched[f].failures],
         MaxGrants <- MaxLeaseToken

\* Runs, leases and recovery together implement the cycle of RefreshCycle: no
\* request overtakes an active run, no grant is lost, no result counts twice.
ImplementsCycle == Cycle!CycleSpec
=============================================================================
