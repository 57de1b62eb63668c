---------------------------- MODULE FeedRetention ----------------------------
(***************************************************************************)
(* The purge of orphaned feeds as its pass really runs: a list of          *)
(* candidates in the order of orphaned_at, read once with one cutoff, each *)
(* checked again under the lock of its feed row, and a deletion that the   *)
(* foreign keys may refuse.                                                *)
(*                                                                         *)
(* Deleting a feed cascades to its entries and their AI jobs, but an AI    *)
(* artifact restricts the deletion of the job that produced it.            *)
(* FeedRefresh models the same purge for feeds without AI artifacts,       *)
(* together with the refresh that it races.                                *)
(***************************************************************************)
EXTENDS Integers, Sequences, FiniteSets

CONSTANTS
    Feeds,
    Users,
    AiFeeds,     \* feeds whose entries get AI jobs
    Schedulers,  \* the lanes with index 0, one in every process
    NULL,
    OrphanGrace, \* 30 days
    BatchLimit,  \* 100 candidates in a pass
    MaxNow       \* bound: feeds are orphaned no later

ASSUME RetentionAssumption ==
    /\ {OrphanGrace, BatchLimit, MaxNow} \subseteq Nat
    /\ BatchLimit > 0
    /\ IsFiniteSet(Feeds)
    /\ AiFeeds \subseteq Feeds
    /\ NULL \notin Nat

VARIABLES
    now,       \* the database clock
    row,       \* feeds: whether the row exists
    subs,      \* subscriptions
    orphaned,  \* feeds.orphaned_at
    active,    \* feeds with a QUEUED or RUNNING refresh run
    ai,        \* what content_jobs and content_artifacts hold for a feed
    pass,      \* candidates a scheduler lane has read and not yet tried
    cutoff     \* the cutoff its pass began with

feedVars == <<row, subs, orphaned, active, ai>>
vars == <<now, row, subs, orphaned, active, ai, pass, cutoff>>

-----------------------------------------------------------------------------
(* What happens to feeds meanwhile *)

Subscribe(u, f) ==
    /\ row[f] # "GONE"
    /\ u \notin subs[f]
    /\ row' = [row EXCEPT ![f] = "LIVE"]
    /\ subs' = [subs EXCEPT ![f] = @ \cup {u}]
    /\ orphaned' = [orphaned EXCEPT ![f] = NULL]
    /\ UNCHANGED <<now, active, ai, pass, cutoff>>

\* Mutant: the last subscriber leaves and the feed is not marked.
UnsubscribeOnly(u, f) ==
    /\ now <= MaxNow
    /\ u \in subs[f]
    /\ subs' = [subs EXCEPT ![f] = @ \ {u}]
    /\ UNCHANGED <<now, row, orphaned, active, ai, pass, cutoff>>

Unsubscribe(u, f) ==
    /\ now <= MaxNow
    /\ u \in subs[f]
    /\ subs' = [subs EXCEPT ![f] = @ \ {u}]
    /\ orphaned' = IF subs[f] = {u} THEN [orphaned EXCEPT ![f] = now] ELSE orphaned
    /\ UNCHANGED <<now, row, active, ai, pass, cutoff>>

\* Runs are queued for subscribed feeds only, and may outlive the subscription.
QueueRun(f) ==
    /\ subs[f] # {}
    /\ f \notin active
    /\ active' = active \cup {f}
    /\ UNCHANGED <<now, row, subs, orphaned, ai, pass, cutoff>>

EndRun(f) ==
    /\ f \in active
    /\ active' = active \ {f}
    /\ UNCHANGED <<now, row, subs, orphaned, ai, pass, cutoff>>

\* ContentRepository::enqueue, for an entry that its user can see
QueueContentJob(f) ==
    /\ f \in AiFeeds
    /\ subs[f] # {}
    /\ ai[f] = "NONE"
    /\ ai' = [ai EXCEPT ![f] = "JOBS"]
    /\ UNCHANGED <<now, row, subs, orphaned, active, pass, cutoff>>

\* complete_success does not ask whether the user still subscribes.
StoreArtifact(f) ==
    /\ ai[f] = "JOBS"
    /\ ai' = [ai EXCEPT ![f] = "ARTIFACTS"]
    /\ UNCHANGED <<now, row, subs, orphaned, active, pass, cutoff>>

-----------------------------------------------------------------------------
(* purge_orphaned_feeds *)

\* find_candidates: neither subscriptions nor runs are looked at.
Candidates(t) ==
    {f \in Feeds : row[f] = "LIVE" /\ orphaned[f] # NULL /\ orphaned[f] <= t}

Batches(t) ==
    LET C == Candidates(t)
        n == IF BatchLimit < Cardinality(C) THEN BatchLimit ELSE Cardinality(C)
        Picked(s) == {s[i] : i \in 1 .. n}
    IN  {s \in [1 .. n -> C] :
            /\ \A i, k \in 1 .. n : i < k => s[i] # s[k] /\ orphaned[s[i]] <= orphaned[s[k]]
            /\ \A f \in C \ Picked(s) : \A g \in Picked(s) : orphaned[g] <= orphaned[f]}

StartPass(l) ==
    /\ pass[l] = <<>>
    /\ Candidates(now - OrphanGrace) # {}
    /\ \E s \in Batches(now - OrphanGrace) : pass' = [pass EXCEPT ![l] = s]
    /\ cutoff' = [cutoff EXCEPT ![l] = now - OrphanGrace]
    /\ UNCHANGED <<now, feedVars>>

\* What the transaction checks again under the lock of the feed row.
MayPurge(f, t) ==
    /\ row[f] = "LIVE"
    /\ orphaned[f] # NULL
    /\ orphaned[f] <= t
    /\ subs[f] = {}
    /\ f \notin active

\* Mutant: a feed that is in use ends the pass.
StopAtCandidate(l) ==
    /\ pass[l] # <<>>
    /\ ~MayPurge(Head(pass[l]), cutoff[l])
    /\ pass' = [pass EXCEPT ![l] = <<>>]
    /\ UNCHANGED <<now, feedVars, cutoff>>

SkipCandidate(l) ==
    /\ pass[l] # <<>>
    /\ ~MayPurge(Head(pass[l]), cutoff[l])
    /\ pass' = [pass EXCEPT ![l] = Tail(@)]
    /\ UNCHANGED <<now, feedVars, cutoff>>

\* The foreign keys of the AI tables: entries cascade to jobs and artifacts,
\* but a job cannot go while an artifact names it as its producer.
CascadeRefused(f) == ai[f] = "ARTIFACTS"

DeleteFeed(l) ==
    LET f == Head(pass[l])
    IN  /\ pass[l] # <<>>
        /\ MayPurge(f, cutoff[l])
        /\ ~CascadeRefused(f)
        /\ row' = [row EXCEPT ![f] = "GONE"]
        /\ ai' = [ai EXCEPT ![f] = "NONE"]
        /\ pass' = [pass EXCEPT ![l] = Tail(@)]
        /\ UNCHANGED <<now, subs, orphaned, active, cutoff>>

\* The error of one deletion ends the pass for all candidates behind it.
DeleteFails(l) ==
    /\ pass[l] # <<>>
    /\ MayPurge(Head(pass[l]), cutoff[l])
    /\ CascadeRefused(Head(pass[l]))
    /\ pass' = [pass EXCEPT ![l] = <<>>]
    /\ UNCHANGED <<now, feedVars, cutoff>>

\* The process dies, or a database error ends the pass.
AbortPass(l) ==
    /\ pass[l] # <<>>
    /\ pass' = [pass EXCEPT ![l] = <<>>]
    /\ UNCHANGED <<now, feedVars, cutoff>>

\* The clock runs until every orphan is old enough.
Tick ==
    /\ now <= MaxNow \/ \E f \in Feeds : orphaned[f] # NULL /\ orphaned[f] + OrphanGrace > now
    /\ now' = now + 1
    /\ UNCHANGED <<feedVars, pass, cutoff>>

-----------------------------------------------------------------------------
Init ==
    /\ now = 0
    /\ row = [f \in Feeds |-> "ABSENT"]
    /\ subs = [f \in Feeds |-> {}]
    /\ orphaned = [f \in Feeds |-> NULL]
    /\ active = {}
    /\ ai = [f \in Feeds |-> "NONE"]
    /\ pass = [l \in Schedulers |-> <<>>]
    /\ cutoff = [l \in Schedulers |-> 0]

Use ==
    \E f \in Feeds :
        \/ \E u \in Users : Subscribe(u, f) \/ Unsubscribe(u, f)
        \/ QueueRun(f)
        \/ EndRun(f)
        \/ QueueContentJob(f)
        \/ StoreArtifact(f)

Pass(l) == StartPass(l) \/ SkipCandidate(l) \/ DeleteFeed(l) \/ DeleteFails(l)

Next ==
    \/ Use
    \/ \E l \in Schedulers : Pass(l) \/ AbortPass(l)
    \/ Tick

Spec == Init /\ [][Next]_vars

\* Scheduler lanes start a pass every hour, and faults cease.
RetentionFairness ==
    /\ WF_vars(Tick)
    /\ \A l \in Schedulers : WF_vars(Pass(l))
    /\ <>[][\A l \in Schedulers : AbortPass(l) => Pass(l)]_vars

FairSpec == Spec /\ RetentionFairness

-----------------------------------------------------------------------------
(* Properties *)

\* Every column keeps its type; a feed is an orphan exactly while its row
\* exists and nobody subscribes to it.
TypeOK ==
    /\ now \in Nat
    /\ row \in [Feeds -> {"ABSENT", "LIVE", "GONE"}]
    /\ subs \in [Feeds -> SUBSET Users]
    /\ orphaned \in [Feeds -> Nat \cup {NULL}]
    /\ active \subseteq Feeds
    /\ ai \in [Feeds -> {"NONE", "JOBS", "ARTIFACTS"}]
    /\ pass \in [Schedulers -> Seq(Feeds)]
    /\ cutoff \in [Schedulers -> Int]
    /\ \A f \in Feeds : row[f] = "LIVE" => (orphaned[f] # NULL <=> subs[f] = {})

\* The passes of several processes delete only feeds that have been without a
\* subscriber for the whole grace period up to the deletion, and without a run,
\* however long ago the candidate was read.
DeletesOnlyOrphans ==
    [][\A f \in Feeds :
         row[f] = "LIVE" /\ row'[f] = "GONE" =>
             /\ subs[f] = {}
             /\ f \notin active
             /\ orphaned[f] + OrphanGrace <= now]_vars

Eligible(f) == MayPurge(f, now - OrphanGrace)

\* Retention catches up where no feed has an AI artifact: no feed stays
\* eligible for ever, whichever others are in use, subscribed again or aborted.
PlainOrphansArePurged ==
    [](\A f \in Feeds : ~CascadeRefused(f)) => \A f \in Feeds : []<>~Eligible(f)

\* What the retention design promises of every eligible feed.  The code refutes
\* it: an artifact of a feed restricts its deletion, and the failed deletion
\* ends every pass before the candidates that follow.
OrphansArePurged == \A f \in Feeds : []<>~Eligible(f)
=============================================================================
