----------------------------- MODULE ContentJobs -----------------------------
(***************************************************************************)
(* The queue of AI jobs about an entry (tables content_jobs,               *)
(* content_job_attempts, content_artifacts and content_job_results) and    *)
(* the worker lanes that claim a job, keep its lease by heartbeats, call   *)
(* the provider and record the verdict.                                    *)
(*                                                                         *)
(* Every transaction locks the user row and then the job row before it     *)
(* reads anything it relies on, so a transaction is one action.  What a    *)
(* lane read before (the candidate window, the entry it sends to the       *)
(* provider, the provider's answer) stays in the lane's own variables.     *)
(* One entry is enough: jobs of different entries share only the limits    *)
(* of their user.                                                          *)
(***************************************************************************)
EXTENDS Integers, Sequences, FiniteSets

CONSTANTS
    Users,
    Keys,            \* idempotency keys of requests
    Versions,        \* contents of the entry, as content hashes
    FirstVersion,
    Lanes,           \* worker lanes of all processes
    Disableable,     \* users an operator may disable
    Leavers,         \* users that may unsubscribe from the feed of the entry
    NULL,
    MaxJobs,         \* bound: jobs ever inserted
    MaxNow,          \* bound: the clock stops here once nothing waits for it
    MaxAttempts,     \* 3
    MaxToken,        \* i64::MAX in the code
    LeaseDuration,   \* 30 s
    Timeout,         \* 120 s or 180 s
    FirstDelay,      \* 5 s
    SecondDelay,     \* 30 s
    MaxDelay,        \* 1 h
    RetryAfters,     \* waits a provider may ask for
    MaxRunning,      \* 2 running jobs for each user
    WindowSize       \* 16 candidates for each claim

JobIds == 1 .. MaxJobs

ASSUME ContentAssumption ==
    /\ {MaxJobs, MaxNow} \subseteq Nat
    /\ {MaxAttempts, MaxToken} \subseteq Nat \ {0}
    /\ {Timeout, FirstDelay, SecondDelay, MaxDelay} \subseteq Nat
    /\ LeaseDuration \in Nat \ {0}
    /\ MaxRunning \in Nat \ {0}
    /\ WindowSize \in Nat \ {0}
    /\ RetryAfters \subseteq Nat
    /\ FirstVersion \in Versions
    /\ Disableable \subseteq Users
    /\ Leavers \subseteq Users
    /\ NULL \notin Nat \cup Users \cup Lanes \cup Versions \cup Keys

VARIABLES
    now,       \* the database clock
    disabled,  \* users with users.is_disabled
    readers,   \* users subscribed to the feed of the entry
    content,   \* entries.content_hash
    job,       \* content_jobs
    attempt,   \* content_job_attempts, in the order of their number
    artifact,  \* content_artifacts
    result,    \* content_job_results
    pc,        \* where a lane is in run_lane and run_claim
    window,    \* candidates the lane has read and not yet tried
    claim,     \* the ContentJobClaim of the lane
    input,     \* the content the lane has loaded for the provider
    verdict    \* what the processor returned

tables == <<job, attempt, artifact, result>>
world == <<disabled, readers, content>>
laneVars == <<pc, window, claim, input, verdict>>
vars == <<now, disabled, readers, content, job, attempt, artifact, result,
          pc, window, claim, input, verdict>>

-----------------------------------------------------------------------------
(* Data *)

Waiting == {"QUEUED", "RETRY_WAIT"}
Terminal == {"SUCCEEDED", "FAILED"}
Instant == Nat \cup {NULL}

Job == [user : Users, version : Versions, key : Keys,
        status : Waiting \cup {"RUNNING"} \cup Terminal, attempts : 0 .. MaxAttempts,
        next : Nat, created : Nat, owner : Lanes \cup {NULL}, token : 0 .. MaxToken,
        until : Instant, deadline : Instant]
NoJob == [status |-> "ABSENT"]
Exists(j) == job[j].status # "ABSENT"

\* An attempt knows the deadline it was given; the job row forgets it.
Attempt == [token : Nat, deadline : Nat, retryable : BOOLEAN,
            status : {"RUNNING", "SUCCEEDED", "FAILED", "ABANDONED"}]

\* The identity of an artifact is its user and the version it is about;
\* source is the content the provider was really given.
Artifact == [user : Users, version : Versions, producer : JobIds, source : Versions]
Result == [artifact : Artifact, reused : BOOLEAN]

Claims == [job : JobIds, attempt : Nat, token : Nat]
Verdicts == [ok : BOOLEAN, retryable : BOOLEAN, after : Nat]

ASSUME NullAssumption == NULL \notin Claims \cup Verdicts \cup Result

MinOf(a, b) == IF a < b THEN a ELSE b
MaxOf(a, b) == IF a > b THEN a ELSE b

-----------------------------------------------------------------------------
(* Queries *)

Fresh(j) == job[j] = NoJob /\ \A i \in JobIds : i < j => Exists(i)

Live(j) ==
    /\ job[j].status = "RUNNING"
    /\ job[j].until > now
    /\ job[j].deadline > now

Due(j) == job[j].status \in Waiting /\ job[j].next <= now

Expired(j) == job[j].status = "RUNNING" /\ ~Live(j)

LiveJobs(u) == {j \in JobIds : Live(j) /\ job[j].user = u}

HasRoom(u) == Cardinality(LiveJobs(u)) < MaxRunning

\* Mutant: the jobs of dead workers are not looked for.
WaitingOnly == {j \in JobIds : Due(j) /\ HasRoom(job[j].user)}

\* due_candidates: whether the user is disabled is not asked here.
Candidates == {j \in JobIds : (Due(j) \/ Expired(j)) /\ HasRoom(job[j].user)}

\* Rows are compared by next_attempt_at and created_at, then by a random id.
Precedes(i, j) ==
    \/ job[i].next < job[j].next
    \/ job[i].next = job[j].next /\ job[i].created <= job[j].created

Windows ==
    LET C == Candidates
        n == MinOf(WindowSize, Cardinality(C))
        Picked(s) == {s[i] : i \in 1 .. n}
    IN  {s \in [1 .. n -> C] :
            /\ \A i, k \in 1 .. n : i < k => s[i] # s[k] /\ Precedes(s[i], s[k])
            /\ \A j \in C \ Picked(s) : \A i \in Picked(s) : Precedes(i, j)}

ArtifactsOf(u, v) == {x \in artifact : x.user = u /\ x.version = v}

\* Mutant: a verdict counts although the lease or the attempt has run out.
HoldsExpired(l) ==
    LET c == claim[l]
    IN  /\ c # NULL
        /\ job[c.job].user \notin disabled
        /\ job[c.job].status = "RUNNING"
        /\ job[c.job].attempts = c.attempt
        /\ job[c.job].owner = l
        /\ job[c.job].token = c.token

\* lock_active_user and validate_claim: the guard of every write of a worker.
Holds(l) ==
    LET c == claim[l]
    IN  /\ c # NULL
        /\ job[c.job].user \notin disabled
        /\ job[c.job].status = "RUNNING"
        /\ job[c.job].attempts = c.attempt
        /\ job[c.job].owner = l
        /\ job[c.job].token = c.token
        /\ Live(c.job)

-----------------------------------------------------------------------------
(* Requests *)

Inserted(u, v, k, status) ==
    [user |-> u, version |-> v, key |-> k, status |-> status, attempts |-> 0,
     next |-> now, created |-> now, owner |-> NULL, token |-> 0,
     until |-> NULL, deadline |-> NULL]

\* A request whose key is known returns the earlier job or a conflict; one for
\* a content the entry no longer has, or that the user cannot see, is refused.
Enqueue(u, v, k) ==
    /\ u \in readers \ disabled
    /\ v = content
    /\ \A i \in JobIds : Exists(i) => job[i].user # u \/ job[i].key # k
    /\ \E j \in JobIds :
          /\ Fresh(j)
          /\ IF ArtifactsOf(u, v) = {}
             THEN /\ job' = [job EXCEPT ![j] = Inserted(u, v, k, "QUEUED")]
                  /\ UNCHANGED result
             ELSE \E x \in ArtifactsOf(u, v) :
                     /\ job' = [job EXCEPT ![j] = Inserted(u, v, k, "SUCCEEDED")]
                     /\ result' = [result EXCEPT ![j] = [artifact |-> x, reused |-> TRUE]]
    /\ UNCHANGED <<now, world, attempt, artifact, laneVars>>

\* A refresh of the feed stores another content under the same entry.
EntryChanges(v) ==
    /\ v # content
    /\ content' = v
    /\ UNCHANGED <<now, disabled, readers, tables, laneVars>>

Unsubscribe(u) ==
    /\ u \in Leavers \cap readers
    /\ readers' = readers \ {u}
    /\ UNCHANGED <<now, disabled, content, tables, laneVars>>

\* No code disables a user; an operator does, in the database.
SetDisabled(u) ==
    /\ u \in Disableable
    /\ disabled' = IF u \in disabled THEN disabled \ {u} ELSE disabled \cup {u}
    /\ UNCHANGED <<now, readers, content, tables, laneVars>>

-----------------------------------------------------------------------------
(* Claiming: claim_next and try_claim_candidate *)

Goto(l, where) == pc' = [pc EXCEPT ![l] = where]

EndClaim(l) ==
    /\ Goto(l, "top")
    /\ claim' = [claim EXCEPT ![l] = NULL]
    /\ input' = [input EXCEPT ![l] = NULL]
    /\ verdict' = [verdict EXCEPT ![l] = NULL]

ReadWindow(l) ==
    /\ pc[l] = "top"
    /\ Candidates # {}
    /\ \E s \in Windows : window' = [window EXCEPT ![l] = s]
    /\ Goto(l, "claim")
    /\ UNCHANGED <<now, world, tables, claim, input, verdict>>

\* Mutant: the room found when the window was read is relied on.
ClaimableAnyway(j) ==
    /\ job[j].user \notin disabled
    /\ Due(j) \/ Expired(j)

\* What the transaction checks again under the locks.
Claimable(j) ==
    /\ job[j].user \notin disabled
    /\ Due(j) \/ Expired(j)
    /\ HasRoom(job[j].user)

Exhausted(j) == job[j].attempts = MaxAttempts \/ job[j].token = MaxToken

SkipCandidate(l) ==
    /\ pc[l] = "claim"
    /\ ~Claimable(Head(window[l]))
    /\ window' = [window EXCEPT ![l] = Tail(@)]
    /\ Goto(l, IF Tail(window[l]) = <<>> THEN "top" ELSE "claim")
    /\ UNCHANGED <<now, world, tables, claim, input, verdict>>

\* Mutant: recovery leaves the attempt of the lost worker open.
LeftOpen(j) == attempt[j]

\* abandon_attempt, when the job was running: its last attempt is closed.
Closed(j) ==
    IF Expired(j)
    THEN [attempt[j] EXCEPT ![job[j].attempts].status = "ABANDONED",
                            ![job[j].attempts].retryable = TRUE]
    ELSE attempt[j]

\* terminalize_recovery: no attempt, or no token, is left.
GiveUp(l) ==
    LET j == Head(window[l])
    IN  /\ pc[l] = "claim"
        /\ Claimable(j)
        /\ Exhausted(j)
        /\ attempt' = [attempt EXCEPT ![j] = Closed(j)]
        /\ job' = [job EXCEPT ![j] = [@ EXCEPT !.status = "FAILED", !.owner = NULL,
                                               !.until = NULL, !.deadline = NULL]]
        /\ window' = [window EXCEPT ![l] = <<>>]
        /\ Goto(l, "top")
        /\ UNCHANGED <<now, world, artifact, result, claim, input, verdict>>

StartAttempt(l) ==
    LET j == Head(window[l])
        n == job[j].attempts + 1
        token == job[j].token + 1
    IN  /\ pc[l] = "claim"
        /\ Claimable(j)
        /\ ~Exhausted(j)
        /\ attempt' = [attempt EXCEPT ![j] =
                          Append(Closed(j), [token |-> token, deadline |-> now + Timeout,
                                             status |-> "RUNNING", retryable |-> FALSE])]
        /\ job' = [job EXCEPT ![j] = [@ EXCEPT !.status = "RUNNING", !.attempts = n,
                                               !.next = now, !.owner = l, !.token = token,
                                               !.until = now + LeaseDuration,
                                               !.deadline = now + Timeout]]
        /\ claim' = [claim EXCEPT ![l] = [job |-> j, attempt |-> n, token |-> token]]
        /\ window' = [window EXCEPT ![l] = <<>>]
        /\ Goto(l, "start")
        /\ UNCHANGED <<now, world, artifact, result, input, verdict>>

-----------------------------------------------------------------------------
(* The attempt: run_claim *)

Extended(j) == [job EXCEPT ![j].until = MinOf(now + LeaseDuration, job[j].deadline)]

\* The first heartbeat comes before the processor is started.
FirstHeartbeat(l) ==
    /\ pc[l] = "start"
    /\ Holds(l)
    /\ job' = Extended(claim[l].job)
    /\ Goto(l, "load")
    /\ UNCHANGED <<now, world, attempt, artifact, result, window, claim, input, verdict>>

Rejected == [ok |-> FALSE, retryable |-> FALSE, after |-> 0]

\* load_execution_entry: the entry must still be visible and unchanged, or the
\* attempt fails for good (EXECUTION_SNAPSHOT_STALE).
LoadEntry(l) ==
    LET j == claim[l].job
    IN  /\ pc[l] = "load"
        /\ IF job[j].user \in readers \ disabled /\ content = job[j].version
           THEN /\ input' = [input EXCEPT ![l] = content]
                /\ Goto(l, "process")
                /\ UNCHANGED verdict
           ELSE /\ verdict' = [verdict EXCEPT ![l] = Rejected]
                /\ Goto(l, "finish")
                /\ UNCHANGED input
        /\ UNCHANGED <<now, world, tables, window, claim>>

\* A database error while the entry is loaded is a failure worth a retry.
LoadFails(l) ==
    /\ pc[l] = "load"
    /\ verdict' = [verdict EXCEPT ![l] = [ok |-> FALSE, retryable |-> TRUE, after |-> 0]]
    /\ Goto(l, "finish")
    /\ UNCHANGED <<now, world, tables, window, claim, input>>

\* The processor wins the race against the heartbeat, which is then stopped.
Processed(l, v) ==
    /\ pc[l] = "process"
    /\ verdict' = [verdict EXCEPT ![l] = v]
    /\ Goto(l, "finish")
    /\ UNCHANGED <<now, world, tables, window, claim, input>>

Heartbeat(l) ==
    /\ pc[l] \in {"load", "process"}
    /\ Holds(l)
    /\ job' = Extended(claim[l].job)
    /\ UNCHANGED <<now, world, attempt, artifact, result, laneVars>>

\* A heartbeat or a verdict without authority writes nothing: the processor is
\* dropped and a later claim recovers the job.
Refused(l) ==
    /\ pc[l] \in {"start", "load", "process", "finish"}
    /\ ~Holds(l)
    /\ EndClaim(l)
    /\ UNCHANGED <<now, world, tables, window>>

\* finish_attempt and finish_job: the last writes of every verdict.
Finish(l, ended, status, next) ==
    LET c == claim[l]
    IN  /\ attempt' = [attempt EXCEPT ![c.job][c.attempt].status = ended,
                                      ![c.job][c.attempt].retryable = verdict[l].retryable]
        /\ job' = [job EXCEPT ![c.job] = [@ EXCEPT !.status = status, !.next = next,
                                                   !.owner = NULL, !.until = NULL,
                                                   !.deadline = NULL]]
        /\ EndClaim(l)
        /\ UNCHANGED <<now, world, window>>

\* Mutant: the artifact of another job is not looked for.
CompleteTwice(l) ==
    LET j == claim[l].job
        made == [user |-> job[j].user, version |-> job[j].version,
                 producer |-> j, source |-> input[l]]
    IN  /\ pc[l] = "finish"
        /\ verdict[l].ok
        /\ Holds(l)
        /\ artifact' = artifact \cup {made}
        /\ result' = [result EXCEPT ![j] = [artifact |-> made, reused |-> FALSE]]
        /\ Finish(l, "SUCCEEDED", "SUCCEEDED", now)

CompleteSuccess(l) ==
    LET j == claim[l].job
        mine == ArtifactsOf(job[j].user, job[j].version)
        made == [user |-> job[j].user, version |-> job[j].version,
                 producer |-> j, source |-> input[l]]
    IN  /\ pc[l] = "finish"
        /\ verdict[l].ok
        /\ Holds(l)
        /\ IF mine = {}
           THEN /\ artifact' = artifact \cup {made}
                /\ result' = [result EXCEPT ![j] = [artifact |-> made, reused |-> FALSE]]
           ELSE /\ \E x \in mine : result' = [result EXCEPT ![j] = [artifact |-> x, reused |-> TRUE]]
                /\ UNCHANGED artifact
        /\ Finish(l, "SUCCEEDED", "SUCCEEDED", now)

BaseDelay(n) == IF n = 1 THEN FirstDelay ELSE IF n = 2 THEN SecondDelay ELSE 0

RetryDelay(n, after) == MinOf(MaxOf(BaseDelay(n), after), MaxDelay)

CompleteFailure(l) ==
    LET c == claim[l]
        v == verdict[l]
    IN  /\ pc[l] = "finish"
        /\ ~v.ok
        /\ Holds(l)
        /\ IF v.retryable /\ c.attempt < MaxAttempts
           THEN Finish(l, "FAILED", "RETRY_WAIT", now + RetryDelay(c.attempt, v.after))
           ELSE Finish(l, "FAILED", "FAILED", now)
        /\ UNCHANGED <<artifact, result>>

-----------------------------------------------------------------------------
(* Faults and time *)

\* The process dies and restarts, the shutdown aborts the lane, or a database
\* error ends the claim or the attempt without a write.
Drop(l) ==
    /\ pc[l] # "top"
    /\ EndClaim(l)
    /\ window' = [window EXCEPT ![l] = <<>>]
    /\ UNCHANGED <<now, world, tables>>

\* The clock runs up to MaxNow, and on while a lease or a delay is to end.
Tick ==
    /\ \/ now < MaxNow
       \/ \E j \in JobIds : Live(j) \/ (job[j].status \in Waiting /\ job[j].next > now)
    /\ now' = now + 1
    /\ UNCHANGED <<world, tables, laneVars>>

-----------------------------------------------------------------------------
Init ==
    /\ now = 0
    /\ disabled = {}
    /\ readers = Users
    /\ content = FirstVersion
    /\ job = [j \in JobIds |-> NoJob]
    /\ attempt = [j \in JobIds |-> <<>>]
    /\ artifact = {}
    /\ result = [j \in JobIds |-> NULL]
    /\ pc = [l \in Lanes |-> "top"]
    /\ window = [l \in Lanes |-> <<>>]
    /\ claim = [l \in Lanes |-> NULL]
    /\ input = [l \in Lanes |-> NULL]
    /\ verdict = [l \in Lanes |-> NULL]

Answers ==
    {[ok |-> TRUE, retryable |-> FALSE, after |-> 0], Rejected}
        \cup {[ok |-> FALSE, retryable |-> TRUE, after |-> d] : d \in RetryAfters}

Environment ==
    \/ \E u \in Users : Unsubscribe(u) \/ SetDisabled(u)
    \/ \E v \in Versions : EntryChanges(v)

Request == \E u \in Users, v \in Versions, k \in Keys : Enqueue(u, v, k)

Claiming(l) == ReadWindow(l) \/ SkipCandidate(l) \/ GiveUp(l) \/ StartAttempt(l)

\* The steps of a lane that do not depend on the provider.
LaneStep(l) ==
    \/ Claiming(l)
    \/ FirstHeartbeat(l)
    \/ LoadEntry(l)
    \/ Refused(l)
    \/ CompleteSuccess(l)
    \/ CompleteFailure(l)

Next ==
    \/ Request
    \/ Environment
    \/ \E l \in Lanes :
          \/ LaneStep(l)
          \/ \E v \in Answers : Processed(l, v)
          \/ Heartbeat(l)
          \/ LoadFails(l)
          \/ Drop(l)
    \/ Tick

Spec == Init /\ [][Next]_vars

\* Lanes keep running their loop, time passes, and faults cease; nothing is
\* assumed of the provider, which may never answer.
Fairness ==
    /\ WF_vars(Tick)
    /\ \A l \in Lanes : WF_vars(LaneStep(l))
    /\ <>[][\A l \in Lanes : Drop(l) => LaneStep(l)]_vars

FairSpec == Spec /\ Fairness

-----------------------------------------------------------------------------
(* Safety *)

\* Every column and lane variable keeps its type.
TypeOK ==
    /\ now \in Nat
    /\ disabled \subseteq Users
    /\ readers \subseteq Users
    /\ content \in Versions
    /\ job \in [JobIds -> Job \cup {NoJob}]
    /\ attempt \in [JobIds -> Seq(Attempt)]
    /\ artifact \subseteq Artifact
    /\ result \in [JobIds -> Result \cup {NULL}]
    /\ pc \in [Lanes -> {"top", "claim", "start", "load", "process", "finish"}]
    /\ window \in [Lanes -> Seq(JobIds)]
    /\ claim \in [Lanes -> Claims \cup {NULL}]
    /\ input \in [Lanes -> Versions \cup {NULL}]
    /\ verdict \in [Lanes -> Verdicts \cup {NULL}]

\* The attempt rows tell the story of the job, whoever claimed, lost, finished
\* or recovered it: one row per attempt and no more than MaxAttempts, all but
\* the last closed as worth a retry, and the last one agreeing with the job.
\* Recovery relies on it: it fails for good where the open row is missing.
AttemptLog ==
    \A j \in JobIds : Exists(j) =>
        LET n == Len(attempt[j])
            last == attempt[j][n]
            status == job[j].status
        IN  /\ job[j].attempts = n
            /\ n <= MaxAttempts
            /\ \A i \in 1 .. n - 1 :
                  attempt[j][i].status \in {"FAILED", "ABANDONED"} /\ attempt[j][i].retryable
            /\ status = "QUEUED" => n = 0
            /\ status = "RETRY_WAIT" => n \in 1 .. MaxAttempts - 1 /\ last.status = "FAILED" /\ last.retryable
            /\ status = "RUNNING" => n > 0 /\ last.status = "RUNNING" /\ last.token = job[j].token
            /\ status = "SUCCEEDED" => n = 0 \/ last.status = "SUCCEEDED"
            /\ status = "FAILED" => /\ n > 0
                                    /\ \/ last.status = "FAILED" /\ ~last.retryable
                                       \/ last.status \in {"FAILED", "ABANDONED"} /\ Exhausted(j)

\* However the claims of several lanes and processes interleave, no user has
\* more than MaxRunning jobs running under a live lease.
RunningLimit == \A u \in Users : Cardinality(LiveJobs(u)) <= MaxRunning

\* Two jobs of the same identity may run at once and be repeated after a lost
\* lease, yet an identity gets one artifact: the unique index is never needed.
OneArtifact == \A u \in Users, v \in Versions : Cardinality(ArtifactsOf(u, v)) <= 1

\* A job has a result if and only if it succeeded, the result links a stored
\* artifact of the job's identity, and it is marked as reused unless the job
\* itself produced the artifact.
ResultsAgree ==
    /\ \A j \in JobIds :
          /\ (result[j] # NULL) <=> (job[j].status = "SUCCEEDED")
          /\ result[j] # NULL =>
                LET x == result[j].artifact
                IN  /\ x \in ArtifactsOf(job[j].user, job[j].version)
                    /\ result[j].reused <=> x.producer # j
    /\ \A x \in artifact : result[x.producer] # NULL

\* An artifact was made from the content its identity names, although the
\* entry may change at any time after the job was queued.
SourceIsIdentity == \A x \in artifact : x.source = x.version

\* What stands in the tables after any interleaving of lanes, requests and edits:
\* one artifact to an identity, made from the content it names, results that
\* link it, and no more running jobs of a user than the limit.
ArtifactsAreSound == OneArtifact /\ SourceIsIdentity /\ ResultsAgree /\ RunningLimit

-----------------------------------------------------------------------------
(* Action properties *)

\* An attempt is closed once.  A verdict counts only while the lease lives and
\* before the deadline the attempt began with, heartbeats or not; an attempt is
\* abandoned only after that.
VerdictInTime ==
    [][\A j \in JobIds : \A i \in DOMAIN attempt[j] :
         LET old == attempt[j][i]
             new == attempt'[j][i]
         IN  \/ new = old
             \/ /\ old.status = "RUNNING"
                /\ IF new.status = "ABANDONED"
                   THEN job[j].until <= now \/ old.deadline <= now
                   ELSE job[j].until > now /\ old.deadline > now]_vars

\* A job that ended keeps its row, its attempts and its result, and an
\* artifact is never changed or removed: no late worker reopens anything.
DoneIsDone ==
    [][/\ \A j \in JobIds :
             job[j].status \in Terminal =>
                 /\ job'[j] = job[j]
                 /\ attempt'[j] = attempt[j]
                 /\ result'[j] = result[j]
       /\ artifact \subseteq artifact']_vars

\* A worker that may still write loses that right only by its own step, at the
\* end of its lease, or with its user: no other lane can take the job over.
AuthorityLasts ==
    [][\A l \in Lanes :
         Holds(l) => LET j == claim[l].job
                     IN  \/ Holds(l)'
                         \/ claim'[l] = NULL
                         \/ job[j].user \in disabled'
                         \/ job[j].until <= now' \/ job[j].deadline <= now']_vars

\* No attempt starts before the wait that the failure before it asked for is
\* over, even when the lane chose the job from a window read long ago.
RetriesWait ==
    [][\A j \in JobIds :
         job[j].status = "RETRY_WAIT" /\ job'[j].status # "RETRY_WAIT" => job[j].next <= now]_vars

\* No lane writes out of turn: verdicts in time only, nothing over what ended,
\* no attempt before its wait, and no claim taken from a lane that holds it.
JobsAreFenced == VerdictInTime /\ DoneIsDone /\ AuthorityLasts /\ RetriesWait

-----------------------------------------------------------------------------
(* Liveness *)

\* A job of a user who is not disabled for good ends, even if no provider ever
\* answers, its workers die, and other users are disabled with work pending.
JobsEnd ==
    \A u \in Users :
        <>[](u \notin disabled) =>
            \A j \in JobIds :
                (Exists(j) /\ job[j].user = u) ~> (job[j].status \in Terminal)
=============================================================================
