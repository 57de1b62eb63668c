--------------------------- MODULE ContentJobsProofs ---------------------------
(***************************************************************************)
(* Theorems about ContentJobs for every number of users, jobs, lanes and   *)
(* contents, and every limit and delay.                                    *)
(***************************************************************************)
EXTENDS ContentJobs, FiniteSetTheorems, TLAPS

-----------------------------------------------------------------------------
(* Typing *)

\* A running row has the end of its lease and of its attempt.
Row == {r \in Job : r.status = "RUNNING" => r.until # NULL /\ r.deadline # NULL}
JobTable == [JobIds -> Row \cup {NoJob}]
Places == {"top", "claim", "start", "load", "process", "finish"}

\* What a lane holds at its place in the loop, and what it has loaded: the
\* content of the claimed job's identity, or nothing.
LaneFine(l) ==
    /\ pc[l] \in {"top", "claim"} => claim[l] = NULL
    /\ pc[l] = "claim" => window[l] # <<>>
    /\ pc[l] \in {"start", "load", "process", "finish"} =>
          claim[l] # NULL /\ Exists(claim[l].job)
    /\ pc[l] = "finish" => verdict[l] # NULL
    /\ pc[l] = "process" \/ (pc[l] = "finish" /\ verdict[l].ok) =>
          input[l] # NULL /\ input[l] = job[claim[l].job].version

LaneOK == \A l \in Lanes : LaneFine(l)

TypeInv == TypeOK /\ job \in JobTable /\ LaneOK

\* A job number whose status is not "ABSENT" is a row.
LEMMA RowType ==
    ASSUME job \in JobTable, NEW j \in JobIds, job[j].status # "ABSENT"
    PROVE  job[j] \in Row
BY DEF JobTable, NoJob

\* Whatever a step does to one row, the table stays a table.
LEMMA ReplaceRow ==
    ASSUME job \in JobTable, NEW j \in JobIds, NEW x \in Row, job' = [job EXCEPT ![j] = x]
    PROVE  job' \in JobTable
BY DEF JobTable

\* Replacing an element of a sequence keeps its type and length.
LEMMA ReplaceElement ==
    ASSUME NEW S, NEW s \in Seq(S), NEW i, NEW e, i \in 1 .. Len(s) => e \in S
    PROVE  [s EXCEPT ![i] = e] \in Seq(S) /\ Len([s EXCEPT ![i] = e]) = Len(s)
<1> DEFINE t == [s EXCEPT ![i] = e]
<1>1. s \in [1 .. Len(s) -> S] /\ Len(s) \in Nat
  OBVIOUS
<1>2. t \in [1 .. Len(s) -> S]
  BY <1>1
<1> QED
  BY <1>1, <1>2

\* The attempts of a job, with the last one closed or not.
LEMMA ClosedType ==
    ASSUME TypeOK, NEW j \in JobIds
    PROVE  Closed(j) \in Seq(Attempt) /\ Len(Closed(j)) = Len(attempt[j])
<1> DEFINE n == job[j].attempts
           e == [attempt[j][n] EXCEPT !.status = "ABANDONED", !.retryable = TRUE]
<1>1. attempt[j] \in Seq(Attempt)
  BY DEF TypeOK
<1>2. CASE ~Expired(j)
  BY <1>1, <1>2 DEF Closed
<1>3. CASE Expired(j)
  <2>1. n \in 1 .. Len(attempt[j]) => e \in Attempt
    <3> SUFFICES ASSUME n \in 1 .. Len(attempt[j]) PROVE e \in Attempt
      OBVIOUS
    <3>1. attempt[j][n] \in Attempt
      BY <1>1
    <3> QED
      BY <3>1 DEF Attempt
  <2>2. [attempt[j] EXCEPT ![n].status = "ABANDONED", ![n].retryable = TRUE] = [attempt[j] EXCEPT ![n] = e]
    BY <1>1
  <2>3. Closed(j) = [attempt[j] EXCEPT ![n] = e]
    BY <1>3, <2>2 DEF Closed
  <2> HIDE DEF n, e
  <2> QED
    BY <1>1, <2>1, <2>3, ReplaceElement
<1> QED
  BY <1>2, <1>3

\* The bound on jobs makes every set of them finite.
LEMMA JobsFinite == IsFiniteSet(JobIds) /\ JobIds \subseteq Nat
<1>1. MaxJobs \in Nat
  BY ContentAssumption DEF ContentAssumption
<1>2. IsFiniteSet(1 .. MaxJobs)
  BY <1>1, FS_Interval
<1> QED
  BY <1>1, <1>2 DEF JobIds

\* A window is a list of jobs.
LEMMA WindowType ==
    ASSUME NEW s \in Windows
    PROVE  s \in Seq(JobIds)
<1> DEFINE C == Candidates
           n == MinOf(WindowSize, Cardinality(C))
<1>1. C \subseteq JobIds /\ IsFiniteSet(JobIds)
  BY JobsFinite DEF Candidates
<1>2. n \in Nat
  BY <1>1, FS_Subset, FS_CardinalityType, ContentAssumption DEF MinOf, ContentAssumption
<1>3. s \in [1 .. n -> C]
  BY DEF Windows
<1> HIDE DEF n, C
<1> QED
  BY <1>1, <1>2, <1>3

\* The empty database and idle lanes are well typed.
LEMMA TypeInit == Init => TypeInv
<1> SUFFICES ASSUME Init PROVE TypeInv
  OBVIOUS
<1>1. TypeOK
  BY ContentAssumption DEF Init, TypeOK, NoJob, ContentAssumption
<1>2. LaneOK
  BY DEF Init, LaneOK, LaneFine
<1>3. job \in JobTable
  BY DEF Init, JobTable, NoJob
<1> QED
  BY <1>1, <1>2, <1>3 DEF TypeInv

\* Rows that existed still do, about the same content.
RowsStay == \A j \in JobIds : Exists(j) => Exists(j)' /\ job'[j].version = job[j].version

\* A lane that takes no part in a step stays as it should be.
LEMMA LaneStays ==
    ASSUME TypeInv, RowsStay, NEW k \in Lanes,
           pc'[k] = pc[k], window'[k] = window[k], claim'[k] = claim[k],
           input'[k] = input[k], verdict'[k] = verdict[k]
    PROVE  LaneFine(k)'
<1>1. claim[k] # NULL => claim[k].job \in JobIds
  BY DEF TypeInv, TypeOK, Claims
<1> QED
  BY <1>1 DEF TypeInv, LaneOK, LaneFine, Exists, RowsStay

\* What the end of a claim leaves in the lane's variables.
LEMMA EndClaimType ==
    ASSUME TypeInv, RowsStay, NEW l \in Lanes, EndClaim(l),
           window' = window \/ window' = [window EXCEPT ![l] = <<>>]
    PROVE  /\ pc' \in [Lanes -> Places]
           /\ window' \in [Lanes -> Seq(JobIds)]
           /\ claim' \in [Lanes -> Claims \cup {NULL}]
           /\ input' \in [Lanes -> Versions \cup {NULL}]
           /\ verdict' \in [Lanes -> Verdicts \cup {NULL}]
           /\ LaneOK'
<1> USE DEF EndClaim, Goto
<1>1. /\ pc' \in [Lanes -> Places]
      /\ claim' \in [Lanes -> Claims \cup {NULL}]
      /\ input' \in [Lanes -> Versions \cup {NULL}]
      /\ verdict' \in [Lanes -> Verdicts \cup {NULL}]
  BY DEF TypeInv, TypeOK, Places
<1>2. window' \in [Lanes -> Seq(JobIds)]
  <2>1. <<>> \in Seq(JobIds)
    OBVIOUS
  <2> QED
    BY <2>1 DEF TypeInv, TypeOK
<1>3. ASSUME NEW k \in Lanes PROVE LaneFine(k)'
  <2>1. CASE k = l
    BY <2>1 DEF TypeInv, TypeOK, LaneFine
  <2>2. CASE k # l
    BY <2>2, LaneStays DEF TypeInv, TypeOK
  <2> QED
    BY <2>1, <2>2
<1> QED
  BY <1>1, <1>2, <1>3 DEF LaneOK

\* A new job is a row.
LEMMA InsertedType ==
    ASSUME now \in Nat, NEW u \in Users, NEW v \in Versions, NEW k \in Keys,
           NEW s \in {"QUEUED", "SUCCEEDED"}
    PROVE  Inserted(u, v, k, s) \in Row
BY ContentAssumption DEF Inserted, Row, Job, Waiting, Terminal, Instant, ContentAssumption

-----------------------------------------------------------------------------
(* One lemma per group of actions: each keeps the typing. *)

\* A request (enqueue) keeps the typing.
LEMMA RequestType ==
    ASSUME TypeInv, NEW u \in Users, NEW v \in Versions, NEW k \in Keys, Enqueue(u, v, k)
    PROVE  TypeInv'
<1>1. PICK j \in JobIds :
         /\ Fresh(j)
         /\ \/ job' = [job EXCEPT ![j] = Inserted(u, v, k, "QUEUED")] /\ UNCHANGED result
            \/ \E x \in ArtifactsOf(u, v) :
                  /\ job' = [job EXCEPT ![j] = Inserted(u, v, k, "SUCCEEDED")]
                  /\ result' = [result EXCEPT ![j] = [artifact |-> x, reused |-> TRUE]]
  BY DEF Enqueue
<1>2. PICK s \in {"QUEUED", "SUCCEEDED"} : job' = [job EXCEPT ![j] = Inserted(u, v, k, s)]
  BY <1>1
<1>3. job' \in JobTable
  BY <1>2, InsertedType, ReplaceRow DEF TypeInv, TypeOK, JobTable, Row
<1>4. RowsStay
  BY <1>1, <1>2 DEF RowsStay, Exists, Fresh, NoJob, TypeInv, TypeOK
<1>5. result' \in [JobIds -> Result \cup {NULL}]
  <2>1. result \in [JobIds -> Result \cup {NULL}] /\ artifact \subseteq Artifact
    BY DEF TypeInv, TypeOK
  <2>2. ASSUME NEW x \in ArtifactsOf(u, v) PROVE [artifact |-> x, reused |-> TRUE] \in Result
    BY <2>1 DEF Result, ArtifactsOf
  <2> QED
    BY <1>1, <2>1, <2>2
<1>6. UNCHANGED <<now, world, attempt, artifact, laneVars>>
  BY DEF Enqueue
<1>7. LaneOK'
  BY <1>4, <1>6, LaneStays DEF LaneOK, laneVars
<1> QED
  BY <1>3, <1>5, <1>6, <1>7 DEF TypeInv, TypeOK, JobTable, Row, world, laneVars

\* Users, the feed and the clock keep the typing.
LEMMA EnvironmentType == TypeInv /\ (Environment \/ Tick) => TypeInv'
<1> SUFFICES ASSUME TypeInv, Environment \/ Tick PROVE TypeInv'
  OBVIOUS
<1>1. /\ now' \in Nat /\ disabled' \subseteq Users /\ readers' \subseteq Users /\ content' \in Versions
      /\ UNCHANGED <<tables, laneVars>>
  BY DEF Environment, EntryChanges, Unsubscribe, SetDisabled, Tick, world, TypeInv, TypeOK
<1>2. RowsStay
  BY <1>1 DEF RowsStay, Exists, tables
<1>3. LaneOK'
  BY <1>1, <1>2, LaneStays DEF LaneOK, laneVars
<1> QED
  BY <1>1, <1>3 DEF TypeInv, TypeOK, tables, laneVars

\* The steps of claim_next keep the typing.
LEMMA ClaimingType ==
    ASSUME TypeInv, NEW l \in Lanes, Claiming(l)
    PROVE  TypeInv'
<1> DEFINE j == Head(window[l])
<1>1. CASE ReadWindow(l)
  <2>1. PICK s \in Windows : window' = [window EXCEPT ![l] = s]
    BY <1>1 DEF ReadWindow
  <2>2. s \in Seq(JobIds)
    BY WindowType
  <2>3. s # <<>>
    <3>1. Candidates \subseteq JobIds /\ IsFiniteSet(Candidates) /\ Candidates # {}
      BY <1>1, JobsFinite, FS_Subset DEF ReadWindow, Candidates
    <3>2. Cardinality(Candidates) \in Nat /\ Cardinality(Candidates) # 0
      BY <3>1, FS_CardinalityType, FS_EmptySet
    <3>3. MinOf(WindowSize, Cardinality(Candidates)) \in Nat \ {0}
      BY <3>2, ContentAssumption DEF MinOf, ContentAssumption
    <3>4. s \in [1 .. MinOf(WindowSize, Cardinality(Candidates)) -> Candidates]
      BY DEF Windows
    <3> QED
      BY <3>3, <3>4
  <2>4. RowsStay
    BY <1>1 DEF ReadWindow, RowsStay, Exists, tables
  <2>5. UNCHANGED <<now, world, tables, claim, input, verdict>> /\ pc' = [pc EXCEPT ![l] = "claim"]
    BY <1>1 DEF ReadWindow, Goto
  <2>6. ASSUME NEW k \in Lanes PROVE LaneFine(k)'
    <3>1. CASE k = l
      <4>1. claim[l] = NULL
        BY <1>1 DEF ReadWindow, TypeInv, LaneOK, LaneFine
      <4> QED
        BY <2>1, <2>3, <2>5, <3>1, <4>1 DEF TypeInv, TypeOK, LaneFine
    <3>2. CASE k # l
      BY <2>1, <2>4, <2>5, <3>2, LaneStays DEF TypeInv, TypeOK
    <3> QED
      BY <3>1, <3>2
  <2> QED
    BY <2>1, <2>2, <2>5, <2>6 DEF TypeInv, TypeOK, LaneOK, tables, world
<1>2. CASE SkipCandidate(l)
  <2>1. window[l] \in Seq(JobIds) /\ window[l] # <<>>
    BY <1>2 DEF SkipCandidate, TypeInv, TypeOK, LaneOK, LaneFine
  <2>2. Tail(window[l]) \in Seq(JobIds)
    BY <2>1
  <2>3. /\ window' = [window EXCEPT ![l] = Tail(window[l])]
        /\ pc' = [pc EXCEPT ![l] = IF Tail(window[l]) = <<>> THEN "top" ELSE "claim"]
        /\ UNCHANGED <<now, world, tables, claim, input, verdict>>
    BY <1>2 DEF SkipCandidate, Goto, TypeInv, TypeOK
  <2>4. RowsStay
    BY <2>3 DEF RowsStay, Exists, tables
  <2>5. ASSUME NEW k \in Lanes PROVE LaneFine(k)'
    <3>1. CASE k = l
      <4>1. claim[l] = NULL
        BY <1>2 DEF SkipCandidate, TypeInv, LaneOK, LaneFine
      <4> QED
        BY <2>3, <3>1, <4>1 DEF TypeInv, TypeOK, LaneFine
    <3>2. CASE k # l
      BY <2>3, <2>4, <3>2, LaneStays DEF TypeInv, TypeOK
    <3> QED
      BY <3>1, <3>2
  <2> QED
    BY <2>2, <2>3, <2>5 DEF TypeInv, TypeOK, LaneOK, tables, world
<1>3. CASE GiveUp(l)
  <2>1. j \in JobIds /\ job[j] \in Row
    <3>1. window[l] \in Seq(JobIds) /\ window[l] # <<>>
      BY <1>3 DEF GiveUp, TypeInv, TypeOK, LaneOK, LaneFine
    <3>2. j \in JobIds
      BY <3>1
    <3>3. job[j].status # "ABSENT"
      BY <1>3 DEF GiveUp, Claimable, Due, Expired, Waiting
    <3> QED
      BY <3>2, <3>3, RowType DEF TypeInv, TypeOK, JobTable, Row
  <2> DEFINE x == [job[j] EXCEPT !.status = "FAILED", !.owner = NULL, !.until = NULL, !.deadline = NULL]
  <2>2. job' = [job EXCEPT ![j] = x] /\ x \in Row /\ x.status = "FAILED" /\ x.version = job[j].version
    BY <1>3, <2>1 DEF GiveUp, Row, Job, Terminal, Instant
  <2>3. job' \in JobTable /\ RowsStay
    BY <2>1, <2>2, ReplaceRow DEF TypeInv, TypeOK, JobTable, Row, RowsStay, Exists
  <2>4. attempt' \in [JobIds -> Seq(Attempt)]
    BY <1>3, <2>1, ClosedType DEF GiveUp, TypeInv, TypeOK
  <2>5. /\ window' = [window EXCEPT ![l] = <<>>]
        /\ pc' = [pc EXCEPT ![l] = "top"]
        /\ UNCHANGED <<now, world, artifact, result, claim, input, verdict>>
    BY <1>3 DEF GiveUp, Goto
  <2>6. ASSUME NEW k \in Lanes PROVE LaneFine(k)'
    <3>1. CASE k = l
      <4>1. claim[l] = NULL
        BY <1>3 DEF GiveUp, TypeInv, LaneOK, LaneFine
      <4> QED
        BY <2>5, <3>1, <4>1 DEF TypeInv, TypeOK, LaneFine
    <3>2. CASE k # l
      BY <2>3, <2>5, <3>2, LaneStays DEF TypeInv, TypeOK
    <3> QED
      BY <3>1, <3>2
  <2>7. <<>> \in Seq(JobIds)
    OBVIOUS
  <2> QED
    BY <2>3, <2>4, <2>5, <2>6, <2>7 DEF TypeInv, TypeOK, JobTable, Row, LaneOK, world
<1>4. CASE StartAttempt(l)
  <2> DEFINE n == job[j].attempts + 1
             token == job[j].token + 1
  <2>1. j \in JobIds /\ job[j] \in Row
    <3>1. window[l] \in Seq(JobIds) /\ window[l] # <<>>
      BY <1>4 DEF StartAttempt, TypeInv, TypeOK, LaneOK, LaneFine
    <3>2. j \in JobIds
      BY <3>1
    <3>3. job[j].status # "ABSENT"
      BY <1>4 DEF StartAttempt, Claimable, Due, Expired, Waiting
    <3> QED
      BY <3>2, <3>3, RowType DEF TypeInv, TypeOK, JobTable, Row
  <2>2. n \in 0 .. MaxAttempts /\ token \in 0 .. MaxToken /\ n \in Nat /\ token \in Nat
    <3>1. job[j].attempts \in 0 .. MaxAttempts /\ job[j].token \in 0 .. MaxToken
      BY <2>1 DEF Row, Job
    <3>2. job[j].attempts # MaxAttempts /\ job[j].token # MaxToken
      BY <1>4 DEF StartAttempt, Exhausted
    <3> QED
      BY <3>1, <3>2, ContentAssumption DEF ContentAssumption
  <2>3. now \in Nat /\ now + Timeout \in Nat /\ now + LeaseDuration \in Nat
    BY ContentAssumption DEF TypeInv, TypeOK, ContentAssumption
  <2> DEFINE x == [job[j] EXCEPT !.status = "RUNNING", !.attempts = n, !.next = now, !.owner = l,
                                 !.token = token, !.until = now + LeaseDuration,
                                 !.deadline = now + Timeout]
             e == [token |-> token, deadline |-> now + Timeout, status |-> "RUNNING", retryable |-> FALSE]
  <2>4. job' = [job EXCEPT ![j] = x]
    BY <1>4, <2>1 DEF StartAttempt
  <2>5. x \in Row /\ x.status = "RUNNING" /\ x.version = job[j].version
    <3> HIDE DEF j, n, token
    <3> QED
      BY <2>1, <2>2, <2>3, ContentAssumption DEF Row, Job, Instant, ContentAssumption
  <2>6. job' \in JobTable /\ RowsStay /\ job'[j].status # "ABSENT"
    <3> HIDE DEF j, x
    <3> QED
      BY <2>1, <2>4, <2>5, ReplaceRow DEF TypeInv, TypeOK, JobTable, Row, RowsStay, Exists
  <2>7. attempt' \in [JobIds -> Seq(Attempt)]
    <3>1. e \in Attempt
      <4> HIDE DEF token
      <4> QED
        BY <2>2, <2>3 DEF Attempt
    <3>2. Append(Closed(j), e) \in Seq(Attempt)
      BY <2>1, <3>1, ClosedType DEF TypeInv
    <3>3. attempt' = [attempt EXCEPT ![j] = Append(Closed(j), e)]
      BY <1>4 DEF StartAttempt
    <3> QED
      BY <3>2, <3>3 DEF TypeInv, TypeOK
  <2>8. /\ window' = [window EXCEPT ![l] = <<>>]
        /\ pc' = [pc EXCEPT ![l] = "start"]
        /\ claim' = [claim EXCEPT ![l] = [job |-> j, attempt |-> n, token |-> token]]
        /\ UNCHANGED <<now, world, artifact, result, input, verdict>>
    BY <1>4 DEF StartAttempt, Goto
  <2>9. [job |-> j, attempt |-> n, token |-> token] \in Claims
    <3> HIDE DEF j, n, token
    <3> QED
      BY <2>1, <2>2 DEF Claims
  <2>10. claim' \in [Lanes -> Claims \cup {NULL}] /\ claim'[l] # NULL /\ claim'[l].job = j
    <3> HIDE DEF j, n, token
    <3> QED
      BY <2>8, <2>9, NullAssumption DEF TypeInv, TypeOK
  <2>11. ASSUME NEW k \in Lanes PROVE LaneFine(k)'
    <3> HIDE DEF j, n, token, x, e
    <3>1. CASE k = l
      <4>1. pc'[l] = "start" /\ claim'[l] # NULL /\ job'[claim'[l].job].status # "ABSENT"
        BY <2>6, <2>8, <2>10 DEF TypeInv, TypeOK
      <4> QED
        BY <3>1, <4>1 DEF LaneFine, Exists
    <3>2. CASE k # l
      BY <2>6, <2>8, <3>2, LaneStays DEF TypeInv, TypeOK
    <3> QED
      BY <3>1, <3>2
  <2>12. window' \in [Lanes -> Seq(JobIds)] /\ pc' \in [Lanes -> Places]
    <3>1. <<>> \in Seq(JobIds)
      OBVIOUS
    <3> QED
      BY <2>8, <3>1 DEF TypeInv, TypeOK, Places
  <2> HIDE DEF j, n, token, x, e
  <2> QED
    BY <2>6, <2>7, <2>8, <2>10, <2>11, <2>12 DEF TypeInv, TypeOK, JobTable, Row, LaneOK, world, Places
<1> QED
  BY <1>1, <1>2, <1>3, <1>4 DEF Claiming

\* A lane that may write holds the claim of a running row.
LEMMA HoldsRow ==
    ASSUME TypeInv, NEW l \in Lanes, Holds(l)
    PROVE  /\ claim[l] \in Claims
           /\ claim[l].job \in JobIds
           /\ job[claim[l].job] \in Row
           /\ job[claim[l].job].status = "RUNNING"
<1>1. claim[l] \in Claims /\ claim[l].job \in JobIds
  BY DEF TypeInv, TypeOK, Holds, Claims
<1>2. job[claim[l].job].status = "RUNNING"
  BY DEF Holds
<1> QED
  BY <1>1, <1>2, RowType DEF TypeInv

\* A heartbeat changes one row, and only its lease.
LEMMA ExtendedType ==
    ASSUME TypeInv, NEW l \in Lanes, Holds(l), job' = Extended(claim[l].job)
    PROVE  job' \in JobTable /\ RowsStay
<1> DEFINE j == claim[l].job
           x == [job[j] EXCEPT !.until = MinOf(now + LeaseDuration, job[j].deadline)]
<1>1. j \in JobIds /\ job[j] \in Row /\ job[j].status = "RUNNING"
  BY HoldsRow DEF TypeInv
<1>2. job[j].deadline \in Nat /\ now + LeaseDuration \in Nat
  BY <1>1, ContentAssumption DEF Holds, Live, Row, Job, Instant, TypeInv, TypeOK, ContentAssumption
<1>3. x \in Row /\ x.status = "RUNNING" /\ x.version = job[j].version
  <2>1. MinOf(now + LeaseDuration, job[j].deadline) \in Nat
    BY <1>2 DEF MinOf
  <2>2. NULL \notin Nat
    BY ContentAssumption DEF ContentAssumption
  <2> HIDE DEF j
  <2> QED
    BY <1>1, <1>2, <2>1, <2>2 DEF Row, Job, Instant
<1>4. job' = [job EXCEPT ![j] = x]
  BY <1>1 DEF Extended
<1> HIDE DEF j, x
<1> QED
  BY <1>1, <1>3, <1>4, ReplaceRow DEF TypeInv, TypeOK, JobTable, Row, RowsStay, Exists

\* A verdict changes one attempt of one job.
LEMMA FinishAttempt ==
    ASSUME TypeInv, NEW l \in Lanes, claim[l].job \in JobIds, NEW ended \in {"SUCCEEDED", "FAILED"},
           NEW status, NEW next, Finish(l, ended, status, next)
    PROVE  attempt' = [attempt EXCEPT ![claim[l].job] = [attempt[claim[l].job] EXCEPT
              ![claim[l].attempt] = [attempt[claim[l].job][claim[l].attempt] EXCEPT
                                        !.status = ended, !.retryable = verdict[l].retryable]]]
<1> DEFINE c == claim[l]
           j == c.job
           e == [attempt[j][c.attempt] EXCEPT !.status = ended, !.retryable = verdict[l].retryable]
<1> QED
  BY DEF Finish

\* The last writes of a verdict.
LEMMA FinishType ==
    ASSUME TypeInv, NEW l \in Lanes, Holds(l), verdict[l] \in Verdicts,
           NEW ended \in {"SUCCEEDED", "FAILED"},
           NEW status \in {"SUCCEEDED", "FAILED", "RETRY_WAIT"}, NEW next \in Nat,
           Finish(l, ended, status, next)
    PROVE  /\ job' \in JobTable
           /\ RowsStay
           /\ attempt' \in [JobIds -> Seq(Attempt)]
           /\ UNCHANGED <<now, world, window>>
           /\ EndClaim(l)
<1> DEFINE c == claim[l]
           j == c.job
           x == [job[j] EXCEPT !.status = status, !.next = next, !.owner = NULL, !.until = NULL,
                               !.deadline = NULL]
           e == [attempt[j][c.attempt] EXCEPT !.status = ended, !.retryable = verdict[l].retryable]
<1>1. j \in JobIds /\ job[j] \in Row /\ job[j].status = "RUNNING"
  BY HoldsRow DEF TypeInv
<1>2. /\ job' = [job EXCEPT ![j] = x]
      /\ UNCHANGED <<now, world, window>>
      /\ EndClaim(l)
  BY DEF Finish
<1>3. x \in Row /\ x.status = status /\ x.version = job[j].version
  BY <1>1 DEF Row, Job, Waiting, Terminal, Instant
<1>4. job' \in JobTable /\ RowsStay
  <2> HIDE DEF j, x
  <2> QED
    BY <1>1, <1>2, <1>3, ReplaceRow DEF TypeInv, TypeOK, JobTable, Row, RowsStay, Exists
<1>5. attempt' = [attempt EXCEPT ![j] = [attempt[j] EXCEPT ![c.attempt] = e]]
  BY <1>1, FinishAttempt
<1>6. attempt[j] \in Seq(Attempt)
  BY <1>1 DEF TypeInv, TypeOK
<1>7. c.attempt \in 1 .. Len(attempt[j]) => e \in Attempt
  <2> SUFFICES ASSUME c.attempt \in 1 .. Len(attempt[j]) PROVE e \in Attempt
    OBVIOUS
  <2>1. attempt[j][c.attempt] \in Attempt
    BY <1>6
  <2> QED
    BY <2>1 DEF Attempt, Verdicts
<1>8. attempt' \in [JobIds -> Seq(Attempt)]
  <2>1. [attempt[j] EXCEPT ![c.attempt] = e] \in Seq(Attempt)
    <3> HIDE DEF e
    <3> QED
      BY <1>6, <1>7, ReplaceElement
  <2> QED
    BY <1>5, <2>1 DEF TypeInv, TypeOK
<1> QED
  BY <1>2, <1>4, <1>8

\* The steps of run_claim and its verdicts keep the typing.
LEMMA AttemptType ==
    ASSUME TypeInv, NEW l \in Lanes,
           \/ FirstHeartbeat(l) \/ LoadEntry(l) \/ LoadFails(l) \/ Heartbeat(l) \/ Refused(l) \/ Drop(l)
           \/ CompleteSuccess(l) \/ CompleteFailure(l)
           \/ \E v \in Answers : Processed(l, v)
    PROVE  TypeInv'
<1>1. CASE FirstHeartbeat(l)
  <2>1. job' \in JobTable /\ RowsStay
    BY <1>1, ExtendedType DEF FirstHeartbeat
  <2>2. /\ pc[l] = "start" /\ pc' = [pc EXCEPT ![l] = "load"]
        /\ UNCHANGED <<now, world, attempt, artifact, result, window, claim, input, verdict>>
    BY <1>1 DEF FirstHeartbeat, Goto
  <2>3. ASSUME NEW k \in Lanes PROVE LaneFine(k)'
    <3>1. CASE k = l
      <4>1. claim[l] # NULL /\ job'[claim[l].job].status # "ABSENT"
        BY <2>1, <2>2 DEF TypeInv, TypeOK, LaneOK, LaneFine, RowsStay, Exists, Claims
      <4> QED
        BY <2>2, <3>1, <4>1 DEF TypeInv, TypeOK, LaneFine, Exists
    <3>2. CASE k # l
      BY <2>1, <2>2, <3>2, LaneStays DEF TypeInv, TypeOK
    <3> QED
      BY <3>1, <3>2
  <2> QED
    BY <2>1, <2>2, <2>3 DEF TypeInv, TypeOK, JobTable, Row, LaneOK, world
<1>2. CASE LoadEntry(l)
  <2> DEFINE j == claim[l].job
  <2>1. /\ UNCHANGED <<now, world, tables, window, claim>>
        /\ claim[l] \in Claims /\ claim[l] # NULL /\ Exists(j) /\ j \in JobIds
        /\ Rejected \in Verdicts
    BY <1>2 DEF LoadEntry, TypeInv, TypeOK, LaneOK, LaneFine, Claims, Rejected, Verdicts
  <2>2. \/ /\ input' = [input EXCEPT ![l] = content] /\ content = job[j].version
           /\ pc' = [pc EXCEPT ![l] = "process"] /\ UNCHANGED verdict
        \/ /\ verdict' = [verdict EXCEPT ![l] = Rejected]
           /\ pc' = [pc EXCEPT ![l] = "finish"] /\ UNCHANGED input
    BY <1>2 DEF LoadEntry, Goto
  <2>3. RowsStay
    BY <2>1 DEF RowsStay, Exists, tables
  <2>4. ASSUME NEW k \in Lanes PROVE LaneFine(k)'
    <3>1. CASE k = l
      <4>1. content # NULL /\ Rejected # NULL /\ ~Rejected.ok
        BY <2>1, NullAssumption, ContentAssumption DEF TypeInv, TypeOK, Rejected, ContentAssumption
      <4> QED
        BY <2>1, <2>2, <3>1, <4>1 DEF TypeInv, TypeOK, LaneFine, Exists, tables
    <3>2. CASE k # l
      BY <2>1, <2>2, <2>3, <3>2, LaneStays DEF TypeInv, TypeOK
    <3> QED
      BY <3>1, <3>2
  <2> QED
    BY <2>1, <2>2, <2>4, ZenonT(60) DEF TypeInv, TypeOK, LaneOK, tables, world
<1>3. CASE LoadFails(l) \/ \E v \in Answers : Processed(l, v)
  <2>1. PICK v \in Verdicts :
           /\ verdict' = [verdict EXCEPT ![l] = v]
           /\ pc' = [pc EXCEPT ![l] = "finish"]
           /\ UNCHANGED <<now, world, tables, window, claim, input>>
           /\ (pc[l] = "load" /\ ~v.ok) \/ pc[l] = "process"
    <3>1. Answers \subseteq Verdicts
      <4>1. ASSUME NEW d \in RetryAfters PROVE [ok |-> FALSE, retryable |-> TRUE, after |-> d] \in Verdicts
        BY ContentAssumption DEF Verdicts, ContentAssumption
      <4>2. [ok |-> TRUE, retryable |-> FALSE, after |-> 0] \in Verdicts /\ Rejected \in Verdicts
        BY DEF Verdicts, Rejected
      <4> QED
        BY <4>1, <4>2 DEF Answers
    <3>2. CASE LoadFails(l)
      <4> DEFINE v == [ok |-> FALSE, retryable |-> TRUE, after |-> 0]
      <4>1. v \in Verdicts /\ ~v.ok
        BY DEF Verdicts
      <4> QED
        BY <3>2, <4>1 DEF LoadFails, Goto
    <3>3. CASE \E v \in Answers : Processed(l, v)
      BY <3>1, <3>3 DEF Processed, Goto
    <3> QED
      BY <1>3, <3>2, <3>3
  <2>2. RowsStay
    BY <2>1 DEF RowsStay, Exists, tables
  <2>3. ASSUME NEW k \in Lanes PROVE LaneFine(k)'
    <3>1. CASE k = l
      BY <2>1, <3>1, NullAssumption DEF TypeInv, TypeOK, LaneOK, LaneFine, Exists, tables
    <3>2. CASE k # l
      BY <2>1, <2>2, <3>2, LaneStays DEF TypeInv, TypeOK
    <3> QED
      BY <3>1, <3>2
  <2> QED
    BY <2>1, <2>3 DEF TypeInv, TypeOK, LaneOK, tables, world
<1>4. CASE Heartbeat(l)
  <2>1. job' \in JobTable /\ RowsStay
    BY <1>4, ExtendedType DEF Heartbeat
  <2>2. UNCHANGED <<now, world, attempt, artifact, result, laneVars>>
    BY <1>4 DEF Heartbeat
  <2>3. LaneOK'
    BY <2>1, <2>2, LaneStays DEF LaneOK, laneVars
  <2> QED
    BY <2>1, <2>2, <2>3 DEF TypeInv, TypeOK, JobTable, Row, laneVars, world
<1>5. CASE Refused(l) \/ Drop(l)
  <2>1. /\ EndClaim(l) /\ UNCHANGED <<now, world, tables>>
        /\ window' = window \/ window' = [window EXCEPT ![l] = <<>>]
    BY <1>5 DEF Refused, Drop
  <2>2. RowsStay
    BY <2>1 DEF RowsStay, Exists, tables
  <2> QED
    BY <2>1, <2>2, EndClaimType DEF TypeInv, TypeOK, Places, tables, world
<1>6. CASE CompleteSuccess(l)
  <2> DEFINE j == claim[l].job
             made == [user |-> job[j].user, version |-> job[j].version,
                      producer |-> j, source |-> input[l]]
  <2>1. Holds(l) /\ verdict[l] \in Verdicts /\ Finish(l, "SUCCEEDED", "SUCCEEDED", now) /\ now \in Nat
    BY <1>6 DEF CompleteSuccess, TypeInv, TypeOK, LaneOK, LaneFine
  <2>2. /\ job' \in JobTable
        /\ RowsStay
        /\ attempt' \in [JobIds -> Seq(Attempt)]
        /\ UNCHANGED <<now, world, window>>
        /\ EndClaim(l)
    BY <2>1, FinishType DEF TypeInv
  <2>3. made \in Artifact
    <3>1. j \in JobIds /\ job[j] \in Row /\ input[l] \in Versions
      BY <1>6, <2>1, HoldsRow DEF CompleteSuccess, TypeInv, TypeOK, LaneOK, LaneFine
    <3> HIDE DEF j
    <3> QED
      BY <3>1 DEF Artifact, Row, Job
  <2>4. \/ /\ artifact' = artifact \cup {made}
           /\ result' = [result EXCEPT ![j] = [artifact |-> made, reused |-> FALSE]]
        \/ \E x \in artifact :
              /\ result' = [result EXCEPT ![j] = [artifact |-> x, reused |-> TRUE]]
              /\ UNCHANGED artifact
    BY <1>6 DEF CompleteSuccess, ArtifactsOf
  <2>5. artifact' \subseteq Artifact /\ result' \in [JobIds -> Result \cup {NULL}]
    <3> HIDE DEF made, j
    <3>1. \A x \in Artifact, r \in BOOLEAN : [artifact |-> x, reused |-> r] \in Result
      BY DEF Result
    <3>2. artifact \subseteq Artifact /\ result \in [JobIds -> Result \cup {NULL}]
      BY DEF TypeInv, TypeOK
    <3>3. artifact' \subseteq Artifact
      BY <2>3, <2>4, <3>2
    <3>4. \E x \in Artifact, r \in BOOLEAN : result' = [result EXCEPT ![j] = [artifact |-> x, reused |-> r]]
      BY <2>3, <2>4, <3>2
    <3> QED
      BY <3>1, <3>2, <3>3, <3>4
  <2> QED
    BY <2>2, <2>5, EndClaimType DEF TypeInv, TypeOK, JobTable, Row, Places, world
<1>7. CASE CompleteFailure(l)
  <2>1. Holds(l) /\ verdict[l] \in Verdicts /\ now \in Nat
    BY <1>7 DEF CompleteFailure, TypeInv, TypeOK, LaneOK, LaneFine
  <2>2. RetryDelay(claim[l].attempt, verdict[l].after) \in Nat
    BY <2>1, ContentAssumption DEF RetryDelay, BaseDelay, MinOf, MaxOf, Verdicts, ContentAssumption
  <2>3. \E status \in {"SUCCEEDED", "FAILED", "RETRY_WAIT"}, next \in Nat : Finish(l, "FAILED", status, next)
    BY <1>7, <2>1, <2>2 DEF CompleteFailure
  <2>4. /\ job' \in JobTable
        /\ RowsStay
        /\ attempt' \in [JobIds -> Seq(Attempt)]
        /\ UNCHANGED <<now, world, window>>
        /\ EndClaim(l)
    BY <2>1, <2>3, FinishType DEF TypeInv
  <2>5. UNCHANGED <<artifact, result>>
    BY <1>7 DEF CompleteFailure
  <2> QED
    BY <2>4, <2>5, EndClaimType DEF TypeInv, TypeOK, JobTable, Row, Places, world
<1> QED
  BY <1>1, <1>2, <1>3, <1>4, <1>5, <1>6, <1>7

\* Every step keeps the typing.
THEOREM TypeStep == TypeInv /\ [Next]_vars => TypeInv'
<1> SUFFICES ASSUME TypeInv, [Next]_vars PROVE TypeInv'
  OBVIOUS
<1>1. CASE Request
  BY <1>1, RequestType DEF Request
<1>2. CASE Environment \/ Tick
  BY <1>2, EnvironmentType
<1>3. ASSUME NEW l \in Lanes,
             LaneStep(l) \/ (\E v \in Answers : Processed(l, v)) \/ Heartbeat(l) \/ LoadFails(l) \/ Drop(l)
      PROVE  TypeInv'
  BY <1>3, ClaimingType, AttemptType DEF LaneStep
<1>4. CASE UNCHANGED vars
  <2>1. RowsStay
    BY <1>4 DEF RowsStay, Exists, vars
  <2> QED
    BY <1>4, <2>1, LaneStays DEF vars, TypeInv, TypeOK, LaneOK
<1> QED
  BY <1>1, <1>2, <1>3, <1>4 DEF Next

\* Every column and lane variable keeps its type, and a lane holds what its
\* place in the loop needs.
THEOREM TypeCorrect == Spec => []TypeOK
<1>1. TypeInv => TypeOK
  BY DEF TypeInv
<1> QED
  BY <1>1, TypeInit, TypeStep, PTL DEF Spec

\* The typing holds in every state.
LEMMA TypeAlways == Spec => []TypeInv
BY TypeInit, TypeStep, PTL DEF Spec

-----------------------------------------------------------------------------
(* Which steps write the tables, and which row *)

\* A job that a lane may claim is a row.
LEMMA HeadRow ==
    ASSUME TypeInv, NEW l \in Lanes, pc[l] = "claim", Claimable(Head(window[l]))
    PROVE  /\ Head(window[l]) \in JobIds
           /\ job[Head(window[l])] \in Row
<1>1. window[l] \in Seq(JobIds) /\ window[l] # <<>>
  BY DEF TypeInv, TypeOK, LaneOK, LaneFine
<1>2. Head(window[l]) \in JobIds
  BY <1>1
<1>3. job[Head(window[l])].status # "ABSENT"
  BY DEF Claimable, Due, Expired, Waiting
<1> QED
  BY <1>2, <1>3, RowType DEF TypeInv

\* A transaction on the queue.
Writes ==
    \/ Request
    \/ \E l \in Lanes : GiveUp(l) \/ StartAttempt(l) \/ FirstHeartbeat(l) \/ Heartbeat(l)
                           \/ CompleteSuccess(l) \/ CompleteFailure(l)

\* Every step that is not one of these transactions leaves the tables alone.
LEMMA StepKinds == [Next]_vars => UNCHANGED tables \/ Writes
BY DEF Next, Environment, LaneStep, Claiming, Unsubscribe, SetDisabled, EntryChanges, ReadWindow,
       SkipCandidate, LoadEntry, LoadFails, Processed, Refused, Drop, Tick, Writes, vars, tables

\* What a transaction may do: it changes one row, which is new, claimable or
\* held by the lane, runs it only if it was live or claimable, and only adds
\* artifacts.
RowChanged(j) ==
    /\ \/ Fresh(j)
       \/ Due(j)
       \/ job[j].status = "RUNNING"
    /\ \/ job'[j].status # "RUNNING"
       \/ (Live(j) \/ Claimable(j)) /\ job'[j].user = job[j].user
    /\ now' = now
    /\ \A i \in JobIds \ {j} : job'[i] = job[i] /\ attempt'[i] = attempt[i] /\ result'[i] = result[i]
    /\ artifact \subseteq artifact'

\* Every transaction changes one row, as RowChanged says.
LEMMA OneRow ==
    ASSUME TypeInv, Writes
    PROVE  \E j \in JobIds : RowChanged(j)
<1> USE DEF RowChanged, TypeInv, TypeOK
<1>1. CASE Request
  <2>1. PICK u \in Users, v \in Versions, k \in Keys : Enqueue(u, v, k)
    BY <1>1 DEF Request
  <2>2. PICK j \in JobIds :
           /\ Fresh(j)
           /\ \E s \in {"QUEUED", "SUCCEEDED"} : job' = [job EXCEPT ![j] = Inserted(u, v, k, s)]
           /\ UNCHANGED result \/ \E y : result' = [result EXCEPT ![j] = y]
    BY <2>1 DEF Enqueue
  <2>3. UNCHANGED <<now, attempt, artifact>>
    BY <2>1 DEF Enqueue
  <2>4. job'[j].status # "RUNNING"
    BY <2>2 DEF Inserted
  <2> QED
    BY <2>2, <2>3, <2>4
<1>2. ASSUME NEW l \in Lanes, GiveUp(l) \/ StartAttempt(l) PROVE \E j \in JobIds : RowChanged(j)
  <2> DEFINE j == Head(window[l])
  <2>1. /\ Claimable(j) /\ pc[l] = "claim"
        /\ \E y : attempt' = [attempt EXCEPT ![j] = y]
        /\ UNCHANGED <<now, artifact, result>>
    BY <1>2 DEF GiveUp, StartAttempt
  <2>2. j \in JobIds /\ job[j] \in Row
    BY <2>1, HeadRow
  <2>4. job'[j].user = job[j].user
    <3> HIDE DEF RowChanged, TypeInv, TypeOK
    <3>1. job \in JobTable /\ job[j] \in Job
      BY <2>2 DEF TypeInv, Row
    <3>2. CASE GiveUp(l)
      <4> DEFINE x == [job[j] EXCEPT !.status = "FAILED", !.owner = NULL, !.until = NULL, !.deadline = NULL]
      <4>1. job' = [job EXCEPT ![j] = x]
        BY <3>2 DEF GiveUp
      <4>2. x.user = job[j].user
        BY <3>1 DEF Job
      <4> HIDE DEF j, x
      <4> QED
        BY <2>2, <3>1, <4>1, <4>2 DEF JobTable
    <3>3. CASE StartAttempt(l)
      <4> DEFINE x == [job[j] EXCEPT !.status = "RUNNING", !.attempts = job[j].attempts + 1,
                                     !.next = now, !.owner = l, !.token = job[j].token + 1,
                                     !.until = now + LeaseDuration, !.deadline = now + Timeout]
      <4>1. job' = [job EXCEPT ![j] = x]
        BY <3>3 DEF StartAttempt
      <4>2. x.user = job[j].user
        BY <3>1 DEF Job
      <4> HIDE DEF j, x
      <4> QED
        BY <2>2, <3>1, <4>1, <4>2 DEF JobTable
    <3> QED
      BY <1>2, <3>2, <3>3
  <2>5. \E x : job' = [job EXCEPT ![j] = x]
    BY <1>2 DEF GiveUp, StartAttempt
  <2>3. Due(j) \/ job[j].status = "RUNNING"
    BY <2>1 DEF Claimable, Expired
  <2> HIDE DEF j
  <2> QED
    BY <2>1, <2>2, <2>3, <2>4, <2>5
<1>3. ASSUME NEW l \in Lanes, Holds(l),
             \E x : /\ job' = [job EXCEPT ![claim[l].job] = x]
                    /\ x.status # "RUNNING" \/ x.user = job[claim[l].job].user,
             UNCHANGED now,
             UNCHANGED attempt \/ \E y : attempt' = [attempt EXCEPT ![claim[l].job] = y],
             UNCHANGED result \/ \E y : result' = [result EXCEPT ![claim[l].job] = y],
             artifact \subseteq artifact'
      PROVE  \E j \in JobIds : RowChanged(j)
  <2> DEFINE j == claim[l].job
  <2>1. j \in JobIds /\ job[j].status = "RUNNING"
    BY <1>3, HoldsRow
  <2>2. ASSUME NEW i \in JobIds \ {j}
        PROVE  job'[i] = job[i] /\ attempt'[i] = attempt[i] /\ result'[i] = result[i]
    BY <1>3, <2>2
  <2>3. Live(j)
    BY <1>3 DEF Holds
  <2>4. job'[j].status # "RUNNING" \/ job'[j].user = job[j].user
    BY <1>3, <2>1
  <2> QED
    BY <1>3, <2>1, <2>2, <2>3, <2>4
<1>4. ASSUME NEW l \in Lanes, FirstHeartbeat(l) \/ Heartbeat(l) PROVE \E j \in JobIds : RowChanged(j)
  <2>1. /\ Holds(l)
        /\ job' = Extended(claim[l].job)
        /\ UNCHANGED <<now, attempt, result, artifact>>
    BY <1>4 DEF FirstHeartbeat, Heartbeat
  <2> DEFINE j == claim[l].job
             x == [job[j] EXCEPT !.until = MinOf(now + LeaseDuration, job[j].deadline)]
  <2>2. job' = [job EXCEPT ![j] = x]
    BY <2>1 DEF Extended
  <2>3. x.user = job[j].user
    BY <2>1, HoldsRow DEF Row, Job
  <2> HIDE DEF x
  <2> QED
    BY <1>3, <2>1, <2>2, <2>3
<1>5. ASSUME NEW l \in Lanes, CompleteSuccess(l) \/ CompleteFailure(l) PROVE \E j \in JobIds : RowChanged(j)
  <2>1. Holds(l) /\ artifact \subseteq artifact' /\ UNCHANGED now
    BY <1>5 DEF CompleteSuccess, CompleteFailure, Finish
  <2>2. UNCHANGED result \/ \E y : result' = [result EXCEPT ![claim[l].job] = y]
    BY <1>5 DEF CompleteSuccess, CompleteFailure
  <2>3. /\ \E x : job' = [job EXCEPT ![claim[l].job] = x] /\ x.status # "RUNNING"
        /\ \E y : attempt' = [attempt EXCEPT ![claim[l].job] = y]
    <3>0. PICK ended \in {"SUCCEEDED", "FAILED"}, status \in {"SUCCEEDED", "FAILED", "RETRY_WAIT"} :
             \E next : Finish(l, ended, status, next)
      BY <1>5 DEF CompleteSuccess, CompleteFailure
    <3>1. PICK next : Finish(l, ended, status, next)
      BY <3>0
    <3> DEFINE j == claim[l].job
               n == claim[l].attempt
               e == [attempt[j][n] EXCEPT !.status = ended, !.retryable = verdict[l].retryable]
    <3>2. j \in JobIds
      BY <2>1, HoldsRow
    <3>3. attempt' = [attempt EXCEPT ![j] = [attempt[j] EXCEPT ![n] = e]]
      BY <3>1, <3>2, FinishAttempt
    <3>4. job[j] \in Job
      BY <2>1, HoldsRow DEF Row
    <3> DEFINE x == [job[j] EXCEPT !.status = status, !.next = next, !.owner = NULL,
                                   !.until = NULL, !.deadline = NULL]
    <3>5. job' = [job EXCEPT ![j] = x]
      BY <3>1 DEF Finish
    <3>6. x.status = status /\ status # "RUNNING"
      BY <3>4 DEF Job
    <3> HIDE DEF x
    <3> QED
      BY <3>3, <3>5, <3>6
  <2> QED
    BY <1>3, <2>1, <2>2, <2>3
<1> QED
  BY <1>1, <1>2, <1>4, <1>5 DEF Writes

\* A job that ended keeps its row, its attempts and its result, and artifacts
\* are only added (the checks of the status in every transaction).
THEOREM DoneStays == Spec => DoneIsDone
<1>1. TypeInv /\ [Next]_vars =>
        [/\ \A j \in JobIds :
                job[j].status \in Terminal =>
                    /\ job'[j] = job[j]
                    /\ attempt'[j] = attempt[j]
                    /\ result'[j] = result[j]
         /\ artifact \subseteq artifact']_vars
  <2> SUFFICES ASSUME TypeInv, [Next]_vars
               PROVE  /\ \A j \in JobIds :
                            job[j].status \in Terminal =>
                                job'[j] = job[j] /\ attempt'[j] = attempt[j] /\ result'[j] = result[j]
                      /\ artifact \subseteq artifact'
    OBVIOUS
  <2>1. CASE UNCHANGED tables
    BY <2>1 DEF tables
  <2>2. CASE Writes
    <3>1. PICK j \in JobIds : RowChanged(j)
      BY <2>2, OneRow
    <3>2. job[j].status \notin Terminal
      BY <3>1 DEF RowChanged, Fresh, Due, NoJob, Waiting, Terminal
    <3> QED
      BY <3>1, <3>2 DEF RowChanged
  <2> QED
    BY <2>1, <2>2, StepKinds
<1> QED
  BY <1>1, TypeAlways, PTL DEF Spec, DoneIsDone

\* No attempt starts before the wait that the failure before it asked for is
\* over (try_claim_candidate checks next_attempt_at again under the lock).
THEOREM WaitsEnd == Spec => RetriesWait
<1>1. TypeInv /\ [Next]_vars =>
        [\A j \in JobIds :
            job[j].status = "RETRY_WAIT" /\ job'[j].status # "RETRY_WAIT" => job[j].next <= now]_vars
  <2> SUFFICES ASSUME TypeInv, [Next]_vars, NEW i \in JobIds,
                      job[i].status = "RETRY_WAIT", job'[i].status # "RETRY_WAIT"
               PROVE  job[i].next <= now
    OBVIOUS
  <2>1. Writes
    BY StepKinds DEF tables
  <2>2. PICK j \in JobIds : RowChanged(j)
    BY <2>1, OneRow
  <2>3. i = j /\ Due(j)
    BY <2>2 DEF RowChanged, Fresh, NoJob
  <2> QED
    BY <2>3 DEF Due
<1> QED
  BY <1>1, TypeAlways, PTL DEF Spec, RetriesWait

-----------------------------------------------------------------------------
(* Artifacts *)

\* No two artifacts have the same identity, and each was made from the content
\* it is about.
ArtifactInv ==
    \A x \in artifact :
        /\ x.source = x.version
        /\ \A y \in artifact : x.user = y.user /\ x.version = y.version => x = y

\* Only complete_success adds an artifact, and it keeps them in order.
LEMMA ArtifactStep == TypeInv /\ ArtifactInv /\ [Next]_vars => ArtifactInv'
<1> SUFFICES ASSUME TypeInv, ArtifactInv, [Next]_vars PROVE ArtifactInv'
  OBVIOUS
<1>1. CASE UNCHANGED artifact
  BY <1>1 DEF ArtifactInv
<1>2. ASSUME NEW l \in Lanes, CompleteSuccess(l) PROVE ArtifactInv'
  <2> DEFINE j == claim[l].job
             mine == ArtifactsOf(job[j].user, job[j].version)
             made == [user |-> job[j].user, version |-> job[j].version,
                      producer |-> j, source |-> input[l]]
  <2>1. UNCHANGED artifact \/ (mine = {} /\ artifact' = artifact \cup {made})
    BY <1>2 DEF CompleteSuccess
  <2>2. made.source = made.version
    BY <1>2 DEF CompleteSuccess, TypeInv, LaneOK, LaneFine
  <2>3. ASSUME mine = {}, NEW x \in artifact PROVE ~(x.user = made.user /\ x.version = made.version)
    BY <2>3 DEF ArtifactsOf
  <2> HIDE DEF mine, made
  <2> QED
    BY <2>1, <2>2, <2>3 DEF ArtifactInv
<1>3. UNCHANGED artifact \/ \E l \in Lanes : CompleteSuccess(l)
  BY StepKinds DEF tables, Writes, Request, Enqueue, GiveUp, StartAttempt, FirstHeartbeat, Heartbeat,
                   CompleteFailure
<1> QED
  BY <1>1, <1>2, <1>3

\* Artifacts are in order in every state.
LEMMA ArtifactAlways == Spec => []ArtifactInv
<1>1. Init => ArtifactInv
  BY DEF Init, ArtifactInv
<1> QED
  BY <1>1, ArtifactStep, TypeAlways, PTL DEF Spec

\* An identity gets one artifact, however many of its jobs run at once or are
\* repeated after a lost lease (complete_success reuses what it finds).
THEOREM ArtifactUnique == Spec => []OneArtifact
<1>1. ArtifactInv => OneArtifact
  <2> SUFFICES ASSUME ArtifactInv, NEW u \in Users, NEW v \in Versions
               PROVE  Cardinality(ArtifactsOf(u, v)) <= 1
    BY DEF OneArtifact
  <2>1. ASSUME NEW x \in ArtifactsOf(u, v) PROVE ArtifactsOf(u, v) = {x}
    BY <2>1 DEF ArtifactsOf, ArtifactInv
  <2>2. CASE ArtifactsOf(u, v) = {}
    BY <2>2, FS_EmptySet
  <2>3. CASE \E x : x \in ArtifactsOf(u, v)
    BY <2>1, <2>3, FS_Singleton
  <2> QED
    BY <2>2, <2>3
<1> QED
  BY <1>1, ArtifactAlways, PTL

\* An artifact was made from the content its identity names, although the
\* entry may change at any time (load_execution_entry compares the hashes).
THEOREM ArtifactFaithful == Spec => []SourceIsIdentity
<1>1. ArtifactInv => SourceIsIdentity
  BY DEF ArtifactInv, SourceIsIdentity
<1> QED
  BY <1>1, ArtifactAlways, PTL

-----------------------------------------------------------------------------
(* The limit of a user and the authority of a worker *)

\* Time does not go back.
LEMMA TimePasses == TypeInv /\ [Next]_vars => now' \in Nat /\ now <= now'
<1> SUFFICES ASSUME TypeInv, [Next]_vars PROVE now' \in Nat /\ now <= now'
  OBVIOUS
<1>1. now \in Nat
  BY DEF TypeInv, TypeOK
<1>2. UNCHANGED now \/ Tick
  BY OneRow, StepKinds, ZenonT(60)
     DEF RowChanged, Next, Environment, LaneStep, Claiming, Request, Enqueue, Unsubscribe, SetDisabled,
         EntryChanges, ReadWindow, SkipCandidate, GiveUp, StartAttempt, FirstHeartbeat, Heartbeat,
         LoadEntry, LoadFails, Processed, Refused, Drop, CompleteSuccess, CompleteFailure, Finish, vars
<1> QED
  BY <1>1, <1>2 DEF Tick

\* Only a claim adds a live job, and it has counted them under the lock.
LEMMA LimitStep == TypeInv /\ RunningLimit /\ [Next]_vars => RunningLimit'
<1> SUFFICES ASSUME TypeInv, RunningLimit, [Next]_vars, NEW u \in Users
             PROVE  Cardinality(LiveJobs(u))' <= MaxRunning
  BY DEF RunningLimit
<1> DEFINE old == LiveJobs(u)
           new == LiveJobs(u)'
<1>1. IsFiniteSet(old) /\ Cardinality(old) \in Nat /\ Cardinality(old) <= MaxRunning /\ MaxRunning \in Nat
  BY JobsFinite, FS_Subset, FS_CardinalityType, ContentAssumption DEF LiveJobs, RunningLimit, ContentAssumption
<1>2. ASSUME NEW i \in JobIds, job'[i] = job[i], Live(i)' PROVE Live(i)
  <2>1. job[i] \in Row /\ job[i].status = "RUNNING"
    BY <1>2, RowType DEF Live, TypeInv
  <2>2. job[i].until \in Nat /\ job[i].deadline \in Nat /\ now \in Nat
    BY <2>1 DEF Row, Job, Instant, TypeInv, TypeOK
  <2> QED
    BY <1>2, <2>2, TimePasses DEF Live
<1>3. CASE new \subseteq old
  BY <1>1, <1>3, FS_Subset, FS_CardinalityType
<1>4. CASE UNCHANGED tables
  BY <1>2, <1>3, <1>4 DEF tables, LiveJobs
<1>5. CASE Writes
  <2>1. PICK j \in JobIds : RowChanged(j)
    BY <1>5, OneRow
  <2>2. new \subseteq old \cup {j}
    BY <1>2, <2>1 DEF RowChanged, LiveJobs
  <2>3. CASE j \notin new
    BY <1>3, <2>2, <2>3
  <2>4. CASE j \in new /\ Live(j)
    BY <1>3, <2>1, <2>2, <2>4 DEF RowChanged, LiveJobs, Live
  <2>5. CASE j \in new /\ Claimable(j)
    <3>1. job[j].user = u
      BY <2>1, <2>5 DEF RowChanged, LiveJobs, Live
    <3>2. Cardinality(old) < MaxRunning
      BY <2>5, <3>1 DEF Claimable, HasRoom
    <3> HIDE DEF old, new
    <3>3. IsFiniteSet(old \cup {j}) /\ Cardinality(old \cup {j}) <= Cardinality(old) + 1
      <4>1. /\ IsFiniteSet(old \cup {j})
            /\ Cardinality(old \cup {j}) = IF j \in old THEN Cardinality(old) ELSE Cardinality(old) + 1
        BY <1>1, FS_AddElement
      <4> QED
        BY <1>1, <4>1
    <3>4. Cardinality(new) <= Cardinality(old \cup {j}) /\ IsFiniteSet(new)
      BY <2>2, <3>3, FS_Subset
    <3>5. Cardinality(new) \in Nat /\ Cardinality(old \cup {j}) \in Nat
      BY <3>3, <3>4, FS_CardinalityType
    <3>6. Cardinality(new) <= MaxRunning
      BY <1>1, <3>2, <3>3, <3>4, <3>5
    <3> QED
      BY <3>6 DEF new
  <2> QED
    BY <2>1, <2>3, <2>4, <2>5 DEF RowChanged, LiveJobs, Live
<1> QED
  BY <1>4, <1>5, StepKinds

\* No user has more than MaxRunning jobs running under a live lease, however
\* the claims of the lanes interleave (count_active_jobs under the user lock).
THEOREM LimitHolds == Spec => []RunningLimit
<1>1. Init => RunningLimit
  <2> SUFFICES ASSUME Init, NEW u \in Users PROVE Cardinality(LiveJobs(u)) <= MaxRunning
    BY DEF RunningLimit
  <2>1. LiveJobs(u) = {}
    BY DEF Init, LiveJobs, Live, NoJob
  <2> QED
    BY <2>1, FS_EmptySet, ContentAssumption DEF ContentAssumption
<1> QED
  BY <1>1, LimitStep, TypeAlways, PTL DEF Spec

\* The row of a worker with authority after a step that neither ends its claim
\* nor lets its lease run out: at most a heartbeat has moved the lease.
SameClaim(l) ==
    LET j == claim[l].job
    IN  /\ claim'[l] = claim[l]
        /\ \A f \in {"status", "attempts", "owner", "token", "user", "deadline"} : job'[j][f] = job[j][f]
        /\ job'[j].until = job[j].until \/ (job'[j].until > now /\ now' = now)

\* No step but the end of its claim takes the row away from a lane that holds it.
LEMMA ClaimStays ==
    ASSUME TypeInv, [Next]_vars, NEW l \in Lanes, Holds(l), claim'[l] # NULL
    PROVE  SameClaim(l)
<1> DEFINE j == claim[l].job
<1>1. j \in JobIds /\ job[j] \in Row /\ job[j].status = "RUNNING"
  BY HoldsRow
<1>2. claim'[l] = claim[l]
  <2>1. claim[l] # NULL
    BY DEF Holds
  <2>2. ASSUME NEW k \in Lanes, EndClaim(k) PROVE claim'[l] = claim[l]
    <3>1. k # l
      BY <2>2 DEF EndClaim, TypeInv, TypeOK
    <3> QED
      BY <2>2, <3>1 DEF EndClaim, TypeInv, TypeOK
  <2>3. ASSUME NEW k \in Lanes, StartAttempt(k) PROVE claim'[l] = claim[l]
    <3>1. k # l
      BY <2>1, <2>3 DEF StartAttempt, TypeInv, LaneOK, LaneFine
    <3> QED
      BY <2>3, <3>1 DEF StartAttempt, TypeInv, TypeOK
  <2>4. \/ UNCHANGED claim
        \/ \E k \in Lanes : EndClaim(k) \/ StartAttempt(k)
    BY ZenonT(60) DEF Next, Request, Environment, LaneStep, Claiming, Enqueue, Unsubscribe, SetDisabled, EntryChanges,
           ReadWindow, SkipCandidate, GiveUp, FirstHeartbeat, Heartbeat, LoadEntry, LoadFails, Processed,
           Refused, Drop, CompleteSuccess, CompleteFailure, Finish, Tick, laneVars, vars
  <2> QED
    BY <2>2, <2>3, <2>4
<1>3. CASE job'[j] = job[j]
  BY <1>2, <1>3 DEF SameClaim
<1>4. ASSUME NEW k \in Lanes, Holds(k), claim[k].job = j PROVE k = l
  BY <1>4 DEF Holds
<1>5. CASE UNCHANGED tables
  BY <1>3, <1>5 DEF tables
<1>6. CASE Request
  <2>1. PICK u \in Users, v \in Versions, k \in Keys : Enqueue(u, v, k)
    BY <1>6 DEF Request
  <2>2. PICK i \in JobIds : Fresh(i) /\ \E x : job' = [job EXCEPT ![i] = x]
    BY <2>1 DEF Enqueue
  <2>3. i # j
    BY <1>1, <2>2 DEF Fresh, NoJob
  <2> QED
    BY <1>1, <1>3, <2>2, <2>3 DEF TypeInv, TypeOK
<1>7. ASSUME NEW k \in Lanes, GiveUp(k) \/ StartAttempt(k) PROVE SameClaim(l)
  <2> DEFINE i == Head(window[k])
  <2>1. Claimable(i) /\ \E x : job' = [job EXCEPT ![i] = x]
    BY <1>7 DEF GiveUp, StartAttempt
  <2>2. i # j
    BY <1>1, <2>1 DEF Claimable, Due, Expired, Holds, Waiting
  <2> HIDE DEF i
  <2> QED
    BY <1>1, <1>3, <2>1, <2>2 DEF TypeInv, TypeOK
<1>8. ASSUME NEW k \in Lanes, FirstHeartbeat(k) \/ Heartbeat(k) PROVE SameClaim(l)
  <2>1. Holds(k) /\ job' = Extended(claim[k].job) /\ now' = now
    BY <1>8 DEF FirstHeartbeat, Heartbeat
  <2>2. CASE k # l
    <3>1. claim[k].job # j
      BY <1>4, <2>1, <2>2
    <3> QED
      BY <1>1, <1>3, <2>1, <3>1 DEF Extended, TypeInv, TypeOK
  <2>3. CASE k = l
    <3> DEFINE x == [job[j] EXCEPT !.until = MinOf(now + LeaseDuration, job[j].deadline)]
    <3>1. job'[j] = x
      BY <1>1, <2>1, <2>3 DEF Extended, TypeInv, TypeOK
    <3>2. MinOf(now + LeaseDuration, job[j].deadline) > now
      BY <1>1, ContentAssumption
         DEF Holds, Live, MinOf, Row, Job, Instant, TypeInv, TypeOK, ContentAssumption
    <3>3. job[j] \in Job
      BY <1>1 DEF Row
    <3>4. /\ x.until > now /\ x.status = job[j].status /\ x.attempts = job[j].attempts
          /\ x.owner = job[j].owner /\ x.token = job[j].token /\ x.user = job[j].user
          /\ x.deadline = job[j].deadline
      BY <3>2, <3>3 DEF Job
    <3> HIDE DEF x
    <3> QED
      BY <1>2, <2>1, <3>1, <3>4 DEF SameClaim
  <2> QED
    BY <2>2, <2>3
<1>9. ASSUME NEW k \in Lanes, CompleteSuccess(k) \/ CompleteFailure(k) PROVE SameClaim(l)
  <2>1. /\ Holds(k) /\ EndClaim(k)
        /\ \E x : job' = [job EXCEPT ![claim[k].job] = x]
    BY <1>9 DEF CompleteSuccess, CompleteFailure, Finish
  <2>2. k # l
    BY <2>1 DEF EndClaim, TypeInv, TypeOK
  <2>3. claim[k].job # j
    BY <1>4, <2>1, <2>2
  <2> QED
    BY <1>1, <1>3, <2>1, <2>3 DEF TypeInv, TypeOK
<1> QED
  BY <1>5, <1>6, <1>7, <1>8, <1>9, StepKinds DEF Writes

\* A worker that may still write loses that right only by its own step, at the
\* end of its lease, or with its user (owner, token and attempt of the row).
THEOREM AuthorityStays == Spec => AuthorityLasts
<1>1. TypeInv /\ [Next]_vars =>
        [\A l \in Lanes :
            Holds(l) => LET j == claim[l].job
                        IN  \/ Holds(l)'
                            \/ claim'[l] = NULL
                            \/ job[j].user \in disabled'
                            \/ job[j].until <= now' \/ job[j].deadline <= now']_vars
  <2> SUFFICES ASSUME TypeInv, [Next]_vars, NEW l \in Lanes, Holds(l), claim'[l] # NULL,
                      job[claim[l].job].user \notin disabled',
                      ~(job[claim[l].job].until <= now'), ~(job[claim[l].job].deadline <= now')
               PROVE  Holds(l)'
    OBVIOUS
  <2> DEFINE j == claim[l].job
  <2>1. SameClaim(l)
    BY ClaimStays
  <2>2. job[j] \in Row /\ job[j].status = "RUNNING"
    BY HoldsRow
  <2>3. job[j].until \in Nat /\ job[j].deadline \in Nat
    BY <2>2 DEF Row, Job, Instant
  <2>4. now' \in Nat
    BY TimePasses
  <2>5. job[j].until > now' /\ job[j].deadline > now'
    BY <2>3, <2>4
  <2>6. /\ job'[j].status = job[j].status /\ job'[j].attempts = job[j].attempts
        /\ job'[j].owner = job[j].owner /\ job'[j].token = job[j].token
        /\ job'[j].user = job[j].user /\ job'[j].deadline = job[j].deadline
    BY <2>1 DEF SameClaim
  <2>7. claim'[l] = claim[l] /\ job'[j].until > now'
    BY <2>1, <2>5 DEF SameClaim
  <2>8. /\ claim[l] # NULL /\ job[j].status = "RUNNING" /\ job[j].attempts = claim[l].attempt
        /\ job[j].owner = l /\ job[j].token = claim[l].token
    BY DEF Holds
  <2> QED
    BY <2>5, <2>6, <2>7, <2>8 DEF Holds, Live
<1> QED
  BY <1>1, TypeAlways, PTL DEF Spec, AuthorityLasts

-----------------------------------------------------------------------------
(* The log of attempts *)

\* A log s that agrees with the row r: AttemptLog, for one row, and what makes
\* it inductive: a job not yet started has no token, and the deadline of a
\* running row is that of its attempt.
LogFine(r, s) ==
    LET n == Len(s)
    IN  /\ r.attempts = n
        /\ n <= MaxAttempts
        /\ \A i \in 1 .. n - 1 : s[i].status \in {"FAILED", "ABANDONED"} /\ s[i].retryable
        /\ r.status = "QUEUED" => n = 0 /\ r.token = 0
        /\ r.status = "RETRY_WAIT" => n \in 1 .. MaxAttempts - 1 /\ s[n].status = "FAILED" /\ s[n].retryable
        /\ r.status = "RUNNING" => n > 0 /\ s[n].status = "RUNNING" /\ s[n].token = r.token
                                       /\ s[n].deadline = r.deadline
        /\ r.status = "SUCCEEDED" => n = 0 \/ s[n].status = "SUCCEEDED"
        /\ r.status = "FAILED" => /\ n > 0
                                  /\ \/ s[n].status = "FAILED" /\ ~s[n].retryable
                                     \/ /\ s[n].status \in {"FAILED", "ABANDONED"}
                                        /\ r.attempts = MaxAttempts \/ r.token = MaxToken

LogInv == \A j \in JobIds : IF Exists(j) THEN LogFine(job[j], attempt[j]) ELSE attempt[j] = <<>>

\* Replacing the last attempt of a log.
LEMMA ReplaceLast ==
    ASSUME NEW s \in Seq(Attempt), NEW e, Len(s) > 0
    PROVE  LET t == [s EXCEPT ![Len(s)] = e]
           IN  Len(t) = Len(s) /\ t[Len(s)] = e /\ \A i \in 1 .. Len(s) - 1 : t[i] = s[i]
<1> DEFINE t == [s EXCEPT ![Len(s)] = e]
<1>1. s \in [1 .. Len(s) -> Attempt] /\ Len(s) \in Nat
  OBVIOUS
<1>2. t \in [1 .. Len(s) -> Attempt \cup {e}]
  BY <1>1
<1>3. Len(t) = Len(s)
  BY <1>1, <1>2
<1>4. t[Len(s)] = e /\ \A i \in 1 .. Len(s) - 1 : t[i] = s[i]
  <2> DEFINE n == Len(s)
  <2>1. n \in Nat /\ n > 0 /\ s \in [1 .. n -> Attempt] /\ t = [s EXCEPT ![n] = e]
    BY <1>1
  <2> HIDE DEF n, t
  <2>2. t[n] = e /\ \A i \in 1 .. n - 1 : t[i] = s[i]
    BY <2>1
  <2> QED
    BY <2>2 DEF n
<1> QED
  BY <1>3, <1>4

\* What recovery makes of the log of a job that lost its worker.
LEMMA ClosedLog ==
    ASSUME TypeInv, LogInv, NEW j \in JobIds, Expired(j)
    PROVE  LET n == Len(attempt[j])
               old == attempt[j][n]
               new == Closed(j)[n]
           IN  /\ n > 0 /\ old.status = "RUNNING" /\ old.deadline = job[j].deadline
               /\ Len(Closed(j)) = n
               /\ \A i \in 1 .. n - 1 : Closed(j)[i] = attempt[j][i]
               /\ new = [old EXCEPT !.status = "ABANDONED", !.retryable = TRUE]
               /\ new.status = "ABANDONED" /\ new.retryable
<1> DEFINE s == attempt[j]
           n == Len(s)
           e == [s[n] EXCEPT !.status = "ABANDONED", !.retryable = TRUE]
<1>1. s \in Seq(Attempt)
  BY DEF TypeInv, TypeOK
<1>2. LogFine(job[j], s) /\ job[j].status = "RUNNING"
  BY DEF LogInv, Exists, Expired
<1>3. n > 0 /\ s[n].status = "RUNNING" /\ s[n].deadline = job[j].deadline /\ job[j].attempts = n
  BY <1>2 DEF LogFine
<1>4. Closed(j) = [s EXCEPT ![n] = e]
  <2>1. Closed(j) = [s EXCEPT ![n].status = "ABANDONED", ![n].retryable = TRUE]
    BY <1>3 DEF Closed
  <2> QED
    BY <1>1, <2>1
<1>5. s[n] \in Attempt
  BY <1>1, <1>3
<1>6. e.status = "ABANDONED" /\ e.retryable
  BY <1>5 DEF Attempt
<1> HIDE DEF s, e
<1>7. Len(Closed(j)) = n /\ Closed(j)[n] = e /\ \A i \in 1 .. n - 1 : Closed(j)[i] = s[i]
  BY <1>1, <1>3, <1>4, ReplaceLast
<1> QED
  BY <1>3, <1>6, <1>7 DEF s, e

\* The log of j becomes s by closing an attempt in time, or stays as it was:
\* VerdictInTime, for one row and for all.
TimelyRow(j, s) ==
    \A i \in 1 .. Len(attempt[j]) :
        LET old == attempt[j][i]
            new == s[i]
        IN  \/ new = old
            \/ /\ old.status = "RUNNING"
               /\ IF new.status = "ABANDONED"
                  THEN job[j].until <= now \/ old.deadline <= now
                  ELSE job[j].until > now /\ old.deadline > now

Timely == \A j \in JobIds : TimelyRow(j, attempt'[j])

\* A step that changes one row and keeps its log in order.
LEMMA LogMove ==
    ASSUME TypeInv, LogInv, NEW j \in JobIds, NEW x, NEW s,
           job' = [job EXCEPT ![j] = x], attempt' = [attempt EXCEPT ![j] = s],
           x.status # "ABSENT", LogFine(x, s), TimelyRow(j, s)
    PROVE  LogInv' /\ Timely
<1>1. job'[j] = x /\ attempt'[j] = s
  BY DEF TypeInv, TypeOK
<1>2. ASSUME NEW i \in JobIds, i # j PROVE job'[i] = job[i] /\ attempt'[i] = attempt[i]
  BY <1>2 DEF TypeInv, TypeOK
<1>3. ASSUME NEW i \in JobIds
      PROVE  IF Exists(i)' THEN LogFine(job'[i], attempt'[i]) ELSE attempt'[i] = <<>>
  <2>1. CASE i = j
    BY <1>1, <2>1 DEF Exists
  <2>2. CASE i # j
    BY <1>2, <2>2 DEF Exists, LogInv
  <2> QED
    BY <2>1, <2>2
<1>4. ASSUME NEW i \in JobIds PROVE TimelyRow(i, attempt'[i])
  BY <1>1, <1>2 DEF TimelyRow
<1> QED
  BY <1>3, <1>4 DEF LogInv, Timely

\* A new job starts with an empty log.
LEMMA LogRequest ==
    ASSUME TypeInv, LogInv, NEW u \in Users, NEW v \in Versions, NEW k \in Keys, Enqueue(u, v, k)
    PROVE  LogInv' /\ Timely
<1>1. PICK j \in JobIds :
         Fresh(j) /\ \E s \in {"QUEUED", "SUCCEEDED"} : job' = [job EXCEPT ![j] = Inserted(u, v, k, s)]
  BY DEF Enqueue
<1>2. PICK s \in {"QUEUED", "SUCCEEDED"} : job' = [job EXCEPT ![j] = Inserted(u, v, k, s)]
  BY <1>1
<1> DEFINE x == Inserted(u, v, k, s)
<1>3. attempt[j] = <<>> /\ attempt' = [attempt EXCEPT ![j] = <<>>]
  <2>1. attempt[j] = <<>>
    BY <1>1 DEF Fresh, NoJob, Exists, LogInv
  <2> QED
    BY <2>1 DEF Enqueue, TypeInv, TypeOK
<1>4. x.status = s /\ x.attempts = 0 /\ x.token = 0
  BY DEF Inserted
<1> HIDE DEF x
<1>5. LogFine(x, <<>>)
  BY <1>4, ContentAssumption DEF LogFine, ContentAssumption
<1>6. TimelyRow(j, <<>>)
  BY <1>3 DEF TimelyRow
<1> QED
  BY <1>2, <1>3, <1>4, <1>5, <1>6, LogMove DEF x

\* Recovery that gives up closes the lost attempt.
LEMMA LogGiveUp ==
    ASSUME TypeInv, LogInv, NEW l \in Lanes, GiveUp(l)
    PROVE  LogInv' /\ Timely
<1> DEFINE j == Head(window[l])
           x == [job[j] EXCEPT !.status = "FAILED", !.owner = NULL, !.until = NULL, !.deadline = NULL]
           s == attempt[j]
           n == Len(s)
<1>1. j \in JobIds /\ job[j] \in Row
  BY HeadRow DEF GiveUp
<1>2. /\ job' = [job EXCEPT ![j] = x] /\ attempt' = [attempt EXCEPT ![j] = Closed(j)]
      /\ Exhausted(j) /\ (Due(j) \/ Expired(j))
  BY DEF GiveUp, Claimable
<1>3. x.status = "FAILED" /\ x.attempts = job[j].attempts /\ x.token = job[j].token
  BY <1>1 DEF Row, Job
<1>4. LogFine(job[j], s) /\ n \in Nat
  BY <1>1, <1>2 DEF LogInv, Exists, Due, Expired, Waiting, TypeInv, TypeOK
<1> HIDE DEF j, x
<1>5. LogFine(x, Closed(j)) /\ TimelyRow(j, Closed(j))
  <2>1. CASE Expired(j)
    <3>1. /\ n > 0 /\ s[n].status = "RUNNING" /\ s[n].deadline = job[j].deadline
          /\ Len(Closed(j)) = n
          /\ \A i \in 1 .. n - 1 : Closed(j)[i] = s[i]
          /\ Closed(j)[n].status = "ABANDONED"
      BY <1>1, <2>1, ClosedLog
    <3>2. LogFine(x, Closed(j))
      BY <1>2, <1>3, <1>4, <3>1 DEF LogFine, Exhausted
    <3>3. job[j].until <= now \/ job[j].deadline <= now
      BY <1>1, <2>1 DEF Expired, Live, Row, Job, Instant, TypeInv, TypeOK
    <3>4. TimelyRow(j, Closed(j))
      <4> HIDE DEF s
      <4> QED
        BY <1>4, <3>1, <3>3 DEF TimelyRow, s
    <3> QED
      BY <3>2, <3>4
  <2>2. CASE ~Expired(j)
    <3>1. Closed(j) = s /\ Due(j)
      BY <1>2, <2>2 DEF Closed
    <3>2. LogFine(x, s)
      BY <1>2, <1>3, <1>4, <3>1, ContentAssumption
         DEF LogFine, Exhausted, Due, Waiting, ContentAssumption
    <3>3. TimelyRow(j, s)
      BY DEF TimelyRow
    <3> QED
      BY <3>1, <3>2, <3>3
  <2> QED
    BY <2>1, <2>2
<1> QED
  BY <1>1, <1>2, <1>3, <1>5, LogMove

\* A claim closes the lost attempt, if any, and opens the next.
LEMMA LogStart ==
    ASSUME TypeInv, LogInv, NEW l \in Lanes, StartAttempt(l)
    PROVE  LogInv' /\ Timely
<1> DEFINE j == Head(window[l])
           token == job[j].token + 1
           x == [job[j] EXCEPT !.status = "RUNNING", !.attempts = job[j].attempts + 1, !.next = now,
                               !.owner = l, !.token = token, !.until = now + LeaseDuration,
                               !.deadline = now + Timeout]
           e == [token |-> token, deadline |-> now + Timeout, status |-> "RUNNING", retryable |-> FALSE]
           s == attempt[j]
           n == Len(s)
           t == Append(Closed(j), e)
<1>1. j \in JobIds /\ job[j] \in Row
  BY HeadRow DEF StartAttempt
<1>2. /\ job' = [job EXCEPT ![j] = x] /\ attempt' = [attempt EXCEPT ![j] = t]
      /\ ~Exhausted(j) /\ (Due(j) \/ Expired(j))
  BY DEF StartAttempt, Claimable
<1>3. /\ x.status = "RUNNING" /\ x.attempts = job[j].attempts + 1 /\ x.token = token
      /\ x.deadline = now + Timeout
  BY <1>1 DEF Row, Job
<1>4. LogFine(job[j], s) /\ n \in Nat
  BY <1>1, <1>2 DEF LogInv, Exists, Due, Expired, Waiting, TypeInv, TypeOK
<1>5. e.status = "RUNNING" /\ e.token = token /\ e.deadline = now + Timeout
  OBVIOUS
<1>6. Closed(j) \in Seq(Attempt) /\ Len(Closed(j)) = n
  BY <1>1, ClosedType DEF TypeInv
<1> HIDE DEF j, token, x, e
<1>7. Len(t) = n + 1 /\ t[n + 1] = e /\ \A i \in 1 .. n : t[i] = Closed(j)[i]
  BY <1>4, <1>6
<1>8. job[j].attempts = n /\ n + 1 <= MaxAttempts
  BY <1>2, <1>4, ContentAssumption DEF LogFine, Exhausted, ContentAssumption
<1>9. /\ \A i \in 1 .. n : Closed(j)[i].status \in {"FAILED", "ABANDONED"} /\ Closed(j)[i].retryable
      /\ TimelyRow(j, Closed(j))
  <2>1. CASE Expired(j)
    <3>1. /\ n > 0 /\ s[n].status = "RUNNING" /\ s[n].deadline = job[j].deadline
          /\ \A i \in 1 .. n - 1 : Closed(j)[i] = s[i]
          /\ Closed(j)[n].status = "ABANDONED" /\ Closed(j)[n].retryable
      BY <1>1, <2>1, ClosedLog
    <3>2. job[j].until <= now \/ job[j].deadline <= now
      BY <1>1, <2>1 DEF Expired, Live, Row, Job, Instant, TypeInv, TypeOK
    <3>3. TimelyRow(j, Closed(j))
      <4> HIDE DEF s
      <4> QED
        BY <1>4, <3>1, <3>2 DEF TimelyRow, s
    <3>4. ASSUME NEW i \in 1 .. n
          PROVE  Closed(j)[i].status \in {"FAILED", "ABANDONED"} /\ Closed(j)[i].retryable
      BY <1>4, <3>1 DEF LogFine
    <3> QED
      BY <3>3, <3>4
  <2>2. CASE ~Expired(j)
    <3>1. Closed(j) = s /\ Due(j)
      BY <1>2, <2>2 DEF Closed
    <3>2. ASSUME NEW i \in 1 .. n PROVE s[i].status \in {"FAILED", "ABANDONED"} /\ s[i].retryable
      BY <1>4, <3>1 DEF LogFine, Due, Waiting
    <3> QED
      BY <3>1, <3>2 DEF TimelyRow
  <2> QED
    BY <2>1, <2>2
<1>10. LogFine(x, t)
  <2> HIDE DEF s, n, t
  <2> QED
    BY <1>3, <1>4, <1>5, <1>7, <1>8, <1>9 DEF LogFine
<1>11. TimelyRow(j, t)
  BY <1>7, <1>9 DEF TimelyRow
<1> QED
  BY <1>1, <1>2, <1>3, <1>10, <1>11, LogMove

\* A heartbeat leaves the log alone.
LEMMA LogBeat ==
    ASSUME TypeInv, LogInv, NEW l \in Lanes, Holds(l), job' = Extended(claim[l].job), UNCHANGED attempt
    PROVE  LogInv' /\ Timely
<1> DEFINE j == claim[l].job
           x == [job[j] EXCEPT !.until = MinOf(now + LeaseDuration, job[j].deadline)]
<1>1. j \in JobIds /\ job[j] \in Row /\ job[j].status = "RUNNING"
  BY HoldsRow
<1>2. job' = [job EXCEPT ![j] = x]
  BY DEF Extended
<1>3. x.status = "RUNNING" /\ x.attempts = job[j].attempts /\ x.token = job[j].token /\ x.deadline = job[j].deadline
  BY <1>1 DEF Row, Job
<1>4. LogFine(job[j], attempt[j])
  BY <1>1 DEF LogInv, Exists
<1> HIDE DEF j, x
<1>5. LogFine(x, attempt[j])
  BY <1>1, <1>3, <1>4 DEF LogFine
<1>6. attempt' = [attempt EXCEPT ![j] = attempt[j]]
  BY DEF TypeInv, TypeOK
<1>7. TimelyRow(j, attempt[j])
  BY DEF TimelyRow
<1> QED
  BY <1>1, <1>2, <1>3, <1>5, <1>6, <1>7, LogMove

\* A verdict closes the open attempt while lease and deadline last.
LEMMA LogFinish ==
    ASSUME TypeInv, LogInv, NEW l \in Lanes, Holds(l), verdict[l] \in Verdicts,
           NEW ended \in {"SUCCEEDED", "FAILED"}, NEW status \in {"SUCCEEDED", "FAILED", "RETRY_WAIT"},
           NEW next, Finish(l, ended, status, next),
           status = "SUCCEEDED" <=> ended = "SUCCEEDED",
           status = "RETRY_WAIT" => verdict[l].retryable /\ claim[l].attempt < MaxAttempts,
           status = "FAILED" => ~verdict[l].retryable \/ ~(claim[l].attempt < MaxAttempts)
    PROVE  LogInv' /\ Timely
<1> DEFINE j == claim[l].job
           s == attempt[j]
           n == Len(s)
           x == [job[j] EXCEPT !.status = status, !.next = next, !.owner = NULL, !.until = NULL,
                               !.deadline = NULL]
           e == [s[n] EXCEPT !.status = ended, !.retryable = verdict[l].retryable]
           t == [s EXCEPT ![n] = e]
<1>1. j \in JobIds /\ job[j] \in Row /\ job[j].status = "RUNNING" /\ Live(j)
  BY HoldsRow DEF Holds
<1>2. LogFine(job[j], s) /\ s \in Seq(Attempt) /\ n \in Nat
  BY <1>1 DEF LogInv, Exists, TypeInv, TypeOK
<1>3. /\ n > 0 /\ s[n].status = "RUNNING" /\ s[n].deadline = job[j].deadline
      /\ job[j].attempts = n /\ claim[l].attempt = n /\ n <= MaxAttempts
  BY <1>1, <1>2 DEF LogFine, Holds
<1>4. job' = [job EXCEPT ![j] = x]
  BY DEF Finish
<1>5. attempt' = [attempt EXCEPT ![j] = t]
  BY <1>1, <1>3, FinishAttempt
<1>6. x.status = status /\ x.attempts = n /\ x.token = job[j].token
  BY <1>1, <1>3 DEF Row, Job
<1>7. e.status = ended /\ e.retryable = verdict[l].retryable /\ verdict[l].retryable \in BOOLEAN
  BY <1>2, <1>3 DEF Attempt, Verdicts
<1> HIDE DEF x, e
<1>8. Len(t) = n /\ t[n] = e /\ \A i \in 1 .. n - 1 : t[i] = s[i]
  BY <1>2, <1>3, ReplaceLast
<1> HIDE DEF j, s, n, t
<1>9. LogFine(x, t)
  <2>1. /\ x.attempts = Len(t) /\ Len(t) <= MaxAttempts /\ Len(t) > 0
        /\ \A i \in 1 .. Len(t) - 1 : t[i].status \in {"FAILED", "ABANDONED"} /\ t[i].retryable
    BY <1>2, <1>3, <1>6, <1>8 DEF LogFine, n
  <2>2. x.status = "RETRY_WAIT" =>
           Len(t) \in 1 .. MaxAttempts - 1 /\ t[Len(t)].status = "FAILED" /\ t[Len(t)].retryable
    BY <1>2, <1>3, <1>6, <1>7, <1>8, ContentAssumption DEF ContentAssumption
  <2>3. x.status = "SUCCEEDED" => t[Len(t)].status = "SUCCEEDED"
    BY <1>6, <1>7, <1>8
  <2>4. x.status = "FAILED" => /\ t[Len(t)].status = "FAILED"
                               /\ ~t[Len(t)].retryable \/ x.attempts = MaxAttempts
    BY <1>2, <1>3, <1>6, <1>7, <1>8, ContentAssumption DEF ContentAssumption
  <2> QED
    BY <1>6, <2>1, <2>2, <2>3, <2>4 DEF LogFine
<1>10. TimelyRow(j, t)
  <2>1. job[j].until > now /\ s[n].deadline > now
    BY <1>1, <1>3 DEF Live
  <2> QED
    BY <1>2, <1>3, <1>7, <1>8, <2>1 DEF TimelyRow, s, n
<1> QED
  BY <1>1, <1>4, <1>5, <1>6, <1>9, <1>10, LogMove

\* Every step keeps the log in order and closes attempts in time.
LEMMA LogStep ==
    ASSUME TypeInv, LogInv, [Next]_vars
    PROVE  LogInv' /\ Timely
<1>1. CASE UNCHANGED tables
  BY <1>1 DEF tables, LogInv, Timely, TimelyRow, Exists
<1>2. CASE Request
  BY <1>2, LogRequest DEF Request
<1>3. ASSUME NEW l \in Lanes, FirstHeartbeat(l) \/ Heartbeat(l) PROVE LogInv' /\ Timely
  BY <1>3, LogBeat DEF FirstHeartbeat, Heartbeat
<1>4. ASSUME NEW l \in Lanes, CompleteSuccess(l) \/ CompleteFailure(l) PROVE LogInv' /\ Timely
  <2>1. verdict[l] \in Verdicts /\ Holds(l)
    BY <1>4 DEF CompleteSuccess, CompleteFailure, TypeInv, TypeOK, LaneOK, LaneFine
  <2>2. CASE CompleteSuccess(l)
    <3>1. Finish(l, "SUCCEEDED", "SUCCEEDED", now)
      BY <2>2 DEF CompleteSuccess
    <3> QED
      BY <2>1, <3>1, LogFinish
  <2>3. CASE CompleteFailure(l)
    <3>1. \/ /\ verdict[l].retryable /\ claim[l].attempt < MaxAttempts
             /\ \E next : Finish(l, "FAILED", "RETRY_WAIT", next)
          \/ /\ ~(verdict[l].retryable /\ claim[l].attempt < MaxAttempts)
             /\ Finish(l, "FAILED", "FAILED", now)
      BY <2>3 DEF CompleteFailure
    <3> QED
      BY <2>1, <3>1, LogFinish
  <2> QED
    BY <1>4, <2>2, <2>3
<1> QED
  BY <1>1, <1>2, <1>3, <1>4, LogGiveUp, LogStart, StepKinds DEF Writes

\* The log is in order in every state.
LEMMA LogAlways == Spec => []LogInv
<1>1. Init => LogInv
  BY DEF Init, LogInv, Exists, NoJob
<1> QED
  BY <1>1, LogStep, TypeAlways, PTL DEF Spec

\* The attempt rows agree with the job, whoever claimed, lost, finished or
\* recovered it (start_attempt, finish_attempt and abandon_attempt).
THEOREM LogAgrees == Spec => []AttemptLog
<1>1. TypeInv /\ LogInv => AttemptLog
  BY DEF LogInv, LogFine, AttemptLog, Exhausted
<1> QED
  BY <1>1, LogAlways, TypeAlways, PTL

\* An attempt is closed once; a verdict counts only while its lease and its
\* own deadline last, and only a lost attempt is abandoned.
THEOREM VerdictsInTime == Spec => VerdictInTime
<1>1. TypeInv /\ LogInv /\ [Next]_vars =>
        [\A j \in JobIds : \A i \in DOMAIN attempt[j] :
            LET old == attempt[j][i]
                new == attempt'[j][i]
            IN  \/ new = old
                \/ /\ old.status = "RUNNING"
                   /\ IF new.status = "ABANDONED"
                      THEN job[j].until <= now \/ old.deadline <= now
                      ELSE job[j].until > now /\ old.deadline > now]_vars
  <2> SUFFICES ASSUME TypeInv, LogInv, [Next]_vars, NEW j \in JobIds, NEW i \in DOMAIN attempt[j]
               PROVE  LET old == attempt[j][i]
                          new == attempt'[j][i]
                      IN  \/ new = old
                          \/ /\ old.status = "RUNNING"
                             /\ IF new.status = "ABANDONED"
                                THEN job[j].until <= now \/ old.deadline <= now
                                ELSE job[j].until > now /\ old.deadline > now
    OBVIOUS
  <2>1. i \in 1 .. Len(attempt[j])
    BY DEF TypeInv, TypeOK
  <2>2. TimelyRow(j, attempt'[j])
    BY LogStep DEF Timely
  <2> QED
    BY <2>1, <2>2 DEF TimelyRow
<1> QED
  BY <1>1, LogAlways, TypeAlways, PTL DEF Spec, VerdictInTime

-----------------------------------------------------------------------------
(* Results *)

\* A step that changes the row of a job without a result, and perhaps links or
\* produces an artifact for it.
LEMMA ResultMove ==
    ASSUME TypeInv, ResultsAgree, NEW j \in JobIds, NEW x, NEW r,
           job' = [job EXCEPT ![j] = x], result' = [result EXCEPT ![j] = r], result[j] = NULL,
           artifact \subseteq artifact', r # NULL <=> x.status = "SUCCEEDED",
           r # NULL => /\ r.artifact \in artifact' /\ r.artifact.user = x.user /\ r.artifact.version = x.version
                       /\ r.reused <=> r.artifact.producer # j,
           \A y \in artifact' \ artifact : y.producer = j /\ r # NULL
    PROVE  ResultsAgree'
<1>1. job'[j] = x /\ result'[j] = r
  BY DEF TypeInv, TypeOK
<1>2. ASSUME NEW i \in JobIds, i # j PROVE job'[i] = job[i] /\ result'[i] = result[i]
  BY <1>2 DEF TypeInv, TypeOK
<1>3. ASSUME NEW i \in JobIds
      PROVE  /\ (result'[i] # NULL) <=> (job'[i].status = "SUCCEEDED")
             /\ result'[i] # NULL => /\ result'[i].artifact \in ArtifactsOf(job[i].user, job[i].version)'
                                     /\ result'[i].reused <=> result'[i].artifact.producer # i
  <2>1. CASE i = j
    BY <1>1, <2>1 DEF ArtifactsOf
  <2>2. CASE i # j
    BY <1>2, <2>2 DEF ResultsAgree, ArtifactsOf
  <2> QED
    BY <2>1, <2>2
<1>4. ASSUME NEW y \in artifact' PROVE result'[y.producer] # NULL
  <2>1. CASE y \in artifact
    <3>1. y.producer \in JobIds /\ result[y.producer] # NULL
      BY <2>1 DEF TypeInv, TypeOK, Artifact, ResultsAgree
    <3> QED
      BY <1>2, <3>1
  <2>2. CASE y \notin artifact
    BY <1>1, <2>2
  <2> QED
    BY <2>1, <2>2
<1> QED
  BY <1>3, <1>4 DEF ResultsAgree

\* A job that has not succeeded has no result, and produced no artifact.
LEMMA NoResult ==
    ASSUME TypeInv, ResultsAgree, NEW j \in JobIds, job[j].status # "SUCCEEDED"
    PROVE  /\ result[j] = NULL /\ result = [result EXCEPT ![j] = NULL]
           /\ \A y \in artifact : y.producer # j
<1>1. result[j] = NULL
  BY DEF ResultsAgree
<1> QED
  BY <1>1 DEF ResultsAgree, TypeInv, TypeOK

\* An artifact links to a result, which is not NULL.
LEMMA LinkType ==
    ASSUME NEW y \in Artifact, NEW b \in BOOLEAN
    PROVE  [artifact |-> y, reused |-> b] # NULL
<1>1. [artifact |-> y, reused |-> b] \in Result
  BY DEF Result
<1> QED
  BY <1>1, NullAssumption

\* Every step keeps results and artifacts in agreement.
LEMMA ResultStep == TypeInv /\ ResultsAgree /\ [Next]_vars => ResultsAgree'
<1> SUFFICES ASSUME TypeInv, ResultsAgree, [Next]_vars PROVE ResultsAgree'
  OBVIOUS
<1>0. artifact \subseteq Artifact
  BY DEF TypeInv, TypeOK
<1>1. CASE UNCHANGED tables
  BY <1>1 DEF tables, ResultsAgree, ArtifactsOf
<1>2. CASE Request
  <2>1. PICK u \in Users, v \in Versions, k \in Keys : Enqueue(u, v, k)
    BY <1>2 DEF Request
  <2>2. PICK j \in JobIds :
           /\ Fresh(j)
           /\ \/ job' = [job EXCEPT ![j] = Inserted(u, v, k, "QUEUED")] /\ UNCHANGED result
              \/ \E y \in ArtifactsOf(u, v) :
                    /\ job' = [job EXCEPT ![j] = Inserted(u, v, k, "SUCCEEDED")]
                    /\ result' = [result EXCEPT ![j] = [artifact |-> y, reused |-> TRUE]]
    BY <2>1 DEF Enqueue
  <2>3. UNCHANGED artifact
    BY <2>1 DEF Enqueue
  <2>4. job[j].status # "SUCCEEDED"
    BY <2>2 DEF Fresh, NoJob
  <2>5. ASSUME NEW s
        PROVE  /\ Inserted(u, v, k, s).status = s
               /\ Inserted(u, v, k, s).user = u /\ Inserted(u, v, k, s).version = v
    BY DEF Inserted
  <2>6. CASE job' = [job EXCEPT ![j] = Inserted(u, v, k, "QUEUED")] /\ UNCHANGED result
    <3> DEFINE x == Inserted(u, v, k, "QUEUED")
    <3>1. x.status = "QUEUED" /\ job' = [job EXCEPT ![j] = x]
      BY <2>5, <2>6
    <3>2. result[j] = NULL /\ result' = [result EXCEPT ![j] = NULL]
      BY <2>4, <2>6, NoResult
    <3> HIDE DEF x
    <3> QED
      BY <2>3, <3>1, <3>2, ResultMove
  <2>7. CASE \E y \in ArtifactsOf(u, v) :
                /\ job' = [job EXCEPT ![j] = Inserted(u, v, k, "SUCCEEDED")]
                /\ result' = [result EXCEPT ![j] = [artifact |-> y, reused |-> TRUE]]
    <3>1. PICK y \in ArtifactsOf(u, v) :
             /\ job' = [job EXCEPT ![j] = Inserted(u, v, k, "SUCCEEDED")]
             /\ result' = [result EXCEPT ![j] = [artifact |-> y, reused |-> TRUE]]
      BY <2>7
    <3>2. y \in artifact /\ y.user = u /\ y.version = v
      BY DEF ArtifactsOf
    <3> DEFINE r == [artifact |-> y, reused |-> TRUE]
               x == Inserted(u, v, k, "SUCCEEDED")
    <3>3. r # NULL /\ r.artifact = y /\ r.reused
      BY <1>0, <3>2, LinkType
    <3>4. x.status = "SUCCEEDED" /\ x.user = u /\ x.version = v
      BY <2>5
    <3>5. job' = [job EXCEPT ![j] = x] /\ result' = [result EXCEPT ![j] = r]
      BY <3>1
    <3>6. result[j] = NULL /\ y.producer # j
      BY <2>4, <3>2, NoResult
    <3> HIDE DEF r, x
    <3> QED
      BY <2>3, <3>2, <3>3, <3>4, <3>5, <3>6, ResultMove
  <2> QED
    BY <2>2, <2>6, <2>7
<1>3. ASSUME NEW j \in JobIds, NEW x, job' = [job EXCEPT ![j] = x], UNCHANGED <<artifact, result>>,
             job[j].status # "SUCCEEDED", x.status # "SUCCEEDED"
      PROVE  ResultsAgree'
  BY <1>3, NoResult, ResultMove
<1>4. ASSUME NEW l \in Lanes, GiveUp(l) PROVE ResultsAgree'
  <2> DEFINE j == Head(window[l])
             x == [job[j] EXCEPT !.status = "FAILED", !.owner = NULL, !.until = NULL, !.deadline = NULL]
  <2>1. j \in JobIds /\ job[j] \in Row /\ job[j].status # "SUCCEEDED"
    BY <1>4, HeadRow DEF GiveUp, Claimable, Due, Expired, Waiting
  <2>2. x.status = "FAILED"
    BY <2>1 DEF Row, Job
  <2>3. job' = [job EXCEPT ![j] = x] /\ UNCHANGED <<artifact, result>>
    BY <1>4 DEF GiveUp
  <2> HIDE DEF j, x
  <2> QED
    BY <1>3, <2>1, <2>2, <2>3
<1>5. ASSUME NEW l \in Lanes, StartAttempt(l) PROVE ResultsAgree'
  <2> DEFINE j == Head(window[l])
             x == [job[j] EXCEPT !.status = "RUNNING", !.attempts = job[j].attempts + 1, !.next = now,
                                 !.owner = l, !.token = job[j].token + 1,
                                 !.until = now + LeaseDuration, !.deadline = now + Timeout]
  <2>1. j \in JobIds /\ job[j] \in Row /\ job[j].status # "SUCCEEDED"
    BY <1>5, HeadRow DEF StartAttempt, Claimable, Due, Expired, Waiting
  <2>2. x.status = "RUNNING"
    BY <2>1 DEF Row, Job
  <2>3. job' = [job EXCEPT ![j] = x] /\ UNCHANGED <<artifact, result>>
    BY <1>5 DEF StartAttempt
  <2> HIDE DEF j, x
  <2> QED
    BY <1>3, <2>1, <2>2, <2>3
<1>6. ASSUME NEW l \in Lanes, FirstHeartbeat(l) \/ Heartbeat(l) PROVE ResultsAgree'
  <2> DEFINE j == claim[l].job
             x == [job[j] EXCEPT !.until = MinOf(now + LeaseDuration, job[j].deadline)]
  <2>1. Holds(l) /\ job' = Extended(j) /\ UNCHANGED <<artifact, result>>
    BY <1>6 DEF FirstHeartbeat, Heartbeat
  <2>2. j \in JobIds /\ job[j] \in Row /\ job[j].status = "RUNNING"
    BY <2>1, HoldsRow
  <2>3. x.status = "RUNNING" /\ job' = [job EXCEPT ![j] = x]
    BY <2>1, <2>2 DEF Row, Job, Extended
  <2> HIDE DEF j, x
  <2> QED
    BY <1>3, <2>1, <2>2, <2>3
<1>7. ASSUME NEW l \in Lanes, NEW ended, NEW status, NEW next, Holds(l), Finish(l, ended, status, next)
      PROVE  /\ claim[l].job \in JobIds /\ job[claim[l].job].status = "RUNNING"
             /\ \E x : /\ job' = [job EXCEPT ![claim[l].job] = x]
                       /\ x.status = status /\ x.user = job[claim[l].job].user
                       /\ x.version = job[claim[l].job].version
  <2> DEFINE j == claim[l].job
             x == [job[j] EXCEPT !.status = status, !.next = next, !.owner = NULL, !.until = NULL,
                                 !.deadline = NULL]
  <2>1. j \in JobIds /\ job[j] \in Row /\ job[j].status = "RUNNING"
    BY <1>7, HoldsRow
  <2>2. job' = [job EXCEPT ![j] = x]
    BY <1>7 DEF Finish
  <2>3. x.status = status /\ x.user = job[j].user /\ x.version = job[j].version
    BY <2>1 DEF Row, Job
  <2> HIDE DEF x
  <2> QED
    BY <2>1, <2>2, <2>3
<1>8. ASSUME NEW l \in Lanes, CompleteFailure(l) PROVE ResultsAgree'
  <2>0. PICK status \in {"RETRY_WAIT", "FAILED"} : \E next : Finish(l, "FAILED", status, next)
    BY <1>8 DEF CompleteFailure
  <2>1. PICK next : Finish(l, "FAILED", status, next)
    BY <2>0
  <2>2. Holds(l) /\ UNCHANGED <<artifact, result>>
    BY <1>8 DEF CompleteFailure
  <2> QED
    BY <1>3, <1>7, <2>1, <2>2
<1>9. ASSUME NEW l \in Lanes, CompleteSuccess(l) PROVE ResultsAgree'
  <2> DEFINE j == claim[l].job
             mine == ArtifactsOf(job[j].user, job[j].version)
             made == [user |-> job[j].user, version |-> job[j].version, producer |-> j, source |-> input[l]]
  <2>1. Holds(l) /\ Finish(l, "SUCCEEDED", "SUCCEEDED", now)
    BY <1>9 DEF CompleteSuccess
  <2>2. j \in JobIds /\ job[j].status = "RUNNING"
    BY <1>7, <2>1
  <2>3. PICK x : /\ job' = [job EXCEPT ![j] = x]
                 /\ x.status = "SUCCEEDED" /\ x.user = job[j].user /\ x.version = job[j].version
    BY <1>7, <2>1
  <2>4. CASE mine = {}
    <3>1. /\ artifact' = artifact \cup {made}
          /\ result' = [result EXCEPT ![j] = [artifact |-> made, reused |-> FALSE]]
      BY <1>9, <2>4 DEF CompleteSuccess
    <3>2. made \in Artifact
      <4>1. artifact' \subseteq Artifact
        BY TypeStep DEF TypeInv, TypeOK
      <4> QED
        BY <3>1, <4>1
    <3>3. made.user = job[j].user /\ made.version = job[j].version /\ made.producer = j
      OBVIOUS
    <3> DEFINE r == [artifact |-> made, reused |-> FALSE]
    <3>4. r # NULL /\ r.artifact = made /\ ~r.reused
      BY <3>2, LinkType
    <3>5. result' = [result EXCEPT ![j] = r]
      BY <3>1
    <3>6. result[j] = NULL
      BY <2>2, NoResult
    <3>7. artifact \subseteq artifact' /\ made \in artifact' /\ \A y \in artifact' \ artifact : y = made
      BY <3>1
    <3> HIDE DEF r, made, j
    <3>8. /\ r.artifact \in artifact' /\ r.artifact.user = x.user /\ r.artifact.version = x.version
          /\ r.reused <=> r.artifact.producer # j
      BY <2>3, <3>3, <3>4, <3>7
    <3>9. \A y \in artifact' \ artifact : y.producer = j /\ r # NULL
      BY <3>3, <3>4, <3>7
    <3> QED
      BY <2>2, <2>3, <3>4, <3>5, <3>6, <3>7, <3>8, <3>9, ResultMove
  <2>5. CASE mine # {}
    <3>1. PICK y \in mine : result' = [result EXCEPT ![j] = [artifact |-> y, reused |-> TRUE]]
      BY <1>9, <2>5 DEF CompleteSuccess
    <3>2. UNCHANGED artifact
      BY <1>9, <2>5 DEF CompleteSuccess
    <3>3. y \in artifact /\ y.user = job[j].user /\ y.version = job[j].version
      BY DEF ArtifactsOf
    <3> DEFINE r == [artifact |-> y, reused |-> TRUE]
    <3>4. r # NULL /\ r.artifact = y /\ r.reused
      BY <1>0, <3>3, LinkType
    <3>5. result' = [result EXCEPT ![j] = r]
      BY <3>1
    <3> HIDE DEF r, j
    <3> QED
      BY <2>2, <2>3, <3>2, <3>3, <3>4, <3>5, NoResult, ResultMove
  <2> QED
    BY <2>4, <2>5
<1> QED
  BY <1>1, <1>2, <1>4, <1>5, <1>6, <1>8, <1>9, StepKinds DEF Writes

\* A job has a result if and only if it succeeded; the result links a stored
\* artifact of its identity and says truly whether it was reused.
THEOREM ResultsCorrect == Spec => []ResultsAgree
<1>1. Init => ResultsAgree
  BY DEF Init, ResultsAgree, NoJob
<1> QED
  BY <1>1, ResultStep, TypeAlways, PTL DEF Spec

-----------------------------------------------------------------------------
(* Together, as the runs check them *)

\* What stands in the tables is right, after any interleaving.
THEOREM ArtifactsSound == Spec => []ArtifactsAreSound
BY ArtifactUnique, ArtifactFaithful, ResultsCorrect, LimitHolds, PTL DEF ArtifactsAreSound

\* No lane writes out of turn.
THEOREM JobsFenced == Spec => JobsAreFenced
BY VerdictsInTime, DoneStays, AuthorityStays, WaitsEnd DEF JobsAreFenced
=============================================================================
