------------------------------ MODULE BackupJobs ------------------------------
(***************************************************************************)
(* Backups of one user's subscriptions to several targets: the targets,    *)
(* the schedule, the queue of jobs and the runtimes that work on it.       *)
(* backups/repository.rs and backups/runtime.rs.                           *)
(*                                                                         *)
(* A claim is a worker's memory of the job it took; owner and lease_token  *)
(* of the row say whose claim counts, which "holder" stands for: a row     *)
(* that was taken back or claimed again no longer names the worker.  Time  *)
(* only matters as the end of a lease, which may come at any moment while  *)
(* "faults" are left, and always comes during the upload to a slow target. *)
(***************************************************************************)
EXTENDS Integers, FiniteSets, FiniteSetsExt, Absence

CONSTANTS BackupTargets, \* numbered in the order of their names
          SlowTargets,   \* whose uploads take longer than a lease
          BackupJobIds,  \* numbered in the order of creation
          BackupWorkers, \* processes that run a BackupRuntime
          JobsPerPass,   \* MAX_JOBS_PER_PASS
          MaxEdits,      \* bound on changes of targets and schedule
          MaxFaults      \* bound on crashes and pauses

ASSUME BackupAssumption ==
    /\ BackupTargets \subseteq Nat /\ BackupJobIds \subseteq Nat
    /\ IsFiniteSet(BackupTargets) /\ IsFiniteSet(BackupJobIds)
    /\ SlowTargets \subseteq BackupTargets
    /\ JobsPerPass \in Nat \ {0} /\ MaxEdits \in Nat /\ MaxFaults \in Nat
    /\ None \notin BackupWorkers \cup Nat

VARIABLES
    target,   \* rows of backup_targets: enabled and revision, or None
    plan,     \* backup_schedule_targets, empty if the schedule is disabled
    bjob,     \* rows of backup_jobs: status, holder and lease, or None
    outcome,  \* rows of backup_job_targets: status and snapshot, or None
    worker,   \* what a runtime remembers
    edits,    \* how many changes of targets and schedule happened
    faults    \* how many faults happened

backupVars == <<target, plan, bjob, outcome, worker, edits, faults>>

BackupTarget == [enabled: BOOLEAN, revision: 1..MaxEdits + 1]
BackupJob == [status: {"QUEUED", "RUNNING", "SUCCEEDED", "PARTIAL", "FAILED"},
              holder: BackupWorkers \cup {None}, live: BOOLEAN]
Outcome == [status: {"QUEUED", "RUNNING", "SUCCEEDED", "FAILED"},
            revision: 1..MaxEdits + 1, bound: BOOLEAN]

ASSUME BackupRowAssumption == None \notin BackupTarget \cup BackupJob \cup Outcome

IdleWorker == [pc |-> "idle", job |-> None, left |-> 0, todo |-> {}, verdict |-> None]

Ended == {"SUCCEEDED", "PARTIAL", "FAILED"}
JobIs(j, S) == bjob[j] # None /\ bjob[j].status \in S
Rows(j) == {t \in BackupTargets : outcome[<<j, t>>] # None}
SelectedTargets(S) == {t \in S : target[t] # None /\ target[t].enabled}

-------------------------------------------------------------------------------
(* Requests.                                                               *)

\* A new target; the id of a deleted one stands for a fresh id, which no row names.
CreateTarget(t) ==
    /\ target[t] = None
    /\ target' = [target EXCEPT ![t] = [enabled |-> TRUE, revision |-> 1]]
    /\ UNCHANGED <<plan, outcome>>

\* An edit counts up the revision; a target that is deleted is unbound from
\* the rows that name it and leaves the schedule.
EditTarget(t, enabled) ==
    /\ target[t] # None
    /\ target' = [target EXCEPT ![t] = [enabled |-> enabled, revision |-> @.revision + 1]]
    /\ UNCHANGED <<plan, outcome>>

DeleteTarget(t) ==
    /\ target[t] # None
    /\ target' = [target EXCEPT ![t] = None]
    /\ plan' = plan \ {t}
    /\ outcome' = [p \in BackupJobIds \X BackupTargets |->
           IF p[2] = t /\ outcome[p] # None THEN [outcome[p] EXCEPT !.bound = FALSE]
           ELSE outcome[p]]

PutSchedule(S) ==
    /\ SelectedTargets(S) = S
    /\ plan' = S
    /\ UNCHANGED <<target, outcome>>

Edit ==
    /\ edits < MaxEdits
    /\ edits' = edits + 1
    /\ \/ \E t \in BackupTargets :
             CreateTarget(t) \/ DeleteTarget(t) \/ \E enabled \in BOOLEAN : EditTarget(t, enabled)
       \/ \E S \in SUBSET BackupTargets : PutSchedule(S)
    /\ UNCHANGED <<bjob, worker, faults>>

\* A job and its rows are inserted together.
NextJob == {j \in BackupJobIds : bjob[j] = None /\ \A i \in BackupJobIds : i > j => bjob[i] = None}

InsertJob(j, S) ==
    /\ bjob' = [bjob EXCEPT ![j] = [status |-> "QUEUED", holder |-> None, live |-> FALSE]]
    /\ outcome' = [p \in BackupJobIds \X BackupTargets |->
           IF p[1] = j /\ p[2] \in S
           THEN [status |-> "QUEUED", revision |-> target[p[2]].revision, bound |-> TRUE]
           ELSE outcome[p]]

EnqueueManual(j, S) ==
    /\ S # {} /\ SelectedTargets(S) = S
    /\ j \in NextJob
    /\ InsertJob(j, S)
    /\ UNCHANGED <<target, plan, worker, edits, faults>>

-------------------------------------------------------------------------------
(* The pass of a runtime.                                                  *)

SetWorker(w, rec) == worker' = [worker EXCEPT ![w] = rec]
Abort(w) == SetWorker(w, IdleWorker)
At(w, pc) == worker[w].pc = pc
Step(w, pc) == SetWorker(w, [worker[w] EXCEPT !.pc = pc])

\* The schedule may be due or not; one without targets only moves on.
StartBackups(w) ==
    /\ At(w, "idle")
    /\ SetWorker(w, [IdleWorker EXCEPT !.pc = "claim", !.left = JobsPerPass])
    /\ \/ UNCHANGED <<bjob, outcome>>
       \/ \E j \in NextJob :
            /\ SelectedTargets(plan) # {}
            /\ InsertJob(j, SelectedTargets(plan))
    /\ UNCHANGED <<target, plan, edits, faults>>

\* claim_next: running jobs whose lease ended go back first.
\* Mutant: jobs whose lease ended are left.
NotRecovered(j) == bjob[j]
LeaseEnded(j) == bjob[j] # None /\ bjob[j].status = "RUNNING" /\ ~bjob[j].live
Recovered(j) ==
    IF LeaseEnded(j) THEN [status |-> "QUEUED", holder |-> None, live |-> FALSE] ELSE bjob[j]
Oldest == {j \in BackupJobIds :
    /\ Recovered(j) # None /\ Recovered(j).status = "QUEUED"
    /\ \A i \in BackupJobIds :
          i < j => ~(Recovered(i) # None /\ Recovered(i).status = "QUEUED")}

ClaimNext(w) ==
    /\ At(w, "claim") /\ worker[w].left > 0
    /\ \E j \in Oldest :
         /\ bjob' = [i \in BackupJobIds |->
                IF i = j THEN [status |-> "RUNNING", holder |-> w, live |-> TRUE]
                ELSE Recovered(i)]
         /\ SetWorker(w, [worker[w] EXCEPT !.pc = "export", !.job = j, !.left = @ - 1])
    /\ UNCHANGED <<target, plan, outcome, edits, faults>>

\* Nothing to claim, or enough claimed: old history goes and the pass is over.
EndPass(w) ==
    /\ At(w, "claim") /\ (worker[w].left = 0 \/ Oldest = {})
    /\ \E old \in SUBSET {j \in BackupJobIds : JobIs(j, Ended)} :
         /\ bjob' = [j \in BackupJobIds |->
                IF j \in old THEN None ELSE IF worker[w].left = 0 THEN bjob[j] ELSE Recovered(j)]
         /\ outcome' = [p \in BackupJobIds \X BackupTargets |->
                IF p[1] \in old THEN None ELSE outcome[p]]
    /\ Abort(w)
    /\ UNCHANGED <<target, plan, edits, faults>>

\* lock_active_claim: the row still names this claim and its lease lasts.
Believes(w) == worker[w].job # None /\ bjob[worker[w].job] # None
\* Mutant: any claim of a running job will do.
HoldsUnfenced(w) == Believes(w) /\ bjob[worker[w].job].status = "RUNNING"
Holds(w) ==
    /\ Believes(w)
    /\ bjob[worker[w].job].status = "RUNNING"
    /\ bjob[worker[w].job].holder = w
    /\ bjob[worker[w].job].live

\* A write without a claim is refused, and the error ends the pass.
Refused(w) ==
    /\ worker[w].pc \in {"export", "failing", "load", "begin", "record", "verdict"}
    /\ ~Holds(w)
    /\ Abort(w)
    /\ UNCHANGED <<target, plan, bjob, outcome, edits, faults>>

Export(w) ==
    /\ At(w, "export") /\ Holds(w)
    /\ \E pc \in {"load", "failing"} : Step(w, pc)
    /\ UNCHANGED <<target, plan, bjob, outcome, edits, faults>>

SetRows(j, S, status) ==
    outcome' = [p \in BackupJobIds \X BackupTargets |->
        IF p[1] = j /\ p[2] \in S THEN [outcome[p] EXCEPT !.status = status] ELSE outcome[p]]

Pending(j) == {t \in Rows(j) : outcome[<<j, t>>].status # "SUCCEEDED"}

\* fail_pending_targets, when the export or a read of the targets fails.
FailPending(w) ==
    /\ At(w, "failing") /\ Holds(w)
    /\ SetRows(worker[w].job, Pending(worker[w].job), "FAILED")
    /\ Step(w, "verdict")
    /\ UNCHANGED <<target, plan, bjob, edits, faults>>

\* pending_execution_targets: a target that is not the one of the snapshot
\* fails; the others are uploaded to in the order of their names.
Unchanged(j, t) ==
    /\ outcome[<<j, t>>].bound /\ target[t] # None
    /\ target[t].enabled /\ target[t].revision = outcome[<<j, t>>].revision
\* Mutant: edits of targets are not noticed.
NoneChanged(j) == {}
Changed(j) == {t \in Pending(j) : ~Unchanged(j, t)}

LoadTargets(w) ==
    LET j == worker[w].job IN
    /\ At(w, "load") /\ Holds(w)
    /\ SetRows(j, Changed(j), "FAILED")
    /\ SetWorker(w, [worker[w] EXCEPT
           !.pc = "begin",
           !.todo = {t \in Pending(j) : Unchanged(j, t)}])
    /\ UNCHANGED <<target, plan, bjob, edits, faults>>

\* Those left are taken in the order of their names.
Current(w) == Min(worker[w].todo)

\* heartbeat and mark_target_running
BeginTarget(w) ==
    /\ At(w, "begin") /\ worker[w].todo # {} /\ Holds(w)
    /\ SetRows(worker[w].job, {Current(w)}, "RUNNING")
    /\ Step(w, "upload")
    /\ UNCHANGED <<target, plan, bjob, edits, faults>>

\* No heartbeat runs during an upload.
Upload(w) ==
    LET j == worker[w].job
        slow == Current(w) \in SlowTargets IN
    /\ At(w, "upload")
    /\ bjob' = IF slow /\ Holds(w) THEN [bjob EXCEPT ![j].live = FALSE] ELSE bjob
    /\ Step(w, "record")
    /\ UNCHANGED <<target, plan, outcome, edits, faults>>

CompleteTarget(w) ==
    /\ At(w, "record") /\ Holds(w)
    /\ \E status \in {"SUCCEEDED", "FAILED"} :
          SetRows(worker[w].job, {Current(w)}, status)
    /\ SetWorker(w, [worker[w] EXCEPT !.pc = "begin", !.todo = @ \ {Current(w)}])
    /\ UNCHANGED <<target, plan, bjob, edits, faults>>

AllDone(w) ==
    /\ At(w, "begin") /\ worker[w].todo = {}
    /\ Step(w, "verdict")
    /\ UNCHANGED <<target, plan, bjob, outcome, edits, faults>>

Verdict(j) ==
    LET succeeded == {t \in Rows(j) : outcome[<<j, t>>].status = "SUCCEEDED"}
        failed == {t \in Rows(j) : outcome[<<j, t>>].status = "FAILED"}
    IN  IF succeeded = Rows(j) THEN "SUCCEEDED"
        ELSE IF succeeded # {} /\ failed # {} THEN "PARTIAL" ELSE "FAILED"

\* finish_job checks the claim and reads the rows, and then writes the verdict
\* under owner and token, without another look at the lease.
ReadVerdict(w) ==
    /\ At(w, "verdict") /\ Holds(w)
    /\ SetWorker(w, [worker[w] EXCEPT !.pc = "finish", !.verdict = Verdict(worker[w].job)])
    /\ UNCHANGED <<target, plan, bjob, outcome, edits, faults>>

FinishJob(w) ==
    LET j == worker[w].job IN
    /\ At(w, "finish")
    /\ IF Believes(w) /\ bjob[j].status = "RUNNING" /\ bjob[j].holder = w
       THEN /\ bjob' = [bjob EXCEPT ![j] =
                   [status |-> worker[w].verdict, holder |-> None, live |-> FALSE]]
            /\ SetWorker(w, [IdleWorker EXCEPT !.pc = "claim", !.left = worker[w].left])
       ELSE Abort(w) /\ UNCHANGED bjob
    /\ UNCHANGED <<target, plan, outcome, edits, faults>>

-------------------------------------------------------------------------------
(* Faults.                                                                 *)

Crash(w) ==
    /\ faults < MaxFaults /\ ~At(w, "idle")
    /\ faults' = faults + 1
    /\ Abort(w)
    /\ UNCHANGED <<target, plan, bjob, outcome, edits>>

\* A lease ends: its worker is gone, or it pauses.
Working(j) == \E w \in BackupWorkers : worker[w].job = j /\ Holds(w)
LeaseEnds(j) ==
    /\ JobIs(j, {"RUNNING"}) /\ bjob[j].live
    /\ Working(j) => faults < MaxFaults
    /\ faults' = IF Working(j) THEN faults + 1 ELSE faults
    /\ bjob' = [bjob EXCEPT ![j].live = FALSE]
    /\ UNCHANGED <<target, plan, outcome, worker, edits>>

BackupInit ==
    /\ target \in [BackupTargets -> {None, [enabled |-> TRUE, revision |-> 1]}]
    /\ plan \in SUBSET {t \in BackupTargets : target[t] # None}
    /\ bjob = [j \in BackupJobIds |-> None]
    /\ outcome = [p \in BackupJobIds \X BackupTargets |-> None]
    /\ worker = [w \in BackupWorkers |-> IdleWorker]
    /\ edits = 0 /\ faults = 0

BackupRequest ==
    \/ Edit
    \/ \E S \in SUBSET BackupTargets, j \in BackupJobIds : EnqueueManual(j, S)

BackupWork(w) ==
    \/ StartBackups(w) \/ ClaimNext(w) \/ EndPass(w) \/ Refused(w) \/ Export(w)
    \/ FailPending(w) \/ LoadTargets(w) \/ BeginTarget(w) \/ Upload(w)
    \/ CompleteTarget(w) \/ AllDone(w) \/ ReadVerdict(w) \/ FinishJob(w)

BackupNext ==
    \/ BackupRequest
    \/ \E w \in BackupWorkers : BackupWork(w) \/ Crash(w)
    \/ \E j \in BackupJobIds : LeaseEnds(j)

\* A runtime is polled every thirty seconds and awaits with time limits; time
\* passes, so a lease that nobody extends ends.
BackupFairness ==
    /\ \A w \in BackupWorkers : WF_backupVars(BackupWork(w))
    /\ \A j \in BackupJobIds : WF_backupVars(~Working(j) /\ LeaseEnds(j))

BackupSpec == BackupInit /\ [][BackupNext]_backupVars /\ BackupFairness

-------------------------------------------------------------------------------
(* Every row and every runtime keeps its type.                             *)
BackupTypeOK ==
    /\ target \in [BackupTargets -> BackupTarget \cup {None}]
    /\ plan \subseteq BackupTargets
    /\ bjob \in [BackupJobIds -> BackupJob \cup {None}]
    /\ outcome \in [BackupJobIds \X BackupTargets -> Outcome \cup {None}]
    /\ \A w \in BackupWorkers :
         /\ worker[w].pc \in {"idle", "claim", "export", "failing", "load", "begin",
                              "upload", "record", "verdict", "finish"}
         /\ worker[w].job \in BackupJobIds \cup {None}
         /\ worker[w].left \in 0..JobsPerPass
         /\ worker[w].todo \subseteq BackupTargets
         /\ worker[w].verdict \in Ended \cup {None}
    /\ edits \in 0..MaxEdits /\ faults \in 0..MaxFaults

(* The verdict of a job that ended is the one its rows give, and each row  *)
(* is decided, however many runtimes worked on the job and wherever they   *)
(* lost it (repository.rs, finish_job).                                    *)
VerdictTellsTargets ==
    \A j \in BackupJobIds : JobIs(j, Ended) =>
        /\ bjob[j].status = Verdict(j)
        /\ \A t \in Rows(j) : outcome[<<j, t>>].status \in {"SUCCEEDED", "FAILED"}

(* A job that ended stays as it is, with its rows, until its history goes; *)
(* and a target that received its backup is never written to again for     *)
(* that job, by a runtime that is late or by one that takes the job over   *)
(* (repository.rs, lock_active_claim).                                     *)
OutcomesStand ==
    [][\A j \in BackupJobIds :
          /\ JobIs(j, Ended) =>
                \/ bjob'[j] = None
                \/ /\ bjob'[j] = bjob[j]
                   /\ \A t \in Rows(j) : outcome'[<<j, t>>].status = outcome[<<j, t>>].status
          /\ \A t \in Rows(j) : outcome[<<j, t>>].status = "SUCCEEDED" =>
                outcome'[<<j, t>>] = None \/ outcome'[<<j, t>>].status = "SUCCEEDED"]_backupVars

(* Each target of a job is decided, unless its own upload outlasts a       *)
(* lease: "one failed upload does not prevent other targets from           *)
(* completing" (subscription-backup-design.md).                            *)
TargetsIsolated ==
    \A j \in BackupJobIds, t \in BackupTargets \ SlowTargets :
        (outcome[<<j, t>>] # None /\ outcome[<<j, t>>].status = "QUEUED")
            ~> (outcome[<<j, t>>] = None \/ outcome[<<j, t>>].status \in {"SUCCEEDED", "FAILED"})

(* Every job ends, though runtimes crash and lose leases, as long as no    *)
(* upload outlasts a lease (runtime.rs).                                   *)
BackupJobsEnd ==
    \A j \in BackupJobIds : JobIs(j, {"QUEUED", "RUNNING"}) ~> ~JobIs(j, {"QUEUED", "RUNNING"})
===============================================================================
