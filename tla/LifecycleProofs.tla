--------------------------- MODULE LifecycleProofs ---------------------------
(***************************************************************************)
(* Proofs about the services of MCLifecycle for any value of their         *)
(* constants: what the rows of a backup job tell, what retention may       *)
(* delete, what setup makes durable, what the exit of the process tells,   *)
(* and the types of the event hub.                                         *)
(***************************************************************************)
EXTENDS MCLifecycle, FiniteSetTheorems, WellFoundedInduction, TLAPS

-----------------------------------------------------------------------------
(* Backups: any number of jobs, targets and runtimes, wherever a runtime   *)
(* crashes or loses its lease.                                             *)

WorkerState ==
    [pc : {"idle", "claim", "export", "failing", "load", "begin", "upload", "record", "verdict", "finish"},
     job : BackupJobIds \cup {None}, left : 0..JobsPerPass, todo : SUBSET BackupTargets,
     verdict : Ended \cup {None}]

BackupShape ==
    /\ target \in [BackupTargets -> BackupTarget \cup {None}]
    /\ plan \subseteq BackupTargets
    /\ bjob \in [BackupJobIds -> BackupJob \cup {None}]
    /\ outcome \in [BackupJobIds \X BackupTargets -> Outcome \cup {None}]
    /\ worker \in [BackupWorkers -> WorkerState]
    /\ edits \in 0..MaxEdits /\ faults \in 0..MaxFaults
    /\ \A t \in BackupTargets : target[t] # None => target[t].revision <= edits + 1

\* The row still names the claim of this runtime, whether or not its lease lasts.
Claimed(w) ==
    /\ Believes(w)
    /\ bjob[worker[w].job].status = "RUNNING"
    /\ bjob[worker[w].job].holder = w

\* The rows of a job are decided, but for those in S, which have no backup yet.
DecidedBut(j, S) ==
    /\ S \subseteq Rows(j)
    /\ \A t \in S : outcome[<<j, t>>].status # "SUCCEEDED"
    /\ \A t \in Rows(j) \ S : outcome[<<j, t>>].status \in {"SUCCEEDED", "FAILED"}

\* What a runtime remembers tells the rows of its job.
Tells(r) ==
    /\ r.pc \in {"begin", "upload", "record"} => DecidedBut(r.job, r.todo)
    /\ r.pc \in {"verdict", "finish"} => DecidedBut(r.job, {})
    /\ r.pc = "finish" => r.verdict = Verdict(r.job)

\* No job, no rows; and a job that ended has the verdict of its rows.
JobTells(j) ==
    /\ bjob[j] = None => Rows(j) = {}
    /\ JobIs(j, Ended) => bjob[j].status = Verdict(j) /\ DecidedBut(j, {})

BackupInv ==
    /\ BackupShape
    /\ \A j \in BackupJobIds : JobTells(j)
    /\ \A w \in BackupWorkers : worker[w].pc \in {"upload", "record"} => worker[w].todo # {}
    /\ \A w \in BackupWorkers : Claimed(w) => Tells(worker[w])

\* The rows of a job are there and have the status they had.
SameRows(j) ==
    \A t \in BackupTargets :
        /\ outcome'[<<j, t>>] = None <=> outcome[<<j, t>>] = None
        /\ outcome[<<j, t>>] # None => outcome'[<<j, t>>].status = outcome[<<j, t>>].status

\* What the rows of a job tell depends on their statuses only.
LEMMA SameRowsTell ==
    ASSUME NEW j, SameRows(j)
    PROVE  /\ Rows(j)' = Rows(j) /\ Verdict(j)' = Verdict(j)
           /\ \A S : DecidedBut(j, S) => DecidedBut(j, S)'
<1>1. Rows(j)' = Rows(j)
  BY DEF Rows, SameRows
<1>2. \A t \in Rows(j) : outcome'[<<j, t>>].status = outcome[<<j, t>>].status
  BY DEF Rows, SameRows
<1>3. Verdict(j)' = Verdict(j)
  <2> DEFINE good == {t \in Rows(j) : outcome[<<j, t>>].status = "SUCCEEDED"}
             bad == {t \in Rows(j) : outcome[<<j, t>>].status = "FAILED"}
  <2>1. good' = good /\ bad' = bad
    BY <1>1, <1>2
  <2>2. Verdict(j) = IF good = Rows(j) THEN "SUCCEEDED"
                     ELSE IF good # {} /\ bad # {} THEN "PARTIAL" ELSE "FAILED"
    BY DEF Verdict
  <2>3. Verdict(j)' = IF good' = Rows(j)' THEN "SUCCEEDED"
                      ELSE IF good' # {} /\ bad' # {} THEN "PARTIAL" ELSE "FAILED"
    BY DEF Verdict
  <2> HIDE DEF good, bad
  <2> QED
    BY <1>1, <2>1, <2>2, <2>3
<1>4. ASSUME NEW S, DecidedBut(j, S)
      PROVE  DecidedBut(j, S)'
  BY <1>1, <1>2, <1>4 DEF DecidedBut
<1> QED
  BY <1>1, <1>3, <1>4

\* What a runtime remembers goes on to tell the rows of its job.
LEMMA TellsOn ==
    ASSUME NEW r, SameRows(r.job), Tells(r)
    PROVE  Tells(r)'
<1> DEFINE j == r.job
<1>1. /\ Verdict(j)' = Verdict(j)
      /\ \A S : DecidedBut(j, S) => DecidedBut(j, S)'
  BY SameRowsTell
<1>2. DecidedBut(r.job, r.todo) => DecidedBut(r.job, r.todo)'
  BY <1>1
<1>3. DecidedBut(r.job, {}) => DecidedBut(r.job, {})'
  BY <1>1
<1> QED
  BY <1>1, <1>2, <1>3 DEF Tells

\* A job that keeps its rows and does not end.
LEMMA JobTellsOn ==
    ASSUME BackupInv, NEW j \in BackupJobIds, SameRows(j),
           bjob'[j] = None <=> bjob[j] = None,
           bjob'[j] # None => bjob'[j].status = bjob[j].status \/ bjob'[j].status \notin Ended
    PROVE  JobTells(j)'
<1>1. JobTells(j)
  BY DEF BackupInv
<1>2. /\ Rows(j)' = Rows(j) /\ Verdict(j)' = Verdict(j)
      /\ DecidedBut(j, {}) => DecidedBut(j, {})'
  BY SameRowsTell
<1> QED
  BY <1>1, <1>2 DEF JobTells, JobIs

\* The first of the targets that are left.
LEMMA CurrentIsLeft ==
    ASSUME BackupShape, NEW w \in BackupWorkers, worker[w].todo # {}
    PROVE  Current(w) \in worker[w].todo
<1> DEFINE T == worker[w].todo
<1>1. T \subseteq Nat /\ T # {}
  BY BackupAssumption DEF BackupShape, WorkerState
<1>2. PICK m \in T : \A n \in T : <<n, m>> \notin OpToRel(<, Nat)
  BY <1>1, NatLessThanWellFounded, WFMin
<1>3. \A n \in T : ~(n < m)
  BY <1>1, <1>2, Zenon DEF OpToRel
<1>4. \A n \in T : m <= n
  BY <1>1, <1>3
<1> HIDE DEF T
<1>5. Min(T) \in T
  BY <1>4 DEF Min
<1> QED
  BY <1>5 DEF Current, T

\* A step of one runtime, by what it does to the jobs and their rows.
LEMMA StepKeeps ==
    ASSUME BackupInv, NEW w \in BackupWorkers, NEW x \in WorkerState,
           worker' = [worker EXCEPT ![w] = x],
           x.pc \in {"upload", "record"} => x.todo # {},
           Claimed(w)' => Tells(x)',
           \A v \in BackupWorkers \ {w} : Claimed(v)' => Claimed(v) /\ SameRows(worker[v].job),
           \A j \in BackupJobIds : JobTells(j)',
           bjob' \in [BackupJobIds -> BackupJob \cup {None}],
           outcome' \in [BackupJobIds \X BackupTargets -> Outcome \cup {None}],
           UNCHANGED <<target, plan, edits>>, faults' \in 0..MaxFaults
    PROVE  BackupInv'
<1>1. /\ worker' \in [BackupWorkers -> WorkerState]
      /\ worker'[w] = x /\ \A v \in BackupWorkers \ {w} : worker'[v] = worker[v]
  BY DEF BackupInv, BackupShape
<1>2. BackupShape'
  BY <1>1 DEF BackupInv, BackupShape
<1>3. \A v \in BackupWorkers : worker'[v].pc \in {"upload", "record"} => worker'[v].todo # {}
  BY <1>1 DEF BackupInv
<1>4. ASSUME NEW v \in BackupWorkers, Claimed(v)'
      PROVE  Tells(worker[v])'
  <2>1. CASE v = w
    BY <1>1, <1>4, <2>1 DEF Tells
  <2>2. CASE v # w
    <3>1. Claimed(v) /\ SameRows(worker[v].job) /\ Tells(worker[v])
      BY <1>4, <2>2 DEF BackupInv
    <3>2. PICK r : r = worker[v]
      OBVIOUS
    <3>3. Tells(r)'
      BY <3>1, <3>2, TellsOn
    <3>4. worker'[v] = r
      BY <1>1, <2>2, <3>2
    <3> QED
      BY <3>3, <3>4 DEF Tells
  <2> QED
    BY <2>1, <2>2
<1> QED
  BY <1>2, <1>3, <1>4 DEF BackupInv

\* A step of one runtime that leaves the jobs and their rows alone.
LEMMA MemoryKeeps ==
    ASSUME BackupInv, NEW w \in BackupWorkers, NEW x \in WorkerState,
           worker' = [worker EXCEPT ![w] = x],
           x.pc \in {"upload", "record"} => x.todo # {},
           x.job = None \/ x.job = worker[w].job, Claimed(w) /\ x.job # None => Tells(x),
           UNCHANGED <<target, plan, bjob, outcome, edits>>, faults' \in 0..MaxFaults
    PROVE  BackupInv'
<1>1. worker'[w] = x /\ \A v \in BackupWorkers \ {w} : worker'[v] = worker[v]
  BY DEF BackupInv, BackupShape
<1>2. \A j : SameRows(j)
  BY DEF SameRows
<1>3. \A v \in BackupWorkers \ {w} : Claimed(v)' => Claimed(v) /\ SameRows(worker[v].job)
  BY <1>1, <1>2 DEF Claimed, Believes
<1>4. Claimed(w)' => Tells(x)'
  BY <1>1 DEF Claimed, Believes, Tells, DecidedBut, Rows, Verdict
<1>5. \A j \in BackupJobIds : JobTells(j)'
  BY <1>2, JobTellsOn
<1>6. /\ bjob' \in [BackupJobIds -> BackupJob \cup {None}]
      /\ outcome' \in [BackupJobIds \X BackupTargets -> Outcome \cup {None}]
  BY DEF BackupInv, BackupShape
<1> QED
  BY <1>3, <1>4, <1>5, <1>6, StepKeeps

\* Nothing is stored, and every runtime is idle.
LEMMA BackupStart == BackupInit => BackupInv
<1> SUFFICES ASSUME BackupInit
             PROVE  BackupInv
  OBVIOUS
<1>1. IdleWorker \in WorkerState /\ IdleWorker.pc = "idle" /\ IdleWorker.job = None
  BY BackupAssumption DEF IdleWorker, WorkerState
<1>2. [enabled |-> TRUE, revision |-> 1] \in BackupTarget
  BY BackupAssumption DEF BackupTarget
<1>3. BackupShape
  <2>1. worker \in [BackupWorkers -> WorkerState]
    BY <1>1 DEF BackupInit
  <2>2. target \in [BackupTargets -> BackupTarget \cup {None}]
    BY <1>2 DEF BackupInit
  <2> QED
    BY <2>1, <2>2, BackupAssumption DEF BackupInit, BackupShape
<1>4. \A j \in BackupJobIds : JobTells(j)
  BY DEF BackupInit, JobTells, Rows, JobIs
<1>5. \A w \in BackupWorkers : ~Claimed(w) /\ worker[w].pc = "idle"
  BY <1>1 DEF BackupInit, Claimed, Believes
<1> QED
  BY <1>3, <1>4, <1>5 DEF BackupInv

\* An idle runtime remembers nothing.
LEMMA IdleState ==
    IdleWorker \in WorkerState /\ IdleWorker.pc = "idle" /\ IdleWorker.job = None
BY BackupAssumption DEF IdleWorker, WorkerState

\* A crash, and a write that is refused.
LEMMA AbortKeeps ==
    ASSUME BackupInv, NEW w \in BackupWorkers, Crash(w) \/ Refused(w)
    PROVE  BackupInv'
<1>1. /\ worker' = [worker EXCEPT ![w] = IdleWorker]
      /\ UNCHANGED <<target, plan, bjob, outcome, edits>>
      /\ faults' \in {faults, faults + 1} /\ (faults' = faults \/ faults < MaxFaults)
  BY DEF Crash, Refused, Abort, SetWorker
<1>2. faults' \in 0..MaxFaults
  BY <1>1, BackupAssumption DEF BackupInv, BackupShape
<1> QED
  BY <1>1, <1>2, IdleState, MemoryKeeps

\* A revision is a number.
LEMMA RevisionNumber ==
    ASSUME BackupShape
    PROVE  \A t \in BackupTargets : target[t] # None => target[t].revision \in Nat
<1> SUFFICES ASSUME NEW t \in BackupTargets, target[t] # None
             PROVE  target[t].revision \in Nat
  OBVIOUS
<1>1. target[t] \in BackupTarget /\ MaxEdits \in Nat
  BY BackupAssumption DEF BackupShape
<1>2. target[t].revision \in 1..MaxEdits + 1
  BY <1>1 DEF BackupTarget
<1> QED
  BY <1>1, <1>2

\* A target that is edited has had no more revisions than there were edits.
LEMMA TargetRevised ==
    ASSUME BackupShape, edits < MaxEdits, NEW t \in BackupTargets, target[t] # None, NEW enabled \in BOOLEAN
    PROVE  /\ [enabled |-> enabled, revision |-> target[t].revision + 1] \in BackupTarget
           /\ target[t].revision + 1 <= edits + 2
<1>1. target[t].revision \in 1..MaxEdits + 1 /\ target[t].revision <= edits + 1
  BY DEF BackupShape, BackupTarget
<1>2. edits \in Nat /\ MaxEdits \in Nat
  BY BackupAssumption DEF BackupShape
<1>3. target[t].revision + 1 \in 1..MaxEdits + 1
  BY <1>1, <1>2
<1> QED
  BY <1>1, <1>2, <1>3 DEF BackupTarget

\* A change of a target or of the schedule: rows may lose their target.
LEMMA EditKeeps ==
    ASSUME BackupInv, Edit
    PROVE  BackupInv'
<1> DEFINE Revised == \A t \in BackupTargets : target'[t] # None => target'[t].revision <= edits' + 1
           Typed == /\ target' \in [BackupTargets -> BackupTarget \cup {None}]
                    /\ plan' \subseteq BackupTargets
                    /\ outcome' \in [BackupJobIds \X BackupTargets -> Outcome \cup {None}]
           Same == \A j \in BackupJobIds : SameRows(j)
<1>1. edits < MaxEdits /\ edits' = edits + 1 /\ UNCHANGED <<bjob, worker, faults>>
  BY DEF Edit
<1>2. edits' \in 0..MaxEdits /\ edits \in Nat
  BY <1>1, BackupAssumption DEF BackupInv, BackupShape
<1>3. BackupShape
  BY DEF BackupInv
<1>4. ASSUME NEW t \in BackupTargets, NEW x \in BackupTarget, x.revision <= edits + 2,
             target' = [target EXCEPT ![t] = x], UNCHANGED <<plan, outcome>>
      PROVE  Revised /\ Typed /\ Same
  <2>1. target'[t] = x /\ \A u \in BackupTargets \ {t} : target'[u] = target[u]
    BY <1>3, <1>4 DEF BackupShape
  <2>2. \A u \in BackupTargets : target[u] # None => target[u].revision \in Nat
    BY <1>3, RevisionNumber
  <2>3. x.revision \in Nat
    BY BackupAssumption DEF BackupTarget
  <2>4. Revised
    BY <1>1, <1>2, <1>3, <1>4, <2>1, <2>2, <2>3 DEF BackupShape
  <2>5. Typed
    BY <1>3, <1>4 DEF BackupShape
  <2> QED
    BY <1>4, <2>4, <2>5 DEF SameRows
<1>5. ASSUME NEW t \in BackupTargets, CreateTarget(t)
      PROVE  Revised /\ Typed /\ Same
  <2> DEFINE x == [enabled |-> TRUE, revision |-> 1]
  <2>1. x \in BackupTarget /\ x.revision <= edits + 2
    BY <1>2, BackupAssumption DEF BackupTarget
  <2>2. target' = [target EXCEPT ![t] = x] /\ UNCHANGED <<plan, outcome>>
    BY <1>5 DEF CreateTarget
  <2> HIDE DEF x
  <2> QED
    BY <1>4, <2>1, <2>2
<1>6. ASSUME NEW t \in BackupTargets, NEW enabled \in BOOLEAN, EditTarget(t, enabled)
      PROVE  Revised /\ Typed /\ Same
  <2> DEFINE x == [enabled |-> enabled, revision |-> target[t].revision + 1]
  <2>1. x \in BackupTarget /\ x.revision <= edits + 2
    BY <1>1, <1>3, <1>6, TargetRevised DEF EditTarget
  <2>2. target' = [target EXCEPT ![t] = x] /\ UNCHANGED <<plan, outcome>>
    BY <1>6 DEF EditTarget
  <2> HIDE DEF x
  <2> QED
    BY <1>4, <2>1, <2>2
<1>7. ASSUME NEW t \in BackupTargets, DeleteTarget(t)
      PROVE  Revised /\ Typed /\ Same
  <2>1. /\ target' = [target EXCEPT ![t] = None] /\ plan' = plan \ {t}
        /\ outcome' = [p \in BackupJobIds \X BackupTargets |->
               IF p[2] = t /\ outcome[p] # None THEN [outcome[p] EXCEPT !.bound = FALSE]
               ELSE outcome[p]]
    BY <1>7 DEF DeleteTarget
  <2>2. \A u \in BackupTargets : target'[u] # None => target'[u] = target[u] /\ target[u].revision \in Nat
    BY <1>3, <2>1, RevisionNumber DEF BackupShape
  <2>3. Revised
    BY <1>1, <1>2, <1>3, <2>2 DEF BackupShape
  <2>4. ASSUME NEW o \in Outcome
        PROVE  /\ [o EXCEPT !.bound = FALSE] \in Outcome /\ [o EXCEPT !.bound = FALSE] # None
               /\ [o EXCEPT !.bound = FALSE].status = o.status
    BY BackupRowAssumption DEF Outcome
  <2>5. ASSUME NEW p \in BackupJobIds \X BackupTargets
        PROVE  /\ outcome'[p] \in Outcome \cup {None}
               /\ outcome'[p] = None <=> outcome[p] = None
               /\ outcome[p] # None => outcome'[p].status = outcome[p].status
    <3>1. outcome[p] # None => outcome[p] \in Outcome
      BY <1>3 DEF BackupShape
    <3>2. \/ outcome'[p] = outcome[p]
          \/ outcome[p] # None /\ outcome'[p] = [outcome[p] EXCEPT !.bound = FALSE]
      BY <2>1
    <3> QED
      BY <2>4, <3>1, <3>2
  <2>6. Typed
    <3>1. /\ target' \in [BackupTargets -> BackupTarget \cup {None}]
          /\ plan' \subseteq BackupTargets
      BY <1>3, <2>1 DEF BackupShape
    <3>2. outcome' \in [BackupJobIds \X BackupTargets -> Outcome \cup {None}]
      BY <2>1, <2>5
    <3> QED
      BY <3>1, <3>2
  <2>7. Same
    BY <2>5 DEF SameRows
  <2> QED
    BY <2>3, <2>6, <2>7
<1>8. ASSUME NEW S \in SUBSET BackupTargets, PutSchedule(S)
      PROVE  Revised /\ Typed /\ Same
  <2>1. plan' = S /\ UNCHANGED <<target, outcome>>
    BY <1>8 DEF PutSchedule
  <2>2. \A u \in BackupTargets : target[u] # None => target[u].revision \in Nat
    BY <1>3, RevisionNumber
  <2> QED
    BY <1>1, <1>2, <1>3, <2>1, <2>2 DEF BackupShape, SameRows
<1>9. Revised /\ Typed /\ Same
  BY <1>5, <1>6, <1>7, <1>8 DEF Edit
<1>10. BackupShape'
  BY <1>1, <1>2, <1>3, <1>9 DEF BackupShape
<1>11. \A j \in BackupJobIds : JobTells(j)'
  BY <1>1, <1>9, JobTellsOn
<1>12. ASSUME NEW w \in BackupWorkers, Claimed(w)'
       PROVE  Tells(worker[w])'
  <2>1. Claimed(w) /\ Tells(worker[w]) /\ worker[w].job \in BackupJobIds
    BY <1>1, <1>3, <1>12 DEF Claimed, Believes, BackupInv, BackupShape, WorkerState
  <2>2. PICK r : r = worker[w]
    OBVIOUS
  <2>3. Tells(r)'
    BY <1>9, <2>1, <2>2, TellsOn
  <2> QED
    BY <1>1, <2>2, <2>3 DEF Tells
<1> QED
  BY <1>1, <1>10, <1>11, <1>12 DEF BackupInv

\* The rows that a runtime writes for a job.
LEMMA JobRows ==
    /\ [status |-> "QUEUED", holder |-> None, live |-> FALSE] \in BackupJob
    /\ \A w \in BackupWorkers : [status |-> "RUNNING", holder |-> w, live |-> TRUE] \in BackupJob
    /\ \A status \in Ended : [status |-> status, holder |-> None, live |-> FALSE] \in BackupJob
    /\ None \notin BackupJob /\ None \notin Outcome
<1>1. None \notin BackupJob /\ None \notin Outcome
  BY BackupRowAssumption
<1>2. [status |-> "QUEUED", holder |-> None, live |-> FALSE] \in BackupJob
  BY DEF BackupJob
<1>3. \A w \in BackupWorkers : [status |-> "RUNNING", holder |-> w, live |-> TRUE] \in BackupJob
  BY DEF BackupJob
<1>4. \A status \in Ended : [status |-> status, holder |-> None, live |-> FALSE] \in BackupJob
  BY DEF BackupJob, Ended
<1> QED
  BY <1>1, <1>2, <1>3, <1>4

\* A step that leaves the runtimes alone.
LEMMA RequestKeeps ==
    ASSUME BackupInv, UNCHANGED <<worker, target, plan, edits>>, faults' \in 0..MaxFaults,
           \A v \in BackupWorkers : Claimed(v)' => Claimed(v) /\ SameRows(worker[v].job),
           \A j \in BackupJobIds : JobTells(j)',
           bjob' \in [BackupJobIds -> BackupJob \cup {None}],
           outcome' \in [BackupJobIds \X BackupTargets -> Outcome \cup {None}]
    PROVE  BackupInv'
<1>1. BackupShape'
  BY DEF BackupInv, BackupShape
<1>2. ASSUME NEW v \in BackupWorkers, Claimed(v)'
      PROVE  Tells(worker[v])'
  <2>1. SameRows(worker[v].job) /\ Tells(worker[v])
    BY <1>2 DEF BackupInv
  <2>2. PICK r : r = worker[v]
    OBVIOUS
  <2>3. Tells(r)'
    BY <2>1, <2>2, TellsOn
  <2> QED
    BY <2>2, <2>3 DEF Tells
<1> QED
  BY <1>1, <1>2 DEF BackupInv

\* A job is inserted with its rows, which nobody knows yet.
LEMMA InsertEffect ==
    ASSUME BackupInv, NEW j \in NextJob, NEW S \in SUBSET BackupTargets,
           \A t \in S : target[t] # None, InsertJob(j, S)
    PROVE  /\ bjob' \in [BackupJobIds -> BackupJob \cup {None}]
           /\ outcome' \in [BackupJobIds \X BackupTargets -> Outcome \cup {None}]
           /\ \A i \in BackupJobIds : JobTells(i)'
           /\ \A i \in BackupJobIds : i # j => bjob'[i] = bjob[i] /\ SameRows(i)
           /\ bjob'[j].status = "QUEUED"
<1> DEFINE jrow == [status |-> "QUEUED", holder |-> None, live |-> FALSE]
           new(t) == [status |-> "QUEUED", revision |-> target[t].revision, bound |-> TRUE]
<1>1. /\ j \in BackupJobIds /\ bjob[j] = None /\ bjob' = [bjob EXCEPT ![j] = jrow]
      /\ outcome' = [p \in BackupJobIds \X BackupTargets |->
             IF p[1] = j /\ p[2] \in S THEN new(p[2]) ELSE outcome[p]]
  BY DEF NextJob, InsertJob
<1>2. jrow \in BackupJob /\ jrow.status = "QUEUED" /\ jrow # None
  BY JobRows
<1>3. \A t \in S : new(t) \in Outcome
  <2> SUFFICES ASSUME NEW t \in S
               PROVE  new(t) \in Outcome
    OBVIOUS
  <2>1. target[t] \in BackupTarget
    BY DEF BackupInv, BackupShape
  <2>2. target[t].revision \in 1..MaxEdits + 1
    BY <2>1 DEF BackupTarget
  <2> QED
    BY <2>2 DEF Outcome
<1> HIDE DEF jrow, new
<1>4. bjob' \in [BackupJobIds -> BackupJob \cup {None}]
  BY <1>1, <1>2 DEF BackupInv, BackupShape
<1>5. outcome' \in [BackupJobIds \X BackupTargets -> Outcome \cup {None}]
  BY <1>1, <1>3 DEF BackupInv, BackupShape
<1>6. \A i \in BackupJobIds : i # j => bjob'[i] = bjob[i] /\ SameRows(i)
  BY <1>1 DEF SameRows, BackupInv, BackupShape
<1>7. bjob'[j] = jrow
  BY <1>1 DEF BackupInv, BackupShape
<1>8. ASSUME NEW i \in BackupJobIds
      PROVE  JobTells(i)'
  <2>1. CASE i = j
    BY <1>2, <1>7, <2>1 DEF JobTells, JobIs, Ended
  <2>2. CASE i # j
    BY <1>6, <2>2, JobTellsOn
  <2> QED
    BY <2>1, <2>2
<1> QED
  BY <1>2, <1>4, <1>5, <1>6, <1>7, <1>8

\* The request for a backup.
LEMMA EnqueueKeeps ==
    ASSUME BackupInv, NEW S \in SUBSET BackupTargets, NEW j \in BackupJobIds, EnqueueManual(j, S)
    PROVE  BackupInv'
<1>1. /\ j \in NextJob /\ InsertJob(j, S) /\ \A t \in S : target[t] # None
      /\ UNCHANGED <<target, plan, worker, edits, faults>>
  BY DEF EnqueueManual, SelectedTargets
<1>2. faults' \in 0..MaxFaults
  BY <1>1 DEF BackupInv, BackupShape
<1>3. ASSUME NEW v \in BackupWorkers, Claimed(v)'
      PROVE  Claimed(v) /\ SameRows(worker[v].job)
  <2>1. worker[v].job \in BackupJobIds /\ worker[v].job # j
    BY <1>1, <1>3, InsertEffect DEF Claimed, Believes, BackupInv, BackupShape, WorkerState
  <2> QED
    BY <1>1, <1>3, <2>1, InsertEffect DEF Claimed, Believes
<1> QED
  BY <1>1, <1>2, <1>3, InsertEffect, RequestKeeps

\* A pass begins, and may insert the job that the schedule asks for.
LEMMA StartKeeps ==
    ASSUME BackupInv, NEW w \in BackupWorkers, StartBackups(w)
    PROVE  BackupInv'
<1> DEFINE x == [IdleWorker EXCEPT !.pc = "claim", !.left = JobsPerPass]
<1>1. x \in WorkerState /\ x.pc = "claim" /\ x.job = None
  <2>1. JobsPerPass \in 0..JobsPerPass
    BY BackupAssumption
  <2> QED
    BY <2>1 DEF IdleWorker, WorkerState
<1>2. /\ worker' = [worker EXCEPT ![w] = x] /\ UNCHANGED <<target, plan, edits, faults>>
      /\ \/ UNCHANGED <<bjob, outcome>>
         \/ \E j \in NextJob : InsertJob(j, SelectedTargets(plan))
  BY DEF StartBackups, SetWorker
<1> HIDE DEF x
<1>3. faults' \in 0..MaxFaults
  BY <1>2 DEF BackupInv, BackupShape
<1>4. CASE UNCHANGED <<bjob, outcome>>
  BY <1>1, <1>2, <1>3, <1>4, MemoryKeeps
<1>5. ASSUME NEW j \in NextJob, InsertJob(j, SelectedTargets(plan))
      PROVE  BackupInv'
  <2> DEFINE S == SelectedTargets(plan)
  <2>1. S \subseteq BackupTargets /\ \A t \in S : target[t] # None
    BY DEF SelectedTargets, BackupInv, BackupShape
  <2> HIDE DEF S
  <2>2. /\ bjob' \in [BackupJobIds -> BackupJob \cup {None}]
        /\ outcome' \in [BackupJobIds \X BackupTargets -> Outcome \cup {None}]
        /\ \A i \in BackupJobIds : JobTells(i)'
        /\ \A i \in BackupJobIds : i # j => bjob'[i] = bjob[i] /\ SameRows(i)
        /\ bjob'[j].status = "QUEUED"
    BY <1>5, <2>1, InsertEffect DEF S
  <2>3. worker'[w] = x /\ \A v \in BackupWorkers \ {w} : worker'[v] = worker[v]
    BY <1>2 DEF BackupInv, BackupShape
  <2>4. ~Claimed(w)'
    BY <1>1, <2>3 DEF Claimed, Believes
  <2>5. ASSUME NEW v \in BackupWorkers \ {w}, Claimed(v)'
        PROVE  Claimed(v) /\ SameRows(worker[v].job)
    <3>1. worker[v].job \in BackupJobIds /\ worker[v].job # j
      BY <2>2, <2>3, <2>5 DEF Claimed, Believes, BackupInv, BackupShape, WorkerState
    <3> QED
      BY <2>2, <2>3, <2>5, <3>1 DEF Claimed, Believes
  <2> QED
    BY <1>1, <1>2, <1>3, <2>2, <2>4, <2>5, StepKeeps
<1> QED
  BY <1>2, <1>4, <1>5

\* A job whose lease ended is only put back.
LEMMA RecoveredJob ==
    ASSUME BackupInv, NEW j \in BackupJobIds
    PROVE  /\ Recovered(j) \in BackupJob \cup {None}
           /\ Recovered(j) = None <=> bjob[j] = None
           /\ Recovered(j) # bjob[j] => bjob[j].status = "RUNNING" /\ Recovered(j).status = "QUEUED"
<1> DEFINE jrow == [status |-> "QUEUED", holder |-> None, live |-> FALSE]
<1>1. jrow \in BackupJob /\ jrow.status = "QUEUED" /\ jrow # None
  BY JobRows
<1>2. Recovered(j) = IF LeaseEnded(j) THEN jrow ELSE bjob[j]
  BY DEF Recovered
<1> HIDE DEF jrow
<1> QED
  BY <1>1, <1>2 DEF LeaseEnded, BackupInv, BackupShape

\* A claim takes the oldest job; claims of jobs that were put back do not count.
LEMMA ClaimKeeps ==
    ASSUME BackupInv, NEW w \in BackupWorkers, ClaimNext(w)
    PROVE  BackupInv'
<1>1. PICK j \in Oldest :
         /\ bjob' = [i \in BackupJobIds |->
                IF i = j THEN [status |-> "RUNNING", holder |-> w, live |-> TRUE] ELSE Recovered(i)]
         /\ worker' = [worker EXCEPT ![w] =
                [worker[w] EXCEPT !.pc = "export", !.job = j, !.left = worker[w].left - 1]]
  BY DEF ClaimNext, SetWorker
<1>2. worker[w].left > 0 /\ UNCHANGED <<target, plan, outcome, edits, faults>>
  BY DEF ClaimNext
<1>3. j \in BackupJobIds /\ Recovered(j) # None /\ Recovered(j).status = "QUEUED"
  BY DEF Oldest
<1> DEFINE jrow == [status |-> "RUNNING", holder |-> w, live |-> TRUE]
           n == worker[w].left - 1
<1>x. PICK x : x = [worker[w] EXCEPT !.pc = "export", !.job = j, !.left = n]
  OBVIOUS
<1>4. jrow \in BackupJob /\ jrow.status = "RUNNING" /\ jrow # None
  BY JobRows
<1>5. n \in 0..JobsPerPass
  <2>1. worker[w].left \in 0..JobsPerPass
    BY DEF BackupInv, BackupShape, WorkerState
  <2> QED
    BY <1>2, <2>1, BackupAssumption
<1> HIDE DEF jrow, n
<1>6. x \in WorkerState /\ x.pc = "export" /\ x.job = j
  BY <1>3, <1>5, <1>x DEF BackupInv, BackupShape, WorkerState
<1>7. bjob' = [i \in BackupJobIds |-> IF i = j THEN jrow ELSE Recovered(i)] /\ worker' = [worker EXCEPT ![w] = x]
  BY <1>1, <1>x DEF jrow, n
<1>8. worker'[w] = x /\ \A v \in BackupWorkers \ {w} : worker'[v] = worker[v]
  BY <1>7 DEF BackupInv, BackupShape
<1>9. bjob'[j] = jrow /\ \A i \in BackupJobIds \ {j} : bjob'[i] = Recovered(i)
  BY <1>3, <1>7
<1>10. bjob' \in [BackupJobIds -> BackupJob \cup {None}]
  BY <1>4, <1>7, RecoveredJob
<1>11. /\ outcome' \in [BackupJobIds \X BackupTargets -> Outcome \cup {None}]
       /\ faults' \in 0..MaxFaults /\ \A i : SameRows(i)
  BY <1>2 DEF SameRows, BackupInv, BackupShape
<1>12. ASSUME NEW i \in BackupJobIds
       PROVE  JobTells(i)'
  <2>1. CASE i = j
    <3>1. bjob[j] # None
      BY <1>3, RecoveredJob
    <3> QED
      BY <1>4, <1>9, <1>11, <2>1, <3>1, JobTellsOn DEF Ended
  <2>2. CASE i # j
    BY <1>9, <1>11, <2>2, JobTellsOn, RecoveredJob DEF Ended
  <2> QED
    BY <2>1, <2>2
<1>13. Tells(x)'
  BY <1>6 DEF Tells
<1>14. ASSUME NEW v \in BackupWorkers \ {w}, Claimed(v)'
       PROVE  Claimed(v) /\ SameRows(worker[v].job)
  <2> DEFINE k == worker[v].job
  <2>1. k \in BackupJobIds /\ bjob'[k] # None /\ bjob'[k].status = "RUNNING" /\ bjob'[k].holder = v /\ k # None
    BY <1>8, <1>14 DEF Claimed, Believes, BackupInv, BackupShape, WorkerState
  <2>2. k # j
    BY <1>9, <2>1 DEF jrow
  <2>3. bjob'[k] = bjob[k]
    BY <1>9, <2>1, <2>2, RecoveredJob
  <2> QED
    BY <1>11, <2>1, <2>3 DEF Claimed, Believes
<1> QED
  BY <1>2, <1>6, <1>7, <1>10, <1>11, <1>12, <1>13, <1>14, StepKeeps

\* The end of a pass forgets jobs that ended, with their rows.
LEMMA EndPassKeeps ==
    ASSUME BackupInv, NEW w \in BackupWorkers, EndPass(w)
    PROVE  BackupInv'
<1>1. PICK old \in SUBSET {j \in BackupJobIds : JobIs(j, Ended)} :
         /\ bjob' = [j \in BackupJobIds |->
                IF j \in old THEN None ELSE IF worker[w].left = 0 THEN bjob[j] ELSE Recovered(j)]
         /\ outcome' = [p \in BackupJobIds \X BackupTargets |-> IF p[1] \in old THEN None ELSE outcome[p]]
  BY DEF EndPass
<1>2. worker' = [worker EXCEPT ![w] = IdleWorker] /\ UNCHANGED <<target, plan, edits, faults>>
  BY DEF EndPass, Abort, SetWorker
<1>3. /\ \A j \in old : bjob'[j] = None /\ Rows(j)' = {}
      /\ \A j \in BackupJobIds \ old : bjob'[j] \in {bjob[j], Recovered(j)} /\ SameRows(j)
  BY <1>1 DEF Rows, SameRows
<1>4. bjob' \in [BackupJobIds -> BackupJob \cup {None}]
  <2>1. \A j \in BackupJobIds : bjob[j] \in BackupJob \cup {None}
    BY DEF BackupInv, BackupShape
  <2> QED
    BY <1>1, <2>1, RecoveredJob
<1>5. /\ outcome' \in [BackupJobIds \X BackupTargets -> Outcome \cup {None}]
      /\ faults' \in 0..MaxFaults
  BY <1>1, <1>2 DEF BackupInv, BackupShape
<1>6. worker'[w] = IdleWorker /\ \A v \in BackupWorkers \ {w} : worker'[v] = worker[v]
  BY <1>2 DEF BackupInv, BackupShape
<1>7. ASSUME NEW j \in BackupJobIds
      PROVE  JobTells(j)'
  <2>1. CASE j \in old
    BY <1>3, <2>1 DEF JobTells, JobIs
  <2>2. CASE j \notin old
    BY <1>3, <2>2, JobTellsOn, RecoveredJob DEF Ended
  <2> QED
    BY <2>1, <2>2
<1>8. ASSUME NEW v \in BackupWorkers \ {w}, Claimed(v)'
      PROVE  Claimed(v) /\ SameRows(worker[v].job)
  <2> DEFINE k == worker[v].job
  <2>1. k \in BackupJobIds /\ bjob'[k] # None /\ bjob'[k].status = "RUNNING" /\ bjob'[k].holder = v /\ k # None
    BY <1>6, <1>8 DEF Claimed, Believes, BackupInv, BackupShape, WorkerState
  <2>2. k \notin old
    BY <1>3, <2>1
  <2>3. bjob'[k] = bjob[k] /\ SameRows(k)
    BY <1>3, <2>1, <2>2, RecoveredJob
  <2> QED
    BY <2>1, <2>3 DEF Claimed, Believes
<1>9. ~Claimed(w)'
  BY <1>6, IdleState DEF Claimed, Believes
<1> QED
  BY <1>2, <1>4, <1>5, <1>7, <1>8, <1>9, IdleState, StepKeeps

\* The export, and the end of the targets.
LEMMA ExportKeeps ==
    ASSUME BackupInv, NEW w \in BackupWorkers, Export(w) \/ AllDone(w)
    PROVE  BackupInv'
<1>1. PICK pc \in {"load", "failing", "verdict"} :
         /\ worker' = [worker EXCEPT ![w] = [worker[w] EXCEPT !.pc = pc]]
         /\ pc = "verdict" => worker[w].pc = "begin" /\ worker[w].todo = {}
  BY DEF Export, AllDone, Step, SetWorker, At
<1>2. UNCHANGED <<target, plan, bjob, outcome, edits, faults>>
  BY DEF Export, AllDone
<1>3. PICK x : x = [worker[w] EXCEPT !.pc = pc]
  OBVIOUS
<1>4. x \in WorkerState /\ x.pc = pc /\ x.job = worker[w].job /\ x.todo = worker[w].todo
  BY <1>3 DEF BackupInv, BackupShape, WorkerState
<1>5. Claimed(w) => Tells(x)
  BY <1>1, <1>4 DEF BackupInv, Tells
<1>6. faults' \in 0..MaxFaults
  BY <1>2 DEF BackupInv, BackupShape
<1> QED
  BY <1>1, <1>2, <1>3, <1>4, <1>5, <1>6, MemoryKeeps

\* The verdict that a runtime reads is the one of the rows.
LEMMA ReadVerdictKeeps ==
    ASSUME BackupInv, NEW w \in BackupWorkers, ReadVerdict(w)
    PROVE  BackupInv'
<1> DEFINE v == Verdict(worker[w].job)
<1>1. /\ worker[w].pc = "verdict" /\ Holds(w)
      /\ worker' = [worker EXCEPT ![w] = [worker[w] EXCEPT !.pc = "finish", !.verdict = v]]
      /\ UNCHANGED <<target, plan, bjob, outcome, edits, faults>>
  BY DEF ReadVerdict, SetWorker, At
<1>2. v \in Ended
  BY DEF Verdict, Ended
<1>3. PICK x : x = [worker[w] EXCEPT !.pc = "finish", !.verdict = v]
  OBVIOUS
<1> HIDE DEF v
<1>4. /\ x \in WorkerState /\ x.pc = "finish" /\ x.job = worker[w].job /\ x.verdict = v
  BY <1>2, <1>3 DEF BackupInv, BackupShape, WorkerState
<1>5. Claimed(w) => Tells(x)
  <2>1. Claimed(w) => DecidedBut(worker[w].job, {})
    BY <1>1 DEF BackupInv, Tells
  <2> QED
    BY <1>4, <2>1 DEF Tells, v
<1>6. faults' \in 0..MaxFaults
  BY <1>1 DEF BackupInv, BackupShape
<1> QED
  BY <1>1, <1>3, <1>4, <1>5, <1>6, MemoryKeeps

\* A runtime that holds its claim writes to the rows S of its job j.
Writes(w, j, S, status) ==
    /\ BackupInv
    /\ w \in BackupWorkers /\ Claimed(w) /\ j = worker[w].job
    /\ S \subseteq Rows(j) /\ status \in {"RUNNING", "SUCCEEDED", "FAILED"}
    /\ SetRows(j, S, status)
    /\ UNCHANGED bjob

\* What a runtime that holds its claim writes to the rows of its job.
LEMMA RowsWritten ==
    ASSUME NEW w, NEW j, NEW S, NEW status, Writes(w, j, S, status)
    PROVE  /\ j \in BackupJobIds
           /\ outcome' \in [BackupJobIds \X BackupTargets -> Outcome \cup {None}]
           /\ \A i \in BackupJobIds \ {j} : SameRows(i)
           /\ \A i \in BackupJobIds : JobTells(i)'
           /\ Rows(j)' = Rows(j)
           /\ \A t \in Rows(j) : outcome'[<<j, t>>].status =
                                    IF t \in S THEN status ELSE outcome[<<j, t>>].status
<1> USE DEF Writes
<1>1. j \in BackupJobIds /\ bjob[j] # None /\ bjob[j].status = "RUNNING"
  BY DEF Claimed, Believes, BackupInv, BackupShape, WorkerState
<1>2. outcome' = [p \in BackupJobIds \X BackupTargets |->
                     IF p[1] = j /\ p[2] \in S THEN [outcome[p] EXCEPT !.status = status] ELSE outcome[p]]
  BY DEF SetRows
<1>3. S \subseteq Rows(j)
  OBVIOUS
<1>4. ASSUME NEW o \in Outcome
      PROVE  /\ [o EXCEPT !.status = status] \in Outcome
             /\ [o EXCEPT !.status = status].status = status
             /\ [o EXCEPT !.status = status] # None
  <2>1. [o EXCEPT !.status = status] \in Outcome /\ [o EXCEPT !.status = status].status = status
    BY DEF Outcome
  <2> QED
    BY <2>1, JobRows
<1>5. ASSUME NEW i \in BackupJobIds, NEW t \in BackupTargets
      PROVE  /\ outcome'[<<i, t>>] \in Outcome \cup {None}
             /\ outcome'[<<i, t>>] = None <=> outcome[<<i, t>>] = None
             /\ i = j /\ t \in S => outcome'[<<i, t>>].status = status
             /\ ~(i = j /\ t \in S) => outcome'[<<i, t>>] = outcome[<<i, t>>]
  <2>1. outcome[<<i, t>>] \in Outcome \cup {None}
    BY DEF BackupInv, BackupShape
  <2>2. CASE i = j /\ t \in S
    <3>1. outcome[<<i, t>>] # None
      BY <1>3, <2>2 DEF Rows
    <3>2. outcome'[<<i, t>>] = [outcome[<<i, t>>] EXCEPT !.status = status]
      BY <1>2, <2>2
    <3> QED
      BY <1>4, <2>1, <2>2, <3>1, <3>2
  <2>3. CASE ~(i = j /\ t \in S)
    <3>1. outcome'[<<i, t>>] = outcome[<<i, t>>]
      BY <1>2, <2>3
    <3> QED
      BY <2>1, <2>3, <3>1
  <2> QED
    BY <2>2, <2>3
<1>6. outcome' \in [BackupJobIds \X BackupTargets -> Outcome \cup {None}]
  <2>1. \A p \in BackupJobIds \X BackupTargets : outcome'[p] \in Outcome \cup {None}
    BY <1>5
  <2> QED
    BY <1>2, <2>1
<1>7. \A i \in BackupJobIds \ {j} : SameRows(i)
  BY <1>5 DEF SameRows
<1>8. Rows(j)' = Rows(j)
  <2>1. \A t \in BackupTargets : outcome'[<<j, t>>] = None <=> outcome[<<j, t>>] = None
    BY <1>1, <1>5
  <2> QED
    BY <2>1 DEF Rows
<1>9. \A t \in Rows(j) : outcome'[<<j, t>>].status = IF t \in S THEN status ELSE outcome[<<j, t>>].status
  BY <1>1, <1>5 DEF Rows
<1>10. ASSUME NEW i \in BackupJobIds
       PROVE  JobTells(i)'
  <2>1. CASE i = j
    BY <1>1, <2>1 DEF JobTells, JobIs, Ended
  <2>2. CASE i # j
    BY <1>7, <2>2, JobTellsOn
  <2> QED
    BY <2>1, <2>2
<1> QED
  BY <1>1, <1>6, <1>7, <1>8, <1>9, <1>10

\* A runtime that writes rows under its claim, and what it remembers then.
LEMMA WriteKeeps ==
    ASSUME NEW w, NEW j, NEW S, NEW status, Writes(w, j, S, status),
           UNCHANGED <<target, plan, edits, faults>>,
           NEW x \in WorkerState, worker' = [worker EXCEPT ![w] = x], x.job = j,
           x.pc \in {"upload", "record"} => x.todo # {}, Tells(x)'
    PROVE  BackupInv'
<1>0. /\ BackupInv /\ w \in BackupWorkers /\ Claimed(w) /\ j = worker[w].job /\ UNCHANGED bjob
      /\ outcome' \in [BackupJobIds \X BackupTargets -> Outcome \cup {None}]
      /\ \A i \in BackupJobIds \ {j} : SameRows(i)
      /\ \A i \in BackupJobIds : JobTells(i)'
  BY RowsWritten DEF Writes
<1>1. \A v \in BackupWorkers \ {w} : worker'[v] = worker[v]
  BY <1>0 DEF BackupInv, BackupShape
<1>2. ASSUME NEW v \in BackupWorkers \ {w}, Claimed(v)'
      PROVE  Claimed(v) /\ SameRows(worker[v].job)
  <2>1. Claimed(v) /\ worker[v].job \in BackupJobIds
    BY <1>0, <1>1, <1>2 DEF Claimed, Believes, BackupInv, BackupShape, WorkerState
  <2>2. worker[v].job # worker[w].job
    BY <1>0, <2>1 DEF Claimed
  <2> QED
    BY <1>0, <2>1, <2>2
<1>3. /\ bjob' \in [BackupJobIds -> BackupJob \cup {None}] /\ faults' \in 0..MaxFaults
      /\ outcome' \in [BackupJobIds \X BackupTargets -> Outcome \cup {None}]
      /\ \A i \in BackupJobIds : JobTells(i)'
  BY <1>0 DEF BackupInv, BackupShape
<1> QED
  BY <1>0, <1>2, <1>3, StepKeeps

\* The rows that are not decided after a write.
LEMMA DecidedAfter ==
    ASSUME NEW w, NEW j, NEW S, NEW status, Writes(w, j, S, status), NEW T,
           T \subseteq Rows(j), status = "RUNNING" => S \subseteq T, status = "SUCCEEDED" => S \cap T = {},
           \A t \in T \ S : outcome[<<j, t>>].status # "SUCCEEDED",
           \A t \in Rows(j) \ (S \cup T) : outcome[<<j, t>>].status \in {"SUCCEEDED", "FAILED"}
    PROVE  DecidedBut(j, T)'
<1>1. Rows(j)' = Rows(j)
  BY RowsWritten
<1>2. \A t \in Rows(j) : outcome'[<<j, t>>].status = IF t \in S THEN status ELSE outcome[<<j, t>>].status
  BY RowsWritten
<1>3. \A t \in T : outcome'[<<j, t>>].status # "SUCCEEDED"
  BY <1>2 DEF Writes
<1>4. \A t \in Rows(j) \ T : outcome'[<<j, t>>].status \in {"SUCCEEDED", "FAILED"}
  BY <1>2 DEF Writes
<1> QED
  BY <1>1, <1>3, <1>4 DEF DecidedBut

\* A claim that may write is one that the row names.
LEMMA HoldsClaim ==
    ASSUME BackupInv, NEW w \in BackupWorkers, Holds(w)
    PROVE  Claimed(w) /\ Tells(worker[w]) /\ worker[w].job \in BackupJobIds
BY DEF Holds, Claimed, Believes, BackupInv, BackupShape, WorkerState

\* What is pending fails.
LEMMA FailPendingKeeps ==
    ASSUME BackupInv, NEW w \in BackupWorkers, FailPending(w)
    PROVE  BackupInv'
<1>1. /\ Holds(w) /\ SetRows(worker[w].job, Pending(worker[w].job), "FAILED")
      /\ worker' = [worker EXCEPT ![w] = [worker[w] EXCEPT !.pc = "verdict"]]
      /\ UNCHANGED <<target, plan, bjob, edits, faults>>
  BY DEF FailPending, Step, SetWorker
<1>2. Claimed(w) /\ worker[w].job \in BackupJobIds
  BY <1>1, HoldsClaim
<1>3. PICK j : j = worker[w].job
  OBVIOUS
<1>4. PICK x : x = [worker[w] EXCEPT !.pc = "verdict"]
  OBVIOUS
<1>5. PICK S : S = Pending(j)
  OBVIOUS
<1>6. x \in WorkerState /\ x.pc = "verdict" /\ x.job = j
  BY <1>3, <1>4 DEF BackupInv, BackupShape, WorkerState
<1>7. /\ S \subseteq Rows(j)
      /\ \A t \in Rows(j) \ S : outcome[<<j, t>>].status \in {"SUCCEEDED", "FAILED"}
  BY <1>5 DEF Pending
<1>8. Writes(w, j, S, "FAILED")
  BY <1>1, <1>2, <1>3, <1>5, <1>7 DEF Writes
<1>9. DecidedBut(j, {})'
  BY <1>7, <1>8, DecidedAfter
<1>10. Tells(x)'
  BY <1>6, <1>9 DEF Tells
<1> QED
  BY <1>1, <1>4, <1>6, <1>8, <1>10, WriteKeeps

\* A target that changed fails, the others are left to do.
LEMMA LoadKeeps ==
    ASSUME BackupInv, NEW w \in BackupWorkers, LoadTargets(w)
    PROVE  BackupInv'
<1> DEFINE todo == {t \in Pending(worker[w].job) : Unchanged(worker[w].job, t)}
<1>1. /\ Holds(w) /\ SetRows(worker[w].job, Changed(worker[w].job), "FAILED")
      /\ worker' = [worker EXCEPT ![w] = [worker[w] EXCEPT !.pc = "begin", !.todo = todo]]
      /\ UNCHANGED <<target, plan, bjob, edits, faults>>
  BY DEF LoadTargets, SetWorker
<1>2. Claimed(w) /\ worker[w].job \in BackupJobIds
  BY <1>1, HoldsClaim
<1>3. PICK j : j = worker[w].job
  OBVIOUS
<1>4. PICK x : x = [worker[w] EXCEPT !.pc = "begin", !.todo = todo]
  OBVIOUS
<1>5. PICK S : S = Changed(j)
  OBVIOUS
<1>6. PICK T : T = todo
  OBVIOUS
<1>7. /\ S \subseteq Rows(j) /\ T \subseteq Rows(j) /\ T \subseteq BackupTargets
      /\ \A t \in T : outcome[<<j, t>>].status # "SUCCEEDED"
      /\ \A t \in Rows(j) \ (S \cup T) : outcome[<<j, t>>].status \in {"SUCCEEDED", "FAILED"}
  BY <1>3, <1>5, <1>6 DEF Changed, Pending, Rows
<1> HIDE DEF todo
<1>8. x \in WorkerState /\ x.pc = "begin" /\ x.job = j /\ x.todo = T
  BY <1>3, <1>4, <1>6, <1>7 DEF BackupInv, BackupShape, WorkerState
<1>9. Writes(w, j, S, "FAILED")
  BY <1>1, <1>2, <1>3, <1>5, <1>7 DEF Writes
<1>10. DecidedBut(j, T)'
  BY <1>7, <1>9, DecidedAfter
<1>11. Tells(x)'
  BY <1>8, <1>10 DEF Tells
<1> QED
  BY <1>1, <1>4, <1>6, <1>8, <1>9, <1>11, WriteKeeps DEF todo

\* The target that is uploaded to next is running.
LEMMA BeginKeeps ==
    ASSUME BackupInv, NEW w \in BackupWorkers, BeginTarget(w)
    PROVE  BackupInv'
<1>1. /\ Holds(w) /\ worker[w].pc = "begin" /\ worker[w].todo # {}
      /\ SetRows(worker[w].job, {Current(w)}, "RUNNING")
      /\ worker' = [worker EXCEPT ![w] = [worker[w] EXCEPT !.pc = "upload"]]
      /\ UNCHANGED <<target, plan, bjob, edits, faults>>
  BY DEF BeginTarget, Step, SetWorker, At
<1>2. Claimed(w) /\ Tells(worker[w]) /\ worker[w].job \in BackupJobIds /\ Current(w) \in worker[w].todo
  BY <1>1, HoldsClaim, CurrentIsLeft DEF BackupInv
<1>3. PICK j : j = worker[w].job
  OBVIOUS
<1>4. PICK x : x = [worker[w] EXCEPT !.pc = "upload"]
  OBVIOUS
<1>5. PICK S : S = {Current(w)}
  OBVIOUS
<1>6. PICK T : T = worker[w].todo
  OBVIOUS
<1>7. x \in WorkerState /\ x.pc = "upload" /\ x.job = j /\ x.todo = T
  BY <1>3, <1>4, <1>6 DEF BackupInv, BackupShape, WorkerState
<1>8. DecidedBut(j, T) /\ S \subseteq T /\ T # {}
  BY <1>1, <1>2, <1>3, <1>5, <1>6 DEF Tells
<1>9. S \subseteq Rows(j)
  BY <1>8 DEF DecidedBut
<1>10. Writes(w, j, S, "RUNNING")
  BY <1>1, <1>2, <1>3, <1>5, <1>9 DEF Writes
<1>11. DecidedBut(j, T)'
  <2>1. /\ T \subseteq Rows(j)
        /\ \A t \in T \ S : outcome[<<j, t>>].status # "SUCCEEDED"
        /\ \A t \in Rows(j) \ (S \cup T) : outcome[<<j, t>>].status \in {"SUCCEEDED", "FAILED"}
    BY <1>8 DEF DecidedBut
  <2> QED
    BY <1>8, <1>10, <2>1, DecidedAfter
<1>12. Tells(x)'
  BY <1>7, <1>11 DEF Tells
<1> QED
  BY <1>1, <1>4, <1>7, <1>8, <1>10, <1>12, WriteKeeps

\* The target that was uploaded to is decided and no longer left.
LEMMA CompleteKeeps ==
    ASSUME BackupInv, NEW w \in BackupWorkers, CompleteTarget(w)
    PROVE  BackupInv'
<1>1. PICK status \in {"SUCCEEDED", "FAILED"} : SetRows(worker[w].job, {Current(w)}, status)
  BY DEF CompleteTarget
<1>2. /\ Holds(w) /\ worker[w].pc = "record"
      /\ worker' = [worker EXCEPT ![w] =
             [worker[w] EXCEPT !.pc = "begin", !.todo = worker[w].todo \ {Current(w)}]]
      /\ UNCHANGED <<target, plan, bjob, edits, faults>>
  BY DEF CompleteTarget, SetWorker, At
<1>3. Claimed(w) /\ Tells(worker[w]) /\ worker[w].job \in BackupJobIds /\ Current(w) \in worker[w].todo
  BY <1>2, HoldsClaim, CurrentIsLeft DEF BackupInv
<1>4. PICK j : j = worker[w].job
  OBVIOUS
<1>5. PICK S : S = {Current(w)}
  OBVIOUS
<1>6. PICK T : T = worker[w].todo \ S
  OBVIOUS
<1>7. PICK x : x = [worker[w] EXCEPT !.pc = "begin", !.todo = T]
  OBVIOUS
<1>8. x \in WorkerState /\ x.pc = "begin" /\ x.job = j /\ x.todo = T
  <2>1. T \subseteq BackupTargets
    BY <1>6 DEF BackupInv, BackupShape, WorkerState
  <2> QED
    BY <1>4, <1>7, <2>1 DEF BackupInv, BackupShape, WorkerState
<1>9. DecidedBut(j, worker[w].todo)
  BY <1>2, <1>3, <1>4 DEF Tells
<1>10. S \subseteq Rows(j) /\ worker' = [worker EXCEPT ![w] = x]
  BY <1>2, <1>3, <1>5, <1>6, <1>7, <1>9 DEF DecidedBut
<1>11. Writes(w, j, S, status)
  BY <1>1, <1>2, <1>3, <1>4, <1>5, <1>10 DEF Writes
<1>12. DecidedBut(j, T)'
  <2>1. /\ T \subseteq Rows(j) /\ S \cap T = {}
        /\ \A t \in T \ S : outcome[<<j, t>>].status # "SUCCEEDED"
        /\ \A t \in Rows(j) \ (S \cup T) : outcome[<<j, t>>].status \in {"SUCCEEDED", "FAILED"}
    BY <1>6, <1>9 DEF DecidedBut
  <2> QED
    BY <1>1, <1>11, <2>1, DecidedAfter
<1>13. Tells(x)'
  BY <1>8, <1>12 DEF Tells
<1> QED
  BY <1>2, <1>8, <1>10, <1>11, <1>13, WriteKeeps

\* The lease of a job ends; nothing else of its row changes.
LEMMA LeaseOver ==
    ASSUME BackupInv, NEW j \in BackupJobIds, bjob[j] # None,
           bjob' = bjob \/ bjob' = [bjob EXCEPT ![j].live = FALSE]
    PROVE  /\ bjob' \in [BackupJobIds -> BackupJob \cup {None}]
           /\ \A i \in BackupJobIds : bjob'[i] = None <=> bjob[i] = None
           /\ \A i \in BackupJobIds : bjob[i] # None =>
                 bjob'[i].status = bjob[i].status /\ bjob'[i].holder = bjob[i].holder
<1> DEFINE jrow == [bjob[j] EXCEPT !.live = FALSE]
<1>1. bjob[j] \in BackupJob
  BY DEF BackupInv, BackupShape
<1>2. jrow \in BackupJob /\ jrow.status = bjob[j].status /\ jrow.holder = bjob[j].holder
  BY <1>1 DEF BackupJob
<1>3. bjob' = bjob \/ bjob' = [bjob EXCEPT ![j] = jrow]
  OBVIOUS
<1>4. jrow # None
  BY <1>2, JobRows
<1> HIDE DEF jrow
<1> QED
  BY <1>2, <1>3, <1>4 DEF BackupInv, BackupShape

\* No heartbeat runs during an upload: the lease may end.
LEMMA UploadKeeps ==
    ASSUME BackupInv, NEW w \in BackupWorkers, Upload(w)
    PROVE  BackupInv'
<1>1. /\ worker[w].pc = "upload"
      /\ worker' = [worker EXCEPT ![w] = [worker[w] EXCEPT !.pc = "record"]]
      /\ UNCHANGED <<target, plan, outcome, edits, faults>>
      /\ \/ UNCHANGED bjob
         \/ Holds(w) /\ bjob' = [bjob EXCEPT ![worker[w].job].live = FALSE]
  BY DEF Upload, Step, SetWorker, At
<1>2. PICK x : x = [worker[w] EXCEPT !.pc = "record"]
  OBVIOUS
<1>3. x \in WorkerState /\ x.pc = "record" /\ x.job = worker[w].job /\ x.todo = worker[w].todo
  BY <1>2 DEF BackupInv, BackupShape, WorkerState
<1>4. /\ bjob' \in [BackupJobIds -> BackupJob \cup {None}]
      /\ \A i \in BackupJobIds : bjob'[i] = None <=> bjob[i] = None
      /\ \A i \in BackupJobIds : bjob[i] # None =>
            bjob'[i].status = bjob[i].status /\ bjob'[i].holder = bjob[i].holder
  <2>1. CASE UNCHANGED bjob
    BY <2>1 DEF BackupInv, BackupShape
  <2>2. CASE Holds(w) /\ bjob' = [bjob EXCEPT ![worker[w].job].live = FALSE]
    <3>1. bjob[worker[w].job] # None /\ worker[w].job \in BackupJobIds
      BY <2>2, HoldsClaim DEF Holds, Believes
    <3> QED
      BY <2>2, <3>1, LeaseOver
  <2> QED
    BY <1>1, <2>1, <2>2
<1>5. /\ outcome' \in [BackupJobIds \X BackupTargets -> Outcome \cup {None}]
      /\ faults' \in 0..MaxFaults /\ \A i : SameRows(i)
  BY <1>1 DEF SameRows, BackupInv, BackupShape
<1>6. worker'[w] = x /\ \A v \in BackupWorkers \ {w} : worker'[v] = worker[v]
  BY <1>1, <1>2 DEF BackupInv, BackupShape
<1>7. \A i \in BackupJobIds : JobTells(i)'
  BY <1>4, <1>5, JobTellsOn
<1>8. ASSUME NEW v \in BackupWorkers, Claimed(v)'
      PROVE  Claimed(v) /\ SameRows(worker[v].job)
  <2>1. /\ worker[v].job # None /\ bjob'[worker[v].job] # None
        /\ bjob'[worker[v].job].status = "RUNNING" /\ bjob'[worker[v].job].holder = v
    BY <1>3, <1>6, <1>8 DEF Claimed, Believes
  <2>2. worker[v].job \in BackupJobIds
    BY <2>1 DEF BackupInv, BackupShape, WorkerState
  <2> QED
    BY <1>4, <1>5, <2>1, <2>2 DEF Claimed, Believes
<1>9. Claimed(w)' => Tells(x)'
  <2> SUFFICES ASSUME Claimed(w)'
               PROVE  Tells(x)'
    OBVIOUS
  <2>1. Tells(worker[w])
    BY <1>8 DEF BackupInv
  <2>2. Tells(x)
    BY <1>1, <1>3, <2>1 DEF Tells
  <2> QED
    BY <1>5, <2>2, TellsOn
<1>10. x.todo # {}
  BY <1>1, <1>3 DEF BackupInv
<1>11. worker' = [worker EXCEPT ![w] = x] /\ UNCHANGED <<target, plan, edits>>
  BY <1>1, <1>2
<1> QED
  BY <1>3, <1>4, <1>5, <1>7, <1>8, <1>9, <1>10, <1>11, StepKeeps

\* A lease ends while its worker is gone or pauses.
LEMMA LeaseEndsKeeps ==
    ASSUME BackupInv, NEW j \in BackupJobIds, LeaseEnds(j)
    PROVE  BackupInv'
<1>1. /\ bjob[j] # None /\ bjob' = [bjob EXCEPT ![j].live = FALSE]
      /\ UNCHANGED <<target, plan, outcome, worker, edits>>
      /\ \/ faults' = faults
         \/ faults < MaxFaults /\ faults' = faults + 1
  BY DEF LeaseEnds, JobIs
<1>2. /\ bjob' \in [BackupJobIds -> BackupJob \cup {None}]
      /\ \A i \in BackupJobIds : bjob'[i] = None <=> bjob[i] = None
      /\ \A i \in BackupJobIds : bjob[i] # None =>
            bjob'[i].status = bjob[i].status /\ bjob'[i].holder = bjob[i].holder
  BY <1>1, LeaseOver
<1>3. faults' \in 0..MaxFaults
  BY <1>1, BackupAssumption DEF BackupInv, BackupShape
<1>4. /\ outcome' \in [BackupJobIds \X BackupTargets -> Outcome \cup {None}]
      /\ \A i : SameRows(i)
  BY <1>1 DEF SameRows, BackupInv, BackupShape
<1>5. \A i \in BackupJobIds : JobTells(i)'
  BY <1>2, <1>4, JobTellsOn
<1>6. ASSUME NEW v \in BackupWorkers, Claimed(v)'
      PROVE  Claimed(v) /\ SameRows(worker[v].job)
  <2>1. /\ worker[v].job # None /\ bjob'[worker[v].job] # None
        /\ bjob'[worker[v].job].status = "RUNNING" /\ bjob'[worker[v].job].holder = v
    BY <1>1, <1>6 DEF Claimed, Believes
  <2>2. worker[v].job \in BackupJobIds
    BY <2>1 DEF BackupInv, BackupShape, WorkerState
  <2> QED
    BY <1>2, <1>4, <2>1, <2>2 DEF Claimed, Believes
<1> QED
  BY <1>1, <1>2, <1>3, <1>4, <1>5, <1>6, RequestKeeps

\* The job ends with the verdict of its rows, if the row still names the claim.
LEMMA FinishKeeps ==
    ASSUME BackupInv, NEW w \in BackupWorkers, FinishJob(w)
    PROVE  BackupInv'
<1>1. worker[w].pc = "finish" /\ UNCHANGED <<target, plan, outcome, edits, faults>>
  BY DEF FinishJob, At
<1>2. faults' \in 0..MaxFaults
  BY <1>1 DEF BackupInv, BackupShape
<1>3. CASE ~Claimed(w)
  <2>1. worker' = [worker EXCEPT ![w] = IdleWorker] /\ UNCHANGED bjob
    BY <1>3 DEF FinishJob, Abort, SetWorker, Claimed
  <2> QED
    BY <1>1, <1>2, <2>1, IdleState, MemoryKeeps
<1>4. CASE Claimed(w)
  <2>1. PICK j : j = worker[w].job
    OBVIOUS
  <2>2. PICK jrow : jrow = [status |-> worker[w].verdict, holder |-> None, live |-> FALSE]
    OBVIOUS
  <2>3. PICK x : x = [IdleWorker EXCEPT !.pc = "claim", !.left = worker[w].left]
    OBVIOUS
  <2>4. bjob' = [bjob EXCEPT ![j] = jrow] /\ worker' = [worker EXCEPT ![w] = x]
    BY <1>4, <2>1, <2>2, <2>3 DEF FinishJob, SetWorker, Claimed
  <2>5. j \in BackupJobIds /\ bjob[j] # None /\ bjob[j].status = "RUNNING" /\ bjob[j].holder = w
    BY <1>4, <2>1 DEF Claimed, Believes, BackupInv, BackupShape, WorkerState
  <2>6. Tells(worker[w])
    BY <1>4 DEF BackupInv
  <2>7. worker[w].verdict = Verdict(j) /\ DecidedBut(j, {})
    BY <1>1, <2>1, <2>6 DEF Tells
  <2>8. Verdict(j) \in Ended
    BY DEF Verdict, Ended
  <2>9. jrow \in BackupJob /\ jrow.status = Verdict(j) /\ jrow # None
    BY <2>2, <2>7, <2>8, JobRows
  <2>10. x \in WorkerState /\ x.job = None /\ x.pc = "claim"
    <3>1. worker[w].left \in 0..JobsPerPass
      BY DEF BackupInv, BackupShape, WorkerState
    <3> QED
      BY <2>3, <3>1 DEF IdleWorker, WorkerState
  <2>11. bjob'[j] = jrow /\ \A i \in BackupJobIds \ {j} : bjob'[i] = bjob[i]
    BY <2>4, <2>5 DEF BackupInv, BackupShape
  <2>12. worker'[w] = x /\ \A v \in BackupWorkers \ {w} : worker'[v] = worker[v]
    BY <2>4 DEF BackupInv, BackupShape
  <2>13. /\ bjob' \in [BackupJobIds -> BackupJob \cup {None}]
         /\ outcome' \in [BackupJobIds \X BackupTargets -> Outcome \cup {None}]
         /\ \A i : SameRows(i)
    BY <1>1, <2>4, <2>9 DEF SameRows, BackupInv, BackupShape
  <2>14. ASSUME NEW i \in BackupJobIds
         PROVE  JobTells(i)'
    <3>1. CASE i = j
      <4>1. Verdict(j)' = Verdict(j) /\ DecidedBut(j, {})'
        BY <2>7, <2>13, SameRowsTell
      <4> QED
        BY <2>9, <2>11, <3>1, <4>1 DEF JobTells
    <3>2. CASE i # j
      BY <2>11, <2>13, <3>2, JobTellsOn
    <3> QED
      BY <3>1, <3>2
  <2>15. ~Claimed(w)'
    BY <2>10, <2>12 DEF Claimed, Believes
  <2>16. ASSUME NEW v \in BackupWorkers \ {w}, Claimed(v)'
         PROVE  Claimed(v) /\ SameRows(worker[v].job)
    <3>1. /\ worker[v].job # None /\ bjob'[worker[v].job] # None
          /\ bjob'[worker[v].job].status = "RUNNING" /\ bjob'[worker[v].job].holder = v
      BY <2>12, <2>16 DEF Claimed, Believes
    <3>2. worker[v].job \in BackupJobIds
      BY <3>1 DEF BackupInv, BackupShape, WorkerState
    <3>3. worker[v].job # j
      BY <2>8, <2>9, <2>11, <3>1 DEF Ended
    <3> QED
      BY <2>11, <2>13, <3>1, <3>2, <3>3 DEF Claimed, Believes
  <2> QED
    BY <1>1, <1>2, <2>4, <2>10, <2>13, <2>14, <2>15, <2>16, StepKeeps
<1> QED
  BY <1>3, <1>4

\* Every step of the requests, of the runtimes and of time.
LEMMA BackupStep == BackupInv /\ [BackupNext]_backupVars => BackupInv'
<1> SUFFICES ASSUME BackupInv, [BackupNext]_backupVars
             PROVE  BackupInv'
  OBVIOUS
<1>1. CASE BackupRequest
  BY <1>1, EditKeeps, EnqueueKeeps DEF BackupRequest
<1>2. ASSUME NEW w \in BackupWorkers, BackupWork(w)
      PROVE  BackupInv'
  <2>1. CASE StartBackups(w) \/ ClaimNext(w) \/ EndPass(w) \/ Refused(w)
    BY <2>1, StartKeeps, ClaimKeeps, EndPassKeeps, AbortKeeps
  <2>2. CASE Export(w) \/ AllDone(w) \/ ReadVerdict(w) \/ FinishJob(w)
    BY <2>2, ExportKeeps, ReadVerdictKeeps, FinishKeeps
  <2>3. CASE FailPending(w) \/ LoadTargets(w) \/ BeginTarget(w) \/ Upload(w) \/ CompleteTarget(w)
    BY <2>3, FailPendingKeeps, LoadKeeps, BeginKeeps, UploadKeeps, CompleteKeeps
  <2> QED
    BY <1>2, <2>1, <2>2, <2>3 DEF BackupWork
<1>3. ASSUME NEW w \in BackupWorkers, Crash(w)
      PROVE  BackupInv'
  BY <1>3, AbortKeeps
<1>4. ASSUME NEW j \in BackupJobIds, LeaseEnds(j)
      PROVE  BackupInv'
  BY <1>4, LeaseEndsKeeps
<1>5. CASE UNCHANGED backupVars
  <2>1. /\ faults' \in 0..MaxFaults /\ \A i : SameRows(i)
        /\ UNCHANGED <<worker, target, plan, edits, bjob, outcome>>
    BY <1>5 DEF backupVars, SameRows, BackupInv, BackupShape
  <2>2. \A j \in BackupJobIds : JobTells(j)'
    BY <2>1, JobTellsOn
  <2>3. \A v \in BackupWorkers : Claimed(v)' => Claimed(v)
    BY <2>1 DEF Claimed, Believes
  <2>4. /\ bjob' \in [BackupJobIds -> BackupJob \cup {None}]
        /\ outcome' \in [BackupJobIds \X BackupTargets -> Outcome \cup {None}]
    BY <2>1 DEF BackupInv, BackupShape
  <2> QED
    BY <2>1, <2>2, <2>3, <2>4, RequestKeeps
<1> QED
  BY <1>1, <1>2, <1>3, <1>4, <1>5 DEF BackupNext

(* What a runtime that still has its claim remembers agrees with the rows  *)
(* of its job, in every state that requests, runtimes, crashes and leases  *)
(* that end can reach (backups/repository.rs, backups/runtime.rs).         *)
THEOREM BackupSafe == BackupSpec => []BackupInv
<1> QED
  BY BackupStart, BackupStep, PTL DEF BackupSpec

(* Every row and every runtime keeps its type.                              *)
THEOREM BackupTyped == BackupSpec => []BackupTypeOK
<1>1. BackupInv => BackupTypeOK
  BY DEF BackupInv, BackupShape, WorkerState, BackupTypeOK
<1> QED
  BY <1>1, BackupSafe, PTL

(* The verdict of a job that ended is the one its rows give, and each row   *)
(* is decided (repository.rs, finish_job).                                 *)
THEOREM VerdictTold == BackupSpec => []VerdictTellsTargets
<1>1. BackupInv => VerdictTellsTargets
  BY DEF BackupInv, JobTells, DecidedBut, VerdictTellsTargets
<1> QED
  BY <1>1, BackupSafe, PTL

\* The verdict of a job and the targets that have their backup stand.
Stands(j) ==
    /\ JobIs(j, Ended) =>
          \/ bjob'[j] = None
          \/ /\ bjob'[j] = bjob[j]
             /\ \A t \in Rows(j) : outcome'[<<j, t>>].status = outcome[<<j, t>>].status
    /\ \A t \in Rows(j) : outcome[<<j, t>>].status = "SUCCEEDED" =>
          outcome'[<<j, t>>] = None \/ outcome'[<<j, t>>].status = "SUCCEEDED"

\* A job that keeps its rows, and its own row if it has ended.
LEMMA SameStands ==
    ASSUME NEW j, SameRows(j), JobIs(j, Ended) => bjob'[j] = bjob[j]
    PROVE  Stands(j)
BY DEF Stands, SameRows, Rows

\* A claimed job is running, and rows that have their backup keep it.
LEMMA WritesStand ==
    ASSUME NEW w, NEW j, NEW S, NEW status, Writes(w, j, S, status),
           status = "SUCCEEDED" \/ \A t \in S : outcome[<<j, t>>].status # "SUCCEEDED",
           NEW i \in BackupJobIds
    PROVE  Stands(i)
<1>1. CASE i = j
  <2>1. bjob[j].status = "RUNNING"
    BY DEF Writes, Claimed
  <2>2. \A t \in Rows(j) : outcome'[<<j, t>>].status =
                              IF t \in S THEN status ELSE outcome[<<j, t>>].status
    BY RowsWritten
  <2> QED
    BY <1>1, <2>1, <2>2 DEF Stands, JobIs, Ended
<1>2. CASE i # j
  <2>1. SameRows(i) /\ bjob' = bjob
    BY <1>2, RowsWritten DEF Writes
  <2> QED
    BY <2>1, SameStands
<1> QED
  BY <1>1, <1>2

\* A target that is deleted is unbound from its rows, which stay.
LEMMA EditSameRows ==
    ASSUME BackupInv, Edit
    PROVE  \A j \in BackupJobIds : SameRows(j)
<1>1. CASE UNCHANGED outcome
  BY <1>1 DEF SameRows
<1>2. ASSUME NEW t \in BackupTargets, DeleteTarget(t)
      PROVE  \A j \in BackupJobIds : SameRows(j)
  <2>1. outcome' = [p \in BackupJobIds \X BackupTargets |->
             IF p[2] = t /\ outcome[p] # None THEN [outcome[p] EXCEPT !.bound = FALSE]
             ELSE outcome[p]]
    BY <1>2 DEF DeleteTarget
  <2>2. ASSUME NEW o \in Outcome
        PROVE  /\ [o EXCEPT !.bound = FALSE] \in Outcome
               /\ [o EXCEPT !.bound = FALSE].status = o.status
    BY DEF Outcome
  <2>3. ASSUME NEW p \in BackupJobIds \X BackupTargets
        PROVE  /\ outcome'[p] = None <=> outcome[p] = None
               /\ outcome[p] # None => outcome'[p].status = outcome[p].status
    <3>1. outcome[p] # None => outcome[p] \in Outcome
      BY DEF BackupInv, BackupShape
    <3>2. \/ outcome'[p] = outcome[p]
          \/ outcome[p] # None /\ outcome'[p] = [outcome[p] EXCEPT !.bound = FALSE]
      BY <2>1
    <3> QED
      BY <2>2, <3>1, <3>2, BackupRowAssumption
  <2> QED
    BY <2>3 DEF SameRows
<1> QED
  BY <1>1, <1>2 DEF Edit, CreateTarget, EditTarget, PutSchedule

\* A job that is inserted had no rows; the others stay.
LEMMA InsertStands ==
    ASSUME BackupInv, NEW i \in NextJob, NEW S \in SUBSET BackupTargets,
           \A t \in S : target[t] # None, InsertJob(i, S), NEW j \in BackupJobIds
    PROVE  Stands(j)
<1>1. CASE j = i
  <2>1. bjob[j] = None /\ JobTells(j)
    BY <1>1 DEF NextJob, BackupInv
  <2> QED
    BY <2>1 DEF Stands, JobTells, JobIs
<1>2. CASE j # i
  BY <1>2, InsertEffect, SameStands
<1> QED
  BY <1>1, <1>2

\* A claim may only write for a running job.
LEMMA WorkStands ==
    ASSUME BackupInv, NEW w \in BackupWorkers, BackupWork(w), NEW j \in BackupJobIds
    PROVE  Stands(j)
<1>1. CASE Refused(w) \/ Export(w) \/ AllDone(w) \/ ReadVerdict(w)
  BY <1>1, SameStands DEF Refused, Export, AllDone, ReadVerdict, SameRows
<1>2. CASE StartBackups(w)
  <2>1. CASE UNCHANGED <<bjob, outcome>>
    BY <2>1, SameStands DEF SameRows
  <2>2. ASSUME NEW i \in NextJob, InsertJob(i, SelectedTargets(plan))
        PROVE  Stands(j)
    BY <2>2, InsertStands DEF SelectedTargets, BackupInv, BackupShape
  <2> QED
    BY <1>2, <2>1, <2>2 DEF StartBackups
<1>3. CASE ClaimNext(w)
  <2>1. PICK i \in Oldest :
          bjob' = [k \in BackupJobIds |->
                IF k = i THEN [status |-> "RUNNING", holder |-> w, live |-> TRUE] ELSE Recovered(k)]
    BY <1>3 DEF ClaimNext
  <2>2. JobIs(j, Ended) => j # i /\ Recovered(j) = bjob[j]
    BY <2>1, RecoveredJob DEF JobIs, Ended, Oldest
  <2>3. SameRows(j)
    BY <1>3 DEF ClaimNext, SameRows
  <2> QED
    BY <2>1, <2>2, <2>3, SameStands
<1>4. CASE EndPass(w)
  <2>1. PICK old \in SUBSET {k \in BackupJobIds : JobIs(k, Ended)} :
         /\ bjob' = [k \in BackupJobIds |->
                IF k \in old THEN None ELSE IF worker[w].left = 0 THEN bjob[k] ELSE Recovered(k)]
         /\ outcome' = [p \in BackupJobIds \X BackupTargets |-> IF p[1] \in old THEN None ELSE outcome[p]]
    BY <1>4 DEF EndPass
  <2>2. CASE j \in old
    <3>1. bjob'[j] = None /\ \A t \in Rows(j) : outcome'[<<j, t>>] = None
      BY <2>1, <2>2 DEF Rows
    <3> QED
      BY <3>1 DEF Stands
  <2>3. CASE j \notin old
    <3>1. SameRows(j) /\ bjob'[j] \in {bjob[j], Recovered(j)}
      BY <2>1, <2>3 DEF SameRows
    <3>2. JobIs(j, Ended) => Recovered(j) = bjob[j]
      BY RecoveredJob DEF JobIs, Ended
    <3> QED
      BY <3>1, <3>2, SameStands
  <2> QED
    BY <2>2, <2>3
<1>5. CASE FailPending(w) \/ LoadTargets(w)
  <2>1. PICK i : i = worker[w].job
    OBVIOUS
  <2>2. PICK S \in {Pending(i), Changed(i)} : SetRows(i, S, "FAILED")
    BY <1>5, <2>1 DEF FailPending, LoadTargets
  <2>3. Claimed(w) /\ UNCHANGED bjob
    BY <1>5, HoldsClaim DEF FailPending, LoadTargets
  <2>4. S \subseteq Rows(i) /\ \A t \in S : outcome[<<i, t>>].status # "SUCCEEDED"
    BY <2>2 DEF Changed, Pending
  <2>5. Writes(w, i, S, "FAILED")
    BY <2>1, <2>2, <2>3, <2>4 DEF Writes
  <2> QED
    BY <2>4, <2>5, WritesStand
<1>6. CASE BeginTarget(w) \/ CompleteTarget(w)
  <2>1. PICK i : i = worker[w].job
    OBVIOUS
  <2>2. PICK S : S = {Current(w)}
    OBVIOUS
  <2>3. PICK status \in {"RUNNING", "SUCCEEDED", "FAILED"} : SetRows(i, S, status)
    BY <1>6, <2>1, <2>2 DEF BeginTarget, CompleteTarget
  <2>4. Claimed(w) /\ UNCHANGED bjob /\ Tells(worker[w])
    BY <1>6, HoldsClaim DEF BeginTarget, CompleteTarget
  <2>5. worker[w].pc \in {"begin", "record"} /\ worker[w].todo # {}
    BY <1>6 DEF BeginTarget, CompleteTarget, At, BackupInv
  <2>6. S \subseteq Rows(i) /\ \A t \in S : outcome[<<i, t>>].status # "SUCCEEDED"
    <3>1. Current(w) \in worker[w].todo
      BY <2>5, CurrentIsLeft DEF BackupInv
    <3> QED
      BY <2>1, <2>2, <2>4, <2>5, <3>1 DEF Tells, DecidedBut
  <2>7. Writes(w, i, S, status)
    BY <2>1, <2>3, <2>4, <2>6 DEF Writes
  <2> QED
    BY <2>6, <2>7, WritesStand
<1>7. CASE Upload(w)
  <2>1. CASE UNCHANGED bjob
    BY <1>7, <2>1, SameStands DEF Upload, SameRows
  <2>2. CASE Holds(w) /\ bjob' = [bjob EXCEPT ![worker[w].job].live = FALSE]
    <3>1. JobIs(j, Ended) => j # worker[w].job
      BY <2>2 DEF Holds, JobIs, Ended
    <3>2. JobIs(j, Ended) => bjob'[j] = bjob[j]
      BY <2>2, <3>1 DEF BackupInv, BackupShape
    <3> QED
      BY <1>7, <3>2, SameStands DEF Upload, SameRows
  <2> QED
    BY <1>7, <2>1, <2>2 DEF Upload
<1>8. CASE FinishJob(w)
  <2>1. SameRows(j)
    BY <1>8 DEF FinishJob, SameRows
  <2>2. JobIs(j, Ended) => bjob'[j] = bjob[j]
    <3> DEFINE jrow == [status |-> worker[w].verdict, holder |-> None, live |-> FALSE]
    <3>1. \/ UNCHANGED bjob
          \/ bjob[worker[w].job].status = "RUNNING" /\ bjob' = [bjob EXCEPT ![worker[w].job] = jrow]
      BY <1>8 DEF FinishJob
    <3> HIDE DEF jrow
    <3> QED
      BY <3>1 DEF JobIs, Ended, BackupInv, BackupShape
  <2> QED
    BY <2>1, <2>2, SameStands
<1> QED
  BY <1>1, <1>2, <1>3, <1>4, <1>5, <1>6, <1>7, <1>8 DEF BackupWork

(* A job that ended stays as it is, with its rows, until its history goes; *)
(* and a target that received its backup is never written to again for     *)
(* that job (repository.rs, lock_active_claim).                            *)
THEOREM OutcomesKept == BackupSpec => OutcomesStand
<1>1. BackupInv /\ [BackupNext]_backupVars => [\A j \in BackupJobIds : Stands(j)]_backupVars
  <2> SUFFICES ASSUME BackupInv, BackupNext, NEW j \in BackupJobIds
               PROVE  Stands(j)
    BY DEF BackupNext
  <2>1. CASE Edit
    BY <2>1, EditSameRows, SameStands DEF Edit
  <2>2. ASSUME NEW S \in SUBSET BackupTargets, NEW i \in BackupJobIds, EnqueueManual(i, S)
        PROVE  Stands(j)
    BY <2>2, InsertStands DEF EnqueueManual, SelectedTargets
  <2>3. ASSUME NEW w \in BackupWorkers, BackupWork(w)
        PROVE  Stands(j)
    BY <2>3, WorkStands
  <2>4. ASSUME NEW w \in BackupWorkers, Crash(w)
        PROVE  Stands(j)
    BY <2>4, SameStands DEF Crash, SameRows
  <2>5. ASSUME NEW i \in BackupJobIds, LeaseEnds(i)
        PROVE  Stands(j)
    <3>1. bjob[i].status = "RUNNING" /\ bjob' = [bjob EXCEPT ![i].live = FALSE] /\ UNCHANGED outcome
      BY <2>5 DEF LeaseEnds, JobIs
    <3>2. JobIs(j, Ended) => bjob'[j] = bjob[j]
      BY <3>1 DEF JobIs, Ended, BackupInv, BackupShape
    <3> QED
      BY <3>1, <3>2, SameStands DEF SameRows
  <2> QED
    BY <2>1, <2>2, <2>3, <2>4, <2>5 DEF BackupNext, BackupRequest
<1>2. [\A j \in BackupJobIds : Stands(j)]_backupVars =>
          [\A j \in BackupJobIds :
             /\ JobIs(j, Ended) =>
                   \/ bjob'[j] = None
                   \/ /\ bjob'[j] = bjob[j]
                      /\ \A t \in Rows(j) : outcome'[<<j, t>>].status = outcome[<<j, t>>].status
             /\ \A t \in Rows(j) : outcome[<<j, t>>].status = "SUCCEEDED" =>
                   outcome'[<<j, t>>] = None \/ outcome'[<<j, t>>].status = "SUCCEEDED"]_backupVars
  BY DEF Stands
<1> QED
  BY <1>1, <1>2, BackupSafe, PTL DEF BackupSpec, OutcomesStand

-----------------------------------------------------------------------------
(* Retention of feeds.                                                     *)

\* While a pass has candidates left, its cutoff lies the grace period back.
CutoffInv == \A l \in Schedulers : pass[l] # <<>> => cutoff[l] + OrphanGrace <= now

PurgeInv == TypeOK /\ CutoffInv

-----------------------------------------------------------------------------
\* A batch of candidates is a list of feeds.
LEMMA BatchType ==
    ASSUME NEW t \in Int, NEW s \in Batches(t)
    PROVE  s \in Seq(Feeds)
<1> DEFINE C == Candidates(t)
<1> DEFINE n == IF BatchLimit < Cardinality(C) THEN BatchLimit ELSE Cardinality(C)
<1>1. C \subseteq Feeds
    BY DEF Candidates
<1>2. IsFiniteSet(C)
    BY <1>1, FS_Subset, RetentionAssumption DEF RetentionAssumption
<1>3. n \in Nat
    BY <1>2, FS_CardinalityType, RetentionAssumption DEF RetentionAssumption
<1>4. s \in [1 .. n -> C]
    BY DEF Batches
<1> HIDE DEF n, C
<1> QED
    BY <1>1, <1>3, <1>4

\* What remains of a list after its head is a list, if anything was left.
LEMMA TailType ==
    ASSUME NEW s \in Seq(Feeds), s # <<>>
    PROVE  Tail(s) \in Seq(Feeds) /\ Head(s) \in Feeds
OBVIOUS

\* The empty database satisfies the invariant.
LEMMA PurgeInit == Init => PurgeInv
<1> SUFFICES ASSUME Init PROVE PurgeInv
    OBVIOUS
<1>1. TypeOK
    BY RetentionAssumption DEF Init, TypeOK, RetentionAssumption
<1>2. CutoffInv
    BY DEF Init, CutoffInv
<1> QED
    BY <1>1, <1>2 DEF PurgeInv

\* Requests, runs and AI jobs keep it.
LEMMA UseKeeps == PurgeInv /\ Use => PurgeInv'
<1> SUFFICES ASSUME PurgeInv, NEW f \in Feeds,
                    \/ \E u \in Users : Subscribe(u, f) \/ Unsubscribe(u, f)
                    \/ QueueRun(f) \/ EndRun(f) \/ QueueContentJob(f) \/ StoreArtifact(f)
             PROVE  PurgeInv'
    BY DEF Use
<1> USE RetentionAssumption DEF RetentionAssumption, PurgeInv, TypeOK, CutoffInv
<1>1. CASE \E u \in Users : Subscribe(u, f)
    <2>1. PICK u \in Users : Subscribe(u, f)
        BY <1>1
    <2>2. TypeOK'
        BY <2>1 DEF Subscribe
    <2> QED
        BY <2>1, <2>2 DEF Subscribe
<1>2. CASE \E u \in Users : Unsubscribe(u, f)
    <2>1. PICK u \in Users : Unsubscribe(u, f)
        BY <1>2
    <2>2. \A g \in Feeds : row'[g] = "LIVE" => (orphaned'[g] # NULL <=> subs'[g] = {})
        BY <2>1 DEF Unsubscribe
    <2>3. subs' \in [Feeds -> SUBSET Users] /\ orphaned' \in [Feeds -> Nat \cup {NULL}]
        BY <2>1 DEF Unsubscribe
    <2> QED
        BY <2>1, <2>2, <2>3 DEF Unsubscribe
<1>3. CASE QueueRun(f) \/ EndRun(f)
    BY <1>3 DEF QueueRun, EndRun
<1>4. CASE QueueContentJob(f) \/ StoreArtifact(f)
    BY <1>4 DEF QueueContentJob, StoreArtifact
<1> QED
    BY <1>1, <1>2, <1>3, <1>4

\* A pass keeps it: the cutoff is set with the list, from the clock of the scan.
LEMMA PassKeeps ==
    ASSUME PurgeInv, NEW l \in Schedulers, Pass(l) \/ AbortPass(l)
    PROVE  PurgeInv'
<1> USE RetentionAssumption DEF RetentionAssumption, PurgeInv
<1>1. CASE StartPass(l)
    <2>1. now - OrphanGrace \in Int
        BY DEF TypeOK
    <2>2. PICK s \in Batches(now - OrphanGrace) : pass' = [pass EXCEPT ![l] = s]
        BY <1>1 DEF StartPass
    <2>3. s \in Seq(Feeds)
        BY <2>1, BatchType
    <2>4. TypeOK'
        BY <1>1, <2>1, <2>2, <2>3 DEF TypeOK, StartPass, feedVars
    <2>5. CutoffInv'
        BY <1>1, <2>2 DEF CutoffInv, TypeOK, StartPass
    <2> QED
        BY <2>4, <2>5
<1>2. CASE SkipCandidate(l)
    <2>1. Tail(pass[l]) \in Seq(Feeds)
        BY <1>2, TailType DEF SkipCandidate, TypeOK
    <2>2. TypeOK'
        BY <1>2, <2>1 DEF TypeOK, SkipCandidate, feedVars
    <2>3. CutoffInv'
        BY <1>2 DEF CutoffInv, TypeOK, SkipCandidate
    <2> QED
        BY <2>2, <2>3
<1>3. CASE DeleteFeed(l)
    <2>1. Tail(pass[l]) \in Seq(Feeds)
        BY <1>3, TailType DEF DeleteFeed, TypeOK
    <2>2. TypeOK'
        BY <1>3, <2>1 DEF TypeOK, DeleteFeed
    <2>3. CutoffInv'
        BY <1>3 DEF CutoffInv, TypeOK, DeleteFeed
    <2> QED
        BY <2>2, <2>3
<1>4. CASE DeleteFails(l) \/ AbortPass(l)
    <2>1. pass' = [pass EXCEPT ![l] = <<>>] /\ UNCHANGED <<now, feedVars, cutoff>>
        BY <1>4 DEF DeleteFails, AbortPass
    <2>2. <<>> \in Seq(Feeds)
        OBVIOUS
    <2>3. TypeOK'
        BY <2>1, <2>2 DEF TypeOK, feedVars
    <2>4. CutoffInv'
        BY <2>1 DEF CutoffInv, TypeOK
    <2> QED
        BY <2>3, <2>4
<1> QED
    BY <1>1, <1>2, <1>3, <1>4 DEF Pass

\* Every step keeps the invariant.
THEOREM PurgeStep == PurgeInv /\ [Next]_vars => PurgeInv'
<1> SUFFICES ASSUME PurgeInv, [Next]_vars PROVE PurgeInv'
    OBVIOUS
<1>1. CASE Use
    BY <1>1, UseKeeps
<1>2. CASE \E l \in Schedulers : Pass(l) \/ AbortPass(l)
    BY <1>2, PassKeeps
<1>3. CASE Tick
    BY <1>3, RetentionAssumption DEF RetentionAssumption, PurgeInv, TypeOK, CutoffInv, Tick, feedVars
<1>4. CASE UNCHANGED vars
    BY <1>4 DEF PurgeInv, TypeOK, CutoffInv, vars
<1> QED
    BY <1>1, <1>2, <1>3, <1>4 DEF Next

\* The columns keep their types, and a feed is an orphan exactly while nobody
\* subscribes to it.
THEOREM PurgeTypes == Spec => []TypeOK
<1>1. PurgeInv => TypeOK
    BY DEF PurgeInv
<1> QED
    BY <1>1, PurgeInit, PurgeStep, PTL DEF Spec

-----------------------------------------------------------------------------
\* One step deletes a feed only if it has been an orphan for long enough.
LEMMA DeleteStep ==
    ASSUME PurgeInv, [Next]_vars,
           NEW f \in Feeds, row[f] = "LIVE", row'[f] = "GONE"
    PROVE  subs[f] = {} /\ f \notin active /\ orphaned[f] + OrphanGrace <= now
<1>1. PICK l \in Schedulers : DeleteFeed(l)
    <2>1. ~Use
        BY DEF PurgeInv, TypeOK, Use, Subscribe, Unsubscribe, QueueRun, EndRun,
               QueueContentJob, StoreArtifact
    <2>2. ~Tick /\ ~UNCHANGED vars
        BY DEF Tick, feedVars, vars
    <2>3. PICK l \in Schedulers : Pass(l) \/ AbortPass(l)
        BY <2>1, <2>2 DEF Next
    <2> QED
        BY <2>3 DEF Pass, AbortPass, StartPass, SkipCandidate, DeleteFails, feedVars
<1>2. f = Head(pass[l])
    BY <1>1 DEF DeleteFeed, PurgeInv, TypeOK
<1>3. MayPurge(f, cutoff[l]) /\ cutoff[l] + OrphanGrace <= now
    BY <1>1, <1>2 DEF DeleteFeed, PurgeInv, CutoffInv
<1> QED
    BY <1>3, RetentionAssumption DEF MayPurge, PurgeInv, TypeOK, RetentionAssumption

\* However many processes purge from lists read at any time, a deleted feed
\* has had no subscriber for the whole grace period, and no run.
THEOREM OnlyOrphansDeleted == Spec => DeletesOnlyOrphans
<1>1. PurgeInv /\ [Next]_vars =>
        [\A f \in Feeds :
           row[f] = "LIVE" /\ row'[f] = "GONE" =>
             /\ subs[f] = {}
             /\ f \notin active
             /\ orphaned[f] + OrphanGrace <= now]_vars
    BY DeleteStep
<1> QED
    BY <1>1, PurgeInit, PurgeStep, PTL DEF Spec, DeletesOnlyOrphans
-----------------------------------------------------------------------------
(* The first setup.                                                        *)

\* What the mode of a server says of its files, its database and the request
\* it works on.
ServerSound(s) ==
    /\ mode[s] = "DOWN" => attached[s] = None /\ request[s] = None
    /\ mode[s] = "FULL" =>
          born[s] = "FULL" /\ (request[s] # None => request[s].at \in {"inspect", "rename", "sync"})
    /\ mode[s] \in {"ADMIN_ONLY", "READY"} =>
          /\ attached[s] # None
          /\ born[s] = "FULL" => durable[s] = attached[s] /\ config[s] = attached[s]
          /\ request[s] # None =>
                request[s].at \in {"username", "claim", "ready"} /\ request[s].db = attached[s]
    /\ mode[s] = "READY" => claim[attached[s]] # None /\ request[s] = None
    /\ request[s] # None =>
          /\ request[s].at = "sync" => config[s] = request[s].db
          /\ request[s].at = "ready" => claim[request[s].db] # None

SetupInv == SetupTypeOK /\ \A s \in Servers : ServerSound(s)

\* A database keeps its administrator, and a server is not touched by a step
\* of another one.
Claims == \A d \in Databases : claim[d] # None => claim'[d] = claim[d]
Untouched(s) ==
    /\ mode'[s] = mode[s] /\ born'[s] = born[s] /\ config'[s] = config[s]
    /\ durable'[s] = durable[s] /\ attached'[s] = attached[s] /\ request'[s] = request[s]

\* A server that a step leaves alone stays sound.
LEMMA UntouchedSound ==
    ASSUME SetupInv, SetupTypeOK', Claims, NEW s \in Servers, Untouched(s)
    PROVE  ServerSound(s)'
<1>1. ServerSound(s) /\ attached[s] \in Databases \cup {None} /\ request[s] \in SetupRequest \cup {None}
  BY DEF SetupInv, SetupTypeOK
<1>2. request[s] # None => request[s].db \in Databases
  BY <1>1 DEF SetupRequest
<1> QED
  BY <1>1, <1>2 DEF Claims, Untouched, ServerSound

\* No server has started.
LEMMA SetupStart == SetupInit => SetupInv
<1> SUFFICES ASSUME SetupInit
             PROVE  SetupInv
  OBVIOUS
<1>1. SetupTypeOK
  BY SetupAssumption DEF SetupInit, SetupTypeOK
<1>2. \A s \in Servers : ServerSound(s)
  BY DEF SetupInit, ServerSound
<1> QED
  BY <1>1, <1>2 DEF SetupInv

\* The fields of a request that goes on.
LEMMA RequestGoesOn ==
    ASSUME SetupInv, NEW s \in Servers, request[s] # None,
           NEW at \in {"inspect", "rename", "sync", "username", "claim", "ready"}, Proceed(s, at)
    PROVE  /\ request' \in [Servers -> SetupRequest \cup {None}]
           /\ request'[s] # None /\ request'[s].at = at /\ request'[s].db = request[s].db
           /\ request'[s].db \in Databases
           /\ \A t \in Servers \ {s} : request'[t] = request[t]
<1>1. request \in [Servers -> SetupRequest \cup {None}]
  BY DEF SetupInv, SetupTypeOK
<1>2. request[s] \in SetupRequest
  BY <1>1
<1>3. PICK x : x = [request[s] EXCEPT !.at = at]
  OBVIOUS
<1>4. x \in SetupRequest /\ x.at = at /\ x.db = request[s].db /\ x.db \in Databases
  BY <1>2, <1>3 DEF SetupRequest
<1>5. request' = [request EXCEPT ![s] = x]
  BY <1>3 DEF Proceed
<1> QED
  BY <1>1, <1>4, <1>5, SetupRowAssumption

\* A request begins, or ends.
LEMMA RequestBegins ==
    ASSUME SetupInv, NEW s \in Servers, NEW at \in {"inspect", "username"},
           NEW d \in Databases, NEW n \in Usernames,
           request' = [request EXCEPT ![s] = [at |-> at, db |-> d, name |-> n]]
    PROVE  /\ request' \in [Servers -> SetupRequest \cup {None}]
           /\ request'[s] # None /\ request'[s].at = at /\ request'[s].db = d
           /\ \A t \in Servers \ {s} : request'[t] = request[t]
<1>1. request \in [Servers -> SetupRequest \cup {None}]
  BY DEF SetupInv, SetupTypeOK
<1>2. PICK x : x = [at |-> at, db |-> d, name |-> n]
  OBVIOUS
<1>3. x \in SetupRequest /\ x.at = at /\ x.db = d
  BY <1>2 DEF SetupRequest
<1>4. request' = [request EXCEPT ![s] = x]
  BY <1>2
<1> QED
  BY <1>1, <1>3, <1>4, SetupRowAssumption

\* A step of one server that keeps the types, the claims and its own state
\* sound keeps the others sound.
LEMMA ServerAlone ==
    ASSUME SetupInv, SetupTypeOK', Claims, NEW s \in Servers, ServerSound(s)',
           \A t \in Servers \ {s} : Untouched(t)
    PROVE  SetupInv'
<1>1. \A t \in Servers \ {s} : ServerSound(t)'
  BY UntouchedSound
<1> QED
  BY <1>1 DEF SetupInv

\* A request is accepted and looked at.
LEMMA RequestsKeep ==
    ASSUME SetupInv, NEW s \in Servers,
           \/ \E d \in Databases, n \in Usernames : Complete(s, d, n)
           \/ \E n \in Usernames : CompleteAdmin(s, n)
           \/ Inspect(s)
    PROVE  SetupInv'
<1>1. CASE \E d \in Databases, n \in Usernames : Complete(s, d, n)
  <2>1. PICK d \in Databases, n \in Usernames : Complete(s, d, n)
    BY <1>1
  <2>2. /\ request' \in [Servers -> SetupRequest \cup {None}]
        /\ request'[s] # None /\ request'[s].at = "inspect" /\ request'[s].db = d
        /\ \A t \in Servers \ {s} : request'[t] = request[t]
    BY <2>1, RequestBegins DEF Complete
  <2>3. UNCHANGED <<mode, born, config, durable, attached, claim, taken, mishaps>> /\ mode[s] = "FULL"
    BY <2>1 DEF Complete
  <2>4. SetupTypeOK'
    BY <2>2, <2>3 DEF SetupInv, SetupTypeOK
  <2>5. ServerSound(s)'
    BY <2>2, <2>3 DEF SetupInv, ServerSound
  <2> QED
    BY <2>2, <2>3, <2>4, <2>5, ServerAlone DEF Claims, Untouched
<1>2. CASE \E n \in Usernames : CompleteAdmin(s, n)
  <2>1. PICK n \in Usernames : CompleteAdmin(s, n)
    BY <1>2
  <2>2. attached[s] \in Databases
    BY <2>1 DEF CompleteAdmin, SetupInv, SetupTypeOK, ServerSound
  <2>3. /\ request' \in [Servers -> SetupRequest \cup {None}]
        /\ request'[s] # None /\ request'[s].at = "username" /\ request'[s].db = attached[s]
        /\ \A t \in Servers \ {s} : request'[t] = request[t]
    BY <2>1, <2>2, RequestBegins DEF CompleteAdmin
  <2>4. UNCHANGED <<mode, born, config, durable, attached, claim, taken>> /\ mode[s] = "ADMIN_ONLY"
    BY <2>1 DEF CompleteAdmin
  <2>5. mishaps' \in 0..MaxMishaps
    BY <2>1, SetupAssumption DEF CompleteAdmin, Mishap, SetupInv, SetupTypeOK
  <2>6. SetupTypeOK'
    BY <2>3, <2>4, <2>5 DEF SetupInv, SetupTypeOK
  <2>7. ServerSound(s)'
    BY <2>3, <2>4 DEF SetupInv, ServerSound
  <2> QED
    BY <2>3, <2>4, <2>6, <2>7, ServerAlone DEF Claims, Untouched
<1>3. CASE Inspect(s)
  <2>1. request[s] # None /\ request[s].at = "inspect" /\ (Proceed(s, "rename") \/ Answer(s))
    BY <1>3 DEF Inspect, SetupStep
  <2>2. /\ request' \in [Servers -> SetupRequest \cup {None}]
        /\ request'[s] # None => request'[s].at = "rename"
        /\ \A t \in Servers \ {s} : request'[t] = request[t]
    <3>1. CASE Proceed(s, "rename")
      BY <2>1, <3>1, RequestGoesOn
    <3>2. CASE Answer(s)
      BY <3>2 DEF Answer, SetupInv, SetupTypeOK
    <3> QED
      BY <2>1, <3>1, <3>2
  <2>3. UNCHANGED <<mode, born, config, durable, attached, claim, taken, mishaps>>
    BY <1>3 DEF Inspect
  <2>4. SetupTypeOK'
    BY <2>2, <2>3 DEF SetupInv, SetupTypeOK
  <2>5. mode[s] = "FULL"
    BY <2>1 DEF SetupInv, SetupTypeOK, ServerSound
  <2>6. ServerSound(s)'
    BY <2>2, <2>3, <2>5 DEF SetupInv, ServerSound
  <2> QED
    BY <2>2, <2>3, <2>4, <2>6, ServerAlone DEF Claims, Untouched
<1> QED
  BY <1>1, <1>2, <1>3

\* The file is renamed, its directory synchronized, and the database attached.
LEMMA AttachKeeps ==
    ASSUME SetupInv, NEW s \in Servers, Rename(s) \/ Attach(s)
    PROVE  SetupInv'
<1>1. request[s] # None /\ request[s] \in SetupRequest /\ request[s].at \in {"rename", "sync"}
  BY DEF Rename, Attach, SetupStep, SetupInv, SetupTypeOK
<1>2. request[s].db \in Databases /\ request[s].db # None
  BY <1>1, SetupAssumption DEF SetupRequest
<1>3. mode[s] = "FULL" /\ born[s] = "FULL"
  BY <1>1 DEF SetupInv, SetupTypeOK, ServerSound
<1>4. CASE Rename(s)
  <2>1. /\ request' \in [Servers -> SetupRequest \cup {None}]
        /\ request'[s] # None /\ request'[s].at = "sync" /\ request'[s].db = request[s].db
        /\ \A t \in Servers \ {s} : request'[t] = request[t]
    BY <1>1, <1>4, RequestGoesOn DEF Rename
  <2>2. SetupTypeOK'
    BY <1>2, <1>4, <2>1 DEF Rename, SetupInv, SetupTypeOK
  <2>3. config'[s] = request[s].db /\ mode'[s] = "FULL" /\ born'[s] = "FULL"
    BY <1>3, <1>4 DEF Rename, SetupInv, SetupTypeOK
  <2>4. ServerSound(s)'
    BY <2>1, <2>3 DEF ServerSound
  <2>5. Claims /\ \A t \in Servers \ {s} : Untouched(t)
    BY <1>4, <2>1 DEF Rename, Claims, Untouched, SetupInv, SetupTypeOK
  <2> QED
    BY <2>2, <2>4, <2>5, ServerAlone
<1>5. CASE Attach(s)
  <2>1. /\ request' \in [Servers -> SetupRequest \cup {None}]
        /\ request'[s] # None /\ request'[s].at = "username" /\ request'[s].db = request[s].db
        /\ \A t \in Servers \ {s} : request'[t] = request[t]
    BY <1>1, <1>5, RequestGoesOn DEF Attach
  <2>2. SetupTypeOK'
    BY <1>2, <1>5, <2>1 DEF Attach, SetupInv, SetupTypeOK
  <2>3. config[s] = request[s].db
    BY <1>5 DEF Attach, SetupStep, SetupInv, ServerSound
  <2>4. /\ config'[s] = request[s].db /\ mode'[s] = "ADMIN_ONLY" /\ attached'[s] = request[s].db
        /\ durable'[s] = request[s].db
    BY <1>5, <2>3 DEF Attach, SetupInv, SetupTypeOK
  <2>5. ServerSound(s)'
    BY <1>2, <2>1, <2>4 DEF ServerSound
  <2>6. Claims /\ \A t \in Servers \ {s} : Untouched(t)
    BY <1>5, <2>1 DEF Attach, Claims, Untouched, SetupInv, SetupTypeOK
  <2> QED
    BY <2>2, <2>5, <2>6, ServerAlone
<1> QED
  BY <1>4, <1>5

\* The administrator is created, and the server is ready.
LEMMA AdministratorKeeps ==
    ASSUME SetupInv, NEW s \in Servers, UsernameFree(s) \/ ClaimAdministrator(s) \/ BecomeReady(s)
    PROVE  SetupInv'
<1>1. /\ request[s] # None /\ request[s] \in SetupRequest
      /\ request[s].at \in {"username", "claim", "ready"}
  BY DEF UsernameFree, ClaimAdministrator, BecomeReady, SetupStep, SetupInv, SetupTypeOK
<1>2. request[s].db \in Databases /\ request[s].name \in Usernames /\ request[s].name # None
  BY <1>1, SetupAssumption DEF SetupRequest
<1>3. mode[s] = "ADMIN_ONLY" /\ attached[s] = request[s].db
  BY <1>1 DEF SetupInv, SetupTypeOK, ServerSound
<1>4. CASE UsernameFree(s)
  <2>1. Proceed(s, "claim") \/ Answer(s)
    BY <1>4 DEF UsernameFree
  <2>2. /\ request' \in [Servers -> SetupRequest \cup {None}]
        /\ request'[s] # None => request'[s].at = "claim" /\ request'[s].db = request[s].db
        /\ \A t \in Servers \ {s} : request'[t] = request[t]
    <3>1. CASE Proceed(s, "claim")
      BY <1>1, <3>1, RequestGoesOn
    <3>2. CASE Answer(s)
      BY <3>2 DEF Answer, SetupInv, SetupTypeOK
    <3> QED
      BY <2>1, <3>1, <3>2
  <2>3. UNCHANGED <<mode, born, config, durable, attached, claim, mishaps>>
    BY <1>4 DEF UsernameFree
  <2>4. taken' \in [Servers -> Usernames \cup {None}]
    BY <1>2, <1>4 DEF UsernameFree, SetupInv, SetupTypeOK
  <2>5. SetupTypeOK'
    BY <2>2, <2>3, <2>4 DEF SetupInv, SetupTypeOK
  <2>6. ServerSound(s)'
    BY <1>3, <2>2, <2>3 DEF SetupInv, ServerSound
  <2> QED
    BY <2>2, <2>3, <2>5, <2>6, ServerAlone DEF Claims, Untouched
<1>5. CASE ClaimAdministrator(s)
  <2>1. /\ request' \in [Servers -> SetupRequest \cup {None}]
        /\ request'[s] # None /\ request'[s].at = "ready" /\ request'[s].db = request[s].db
        /\ \A t \in Servers \ {s} : request'[t] = request[t]
    BY <1>1, <1>5, RequestGoesOn DEF ClaimAdministrator
  <2>2. UNCHANGED <<mode, born, config, durable, attached, taken, mishaps>>
    BY <1>5 DEF ClaimAdministrator
  <2>3. /\ claim' \in [Databases -> Usernames \cup {None}] /\ claim'[request[s].db] # None
        /\ Claims
    BY <1>2, <1>5 DEF ClaimAdministrator, Claims, SetupInv, SetupTypeOK
  <2>4. SetupTypeOK'
    BY <2>1, <2>2, <2>3 DEF SetupInv, SetupTypeOK
  <2>5. ServerSound(s)'
    BY <1>3, <2>1, <2>2, <2>3 DEF SetupInv, ServerSound
  <2> QED
    BY <2>1, <2>2, <2>3, <2>4, <2>5, ServerAlone DEF Untouched
<1>6. CASE BecomeReady(s)
  <2>1. claim[attached[s]] # None
    BY <1>1, <1>3, <1>6 DEF BecomeReady, SetupStep, SetupInv, ServerSound
  <2>2. UNCHANGED <<born, config, durable, attached, claim, taken, mishaps>>
    BY <1>6 DEF BecomeReady
  <2>3. /\ SetupTypeOK' /\ mode'[s] = "READY" /\ request'[s] = None
        /\ \A t \in Servers \ {s} : request'[t] = request[t] /\ mode'[t] = mode[t]
    BY <1>6 DEF BecomeReady, Answer, SetupInv, SetupTypeOK
  <2>4. ServerSound(s)'
    BY <1>3, <2>1, <2>2, <2>3 DEF SetupInv, ServerSound
  <2> QED
    BY <2>2, <2>3, <2>4, ServerAlone DEF Claims, Untouched
<1> QED
  BY <1>4, <1>5, <1>6

\* A failure or a lost client ends a request; a crash or a loss of power ends
\* the server, which finds its file, or none, when it starts again.
LEMMA MishapsKeep ==
    ASSUME SetupInv, NEW s \in Servers,
           ReplaceFails(s) \/ RequestLost(s) \/ ServerCrash(s) \/ PowerLoss(s) \/ Start(s)
    PROVE  SetupInv'
<1>1. CASE ReplaceFails(s) \/ RequestLost(s)
  <2>1. Answer(s) /\ Mishap /\ UNCHANGED <<mode, born, config, durable, attached, claim, taken>>
    BY <1>1 DEF ReplaceFails, RequestLost
  <2>2. /\ SetupTypeOK' /\ request'[s] = None
        /\ \A t \in Servers \ {s} : request'[t] = request[t]
    BY <2>1, SetupAssumption DEF Answer, Mishap, SetupInv, SetupTypeOK
  <2>3. ServerSound(s)'
    BY <2>1, <2>2 DEF SetupInv, ServerSound
  <2> QED
    BY <2>1, <2>2, <2>3, ServerAlone DEF Claims, Untouched
<1>2. CASE ServerCrash(s) \/ PowerLoss(s)
  <2>1. Stopped(s) /\ Mishap
    BY <1>2 DEF ServerCrash, PowerLoss
  <2>2. /\ config' \in [Servers -> Databases \cup {None}] /\ durable' \in [Servers -> Databases \cup {None}]
        /\ \A t \in Servers \ {s} : config'[t] = config[t] /\ durable'[t] = durable[t]
    BY <1>2 DEF ServerCrash, PowerLoss, SetupInv, SetupTypeOK
  <2>3. /\ mode' = [mode EXCEPT ![s] = "DOWN"] /\ attached' = [attached EXCEPT ![s] = None]
        /\ request' = [request EXCEPT ![s] = None] /\ UNCHANGED <<born, claim, taken>>
    BY <2>1 DEF Stopped, Answer
  <2>5. mishaps' \in 0..MaxMishaps
    BY <2>1, SetupAssumption DEF Mishap, SetupInv, SetupTypeOK
  <2>6. SetupTypeOK'
    BY <2>2, <2>3, <2>5 DEF SetupInv, SetupTypeOK
  <2>7. mode'[s] = "DOWN" /\ attached'[s] = None /\ request'[s] = None
    BY <2>3 DEF SetupInv, SetupTypeOK
  <2>8. Claims /\ \A t \in Servers \ {s} : Untouched(t)
    BY <2>2, <2>3 DEF Claims, Untouched, SetupInv, SetupTypeOK
  <2>4. ServerSound(s)'
    BY <2>7 DEF ServerSound
  <2> QED
    BY <2>4, <2>6, <2>8, ServerAlone
<1>3. CASE Start(s)
  <2>1. request[s] = None /\ config[s] \in Databases \cup {None}
    BY <1>3 DEF Start, SetupInv, SetupTypeOK, ServerSound
  <2>2. StartMode(s) \in {"FULL", "ADMIN_ONLY", "READY"}
    BY DEF StartMode
  <2>3. /\ SetupTypeOK' /\ Claims /\ mode'[s] = StartMode(s) /\ born'[s] = StartMode(s)
        /\ attached'[s] = config[s] /\ request'[s] = None
        /\ \A t \in Servers \ {s} : Untouched(t)
    BY <1>3, <2>1, <2>2 DEF Start, Claims, Untouched, SetupInv, SetupTypeOK
  <2>4. ServerSound(s)'
    BY <1>3, <2>1, <2>3 DEF Start, StartMode, ServerSound
  <2> QED
    BY <2>3, <2>4, ServerAlone
<1> QED
  BY <1>1, <1>2, <1>3

\* Every step of a server, of its clients or of its bad luck keeps it.
LEMMA SetupNextKeeps == SetupInv /\ [SetupNext]_setupVars => SetupInv'
<1>1. SetupInv /\ UNCHANGED setupVars => SetupInv'
  BY DEF setupVars, SetupInv, SetupTypeOK, ServerSound
<1> QED
  BY <1>1, RequestsKeep, AttachKeeps, AdministratorKeeps, MishapsKeep DEF SetupNext, SetupWork

(* A server that was set up without a configuration is not ready, and      *)
(* creates no administrator, before config.toml names its database for     *)
(* good, wherever a request, the server or the power is lost               *)
(* (setup/service.rs, complete).                                           *)
LEMMA SoundIsDurable == SetupInv => ReadyIsDurable
<1> SUFFICES ASSUME SetupInv, NEW s \in Servers
             PROVE  /\ born[s] = "FULL" /\ (mode[s] \in {"ADMIN_ONLY", "READY"}
                                             \/ SetupStep(s, "claim") \/ SetupStep(s, "ready")) =>
                          attached[s] # None /\ durable[s] = attached[s] /\ config[s] = attached[s]
                    /\ mode[s] = "READY" => attached[s] # None /\ claim[attached[s]] # None
  BY DEF ReadyIsDurable
<1>1. SetupStep(s, "claim") \/ SetupStep(s, "ready") => mode[s] = "ADMIN_ONLY"
  BY DEF SetupStep, SetupInv, SetupTypeOK, ServerSound
<1> QED
  BY <1>1 DEF SetupInv, ServerSound

-----------------------------------------------------------------------------
(* The end of the process.                                                 *)

Failure == \E r \in Runtimes : task[r] = "failed"

\* What a watcher has left to ask: from the start, or after the background
\* runtime was told that its end is expected.
WholeAsks ==
    {<<>>, <<"backup">>, <<"background", "feed", "events", "content">>,
     <<"background", "feed", "events", "content", "backup">>}
StartedAsks ==
    {<<"feed", "events", "content">>, <<"feed", "events", "content", "backup">>,
     <<"events", "content">>, <<"events", "content", "backup">>,
     <<"content">>, <<"content", "backup">>}

WatcherState ==
    [pc : {"watching", "joining"} \cup Over,
     first : {"none", "background", "group", "server", "signal"} \cup Runtimes,
     expected : BOOLEAN, ask : WholeAsks \cup StartedAsks]

SupervisionShape ==
    /\ stop \in [Flags -> BOOLEAN]
    /\ task \in [Runtimes -> {"starting", "running", "stopping"} \cup Over]
    /\ lane \subseteq Laned \X Lanes
    /\ watcher \in [Watchers -> WatcherState]
    /\ server \in {"serving", "draining"} \cup Over
    /\ stream \in BOOLEAN /\ signalled \in BOOLEAN /\ panics \in 0..MaxPanics

\* The background runtime knows that its end is expected before a runtime is
\* asked to stop, and a runtime that stops well was asked to.
StopsInOrder ==
    /\ \A s \in Watchers : /\ watcher[s].ask \in StartedAsks => stop["background"]
                           /\ watcher[s].ask # <<>> => watcher[s].pc # "watching"
    /\ stop["feed"] \/ stop["content"] => stop["background"]
    /\ \A r \in Runtimes : task[r] \in {"stopping", "ok"} => stop[r]

\* What each watcher reports, or is about to.
BackgroundTells ==
    /\ watcher["background"].pc # "watching" /\ ~watcher["background"].expected =>
          \E r \in Laned : task[r] = "failed"
    /\ watcher["background"].pc = "ok" => \A r \in Laned : task[r] = "ok"
    /\ watcher["background"].pc = "failed" => \E r \in Laned : task[r] = "failed"

GroupTells ==
    /\ watcher["group"].pc = "ok" => watcher["background"].pc = "ok" /\ task["backup"] = "ok"
    /\ watcher["group"].pc = "failed" =>
          watcher["background"].pc = "failed" \/ task["backup"] = "failed"

MainTells ==
    /\ watcher["main"].pc = "ok" => server = "ok" /\ watcher["group"].pc = "ok"
    /\ watcher["main"].pc = "failed" => Failure \/ server = "failed"
    /\ watcher["main"].pc # "watching" /\ watcher["main"].first = "group" => Failure

\* Before main asks anyone to stop, only a failure makes others do so.
OnlyFailuresStop ==
    /\ watcher["main"].pc = "watching"
    /\ \/ \E f \in Flags : stop[f]
       \/ watcher["group"].pc # "watching"
       \/ watcher["background"].pc # "watching"
    => Failure

SupervisionInv ==
    SupervisionShape /\ StopsInOrder /\ BackgroundTells /\ GroupTells /\ MainTells /\ OnlyFailuresStop

\* Everything runs and nobody was asked to stop.
LEMMA SupervisionStart == SupervisionInit => SupervisionInv
<1> SUFFICES ASSUME SupervisionInit
             PROVE  SupervisionInv
  OBVIOUS
<1>1. Watching \in WatcherState /\ Watching.pc = "watching" /\ Watching.ask = <<>>
  BY DEF Watching, WatcherState, WholeAsks
<1>2. \A s \in Watchers : watcher[s] \in WatcherState /\ watcher[s].pc = "watching" /\ watcher[s].ask = <<>>
  BY <1>1 DEF SupervisionInit
<1>3. SupervisionShape
  <2>1. stop \in [Flags -> BOOLEAN] /\ watcher \in [Watchers -> WatcherState]
    BY <1>1 DEF SupervisionInit
  <2>2. task \in [Runtimes -> {"starting", "running", "stopping"} \cup Over]
    BY DEF SupervisionInit
  <2>3. server \in {"serving", "draining"} \cup Over /\ stream \in BOOLEAN /\ signalled \in BOOLEAN
    BY DEF SupervisionInit
  <2>4. lane \subseteq Laned \X Lanes /\ panics \in 0..MaxPanics
    BY SupervisionAssumption DEF SupervisionInit
  <2> QED
    BY <2>1, <2>2, <2>3, <2>4 DEF SupervisionShape
<1>4. <<>> \notin StartedAsks
  BY DEF StartedAsks
<1>5. StopsInOrder
  BY <1>2, <1>4 DEF SupervisionInit, StopsInOrder, Flags, Runtimes, Laned
<1>6. \A f \in Flags : ~stop[f]
  BY DEF SupervisionInit
<1>7. BackgroundTells /\ GroupTells /\ MainTells /\ OnlyFailuresStop
  BY <1>2, <1>6 DEF BackgroundTells, GroupTells, MainTells, OnlyFailuresStop, Watchers
<1> QED
  BY <1>3, <1>5, <1>7 DEF SupervisionInv

\* What ended stays as it ended, and what ends well was asked to.
EndsWell ==
    /\ task' \in [Runtimes -> {"starting", "running", "stopping"} \cup Over]
    /\ \A r \in Runtimes : /\ task[r] \in Over => task'[r] = task[r]
                           /\ task'[r] \in {"stopping", "ok"} => stop[r]

\* Every step of a runtime is of this kind.
LEMMA RuntimeEndsWell ==
    ASSUME SupervisionInv, NEW r \in Runtimes, RuntimeStep(r)
    PROVE  /\ EndsWell /\ lane' \subseteq Laned \X Lanes /\ panics' \in 0..MaxPanics
           /\ UNCHANGED <<stop, watcher, server, stream, signalled>>
<1> USE DEF SupervisionInv, SupervisionShape, StopsInOrder
<1>1. Fail => panics' \in 0..MaxPanics
  BY SupervisionAssumption DEF Fail
<1>2. CASE r \in Laned /\ StartLanes(r)
  BY <1>1, <1>2 DEF StartLanes, EndsWell, Over
<1>3. CASE r \in Laned /\ EndLoop(r)
  <2>1. PICK x : /\ (x \in {"stopping", "ok"} /\ stop[r]) \/ x = "failed"
                 /\ task' = [task EXCEPT ![r] = x]
    BY <1>3 DEF EndLoop
  <2>2. EndsWell
    BY <1>3, <2>1 DEF EndLoop, EndsWell, Over
  <2> QED
    BY <1>3, <2>2 DEF EndLoop
<1>4. CASE r \in Laned /\ Drained(r)
  BY <1>1, <1>4 DEF Drained, EndsWell, Over
<1>5. CASE \E l \in Lanes : r \in Laned /\ LaneEnds(r, l)
  BY <1>1, <1>5 DEF LaneEnds, EndsWell
<1>6. CASE r = "backup" /\ BackupEnds
  BY <1>1, <1>6 DEF BackupEnds, EndsWell, Over
<1> QED
  BY <1>2, <1>3, <1>4, <1>5, <1>6 DEF RuntimeStep

\* A step of a runtime keeps what the watchers tell.
LEMMA RuntimesKeep ==
    ASSUME SupervisionInv, NEW r \in Runtimes, RuntimeStep(r)
    PROVE  SupervisionInv'
<1>1. /\ EndsWell /\ lane' \subseteq Laned \X Lanes /\ panics' \in 0..MaxPanics
      /\ UNCHANGED <<stop, watcher, server, stream, signalled>>
  BY RuntimeEndsWell
<1>2. SupervisionShape'
  BY <1>1 DEF SupervisionInv, SupervisionShape, EndsWell
<1>3. StopsInOrder'
  BY <1>1 DEF SupervisionInv, StopsInOrder, EndsWell
<1>4. \A x \in Runtimes : task[x] \in {"ok", "failed"} => task'[x] = task[x]
  BY <1>1 DEF EndsWell, Over
<1>5. Failure => Failure'
  BY <1>4 DEF Failure
<1>6. BackgroundTells' /\ GroupTells'
  BY <1>1, <1>4 DEF SupervisionInv, BackgroundTells, GroupTells, Runtimes, Laned
<1>7. MainTells' /\ OnlyFailuresStop'
  BY <1>1, <1>5 DEF SupervisionInv, MainTells, OnlyFailuresStop
<1> QED
  BY <1>2, <1>3, <1>6, <1>7 DEF SupervisionInv

\* The first child of a watcher ends.
LEMMA FirstChanges ==
    ASSUME SupervisionInv, NEW s \in Watchers,
           NEW x \in {"background", "group", "server", "signal"} \cup Runtimes,
           NEW expected \in BOOLEAN, NEW ask \in WholeAsks, First(s, x, expected, ask)
    PROVE  /\ SupervisionShape'
           /\ watcher'[s].pc = "joining" /\ watcher'[s].first = x
           /\ watcher'[s].expected = expected /\ watcher'[s].ask = ask
           /\ \A z \in Watchers \ {s} : watcher'[z] = watcher[z]
           /\ UNCHANGED <<stop, task, server>>
<1>1. PICK w : w = [pc |-> "joining", first |-> x, expected |-> expected, ask |-> ask]
  OBVIOUS
<1>2. w \in WatcherState /\ w.pc = "joining" /\ w.first = x /\ w.expected = expected /\ w.ask = ask
  BY <1>1 DEF WatcherState
<1>3. watcher' = [watcher EXCEPT ![s] = w] /\ UNCHANGED <<stop, task, lane, server, stream, signalled, panics>>
  BY <1>1 DEF First
<1> QED
  BY <1>2, <1>3 DEF SupervisionInv, SupervisionShape

\* Whole asks have not started.
LEMMA WholeNotStarted == \A ask \in WholeAsks : ask \notin StartedAsks
BY DEF WholeAsks, StartedAsks

\* The stop of the background is a whole ask, with and without the backups.
LEMMA AsksAreWhole ==
    /\ StopBackground \in WholeAsks /\ Append(StopBackground, "backup") \in WholeAsks
    /\ <<>> \in WholeAsks /\ <<"backup">> \in WholeAsks
<1>1. PICK s : s = Append(StopBackground, "backup")
  OBVIOUS
<1>2. Len(s) = 5 /\ s \in Seq(Flags)
  BY <1>1 DEF StopBackground, Flags, Runtimes, Laned
<1>3. /\ s[1] = "background" /\ s[2] = "feed" /\ s[3] = "events" /\ s[4] = "content" /\ s[5] = "backup"
  BY <1>1 DEF StopBackground
<1>4. s = <<"background", "feed", "events", "content", "backup">>
  BY <1>2, <1>3
<1> QED
  BY <1>1, <1>4 DEF StopBackground, WholeAsks

\* A watcher that starts joining keeps the order of the stops.
LEMMA FirstInOrder ==
    ASSUME SupervisionInv, NEW s \in Watchers, NEW ask \in WholeAsks,
           watcher'[s].pc = "joining", watcher'[s].ask = ask,
           \A z \in Watchers \ {s} : watcher'[z] = watcher[z], UNCHANGED <<stop, task>>
    PROVE  StopsInOrder'
BY WholeNotStarted DEF SupervisionInv, StopsInOrder

\* The feed or the content runtime ends first.
LEMMA BackgroundFirstKeeps == SupervisionInv /\ BackgroundFirst => SupervisionInv'
<1> SUFFICES ASSUME SupervisionInv, NEW r \in Laned,
                    watcher["background"].pc = "watching", task[r] \in Over,
                    First("background", r, stop["background"],
                          IF stop["background"] THEN <<>> ELSE StopBackground)
             PROVE  SupervisionInv'
  BY DEF BackgroundFirst, WatcherIs, Done, State, Laned, Watchers
<1>1. PICK ask \in WholeAsks : ask = (IF stop["background"] THEN <<>> ELSE StopBackground)
  BY AsksAreWhole
<1>2. stop["background"] \in BOOLEAN
  BY DEF SupervisionInv, SupervisionShape, Flags
<1>10. First("background", r, stop["background"], ask) /\ "background" \in Watchers /\ r \in Runtimes
  BY <1>1 DEF Watchers, Runtimes
<1>3. /\ SupervisionShape'
      /\ watcher'["background"].pc = "joining" /\ watcher'["background"].first = r
      /\ watcher'["background"].expected = stop["background"] /\ watcher'["background"].ask = ask
      /\ \A z \in Watchers \ {"background"} : watcher'[z] = watcher[z]
      /\ UNCHANGED <<stop, task, server>>
  BY <1>2, <1>10, FirstChanges
<1>4. StopsInOrder'
  BY <1>3, FirstInOrder DEF Watchers
<1>5. task[r] = "ok" => stop[r] /\ stop["background"]
  BY DEF SupervisionInv, StopsInOrder, Runtimes, Laned
<1>6. task[r] = "ok" \/ task[r] = "failed"
  BY DEF Over
<1>7. BackgroundTells'
  BY <1>3, <1>5, <1>6 DEF BackgroundTells
<1>8. GroupTells' /\ MainTells'
  BY <1>3 DEF SupervisionInv, GroupTells, MainTells, Watchers, Failure
<1>9. OnlyFailuresStop'
  <2>1. CASE task[r] = "failed"
    BY <1>3, <2>1 DEF OnlyFailuresStop, Failure, Runtimes
  <2>2. CASE task[r] = "ok"
    <3>1. \E f \in Flags : stop[f]
      BY <1>5, <2>2 DEF Flags
    <3> QED
      BY <1>3, <3>1 DEF SupervisionInv, OnlyFailuresStop, Failure, Watchers
  <2> QED
    BY <1>6, <2>1, <2>2
<1> QED
  BY <1>3, <1>4, <1>7, <1>8, <1>9 DEF SupervisionInv

\* The background runtimes or the backups end first.
LEMMA GroupFirstKeeps == SupervisionInv /\ GroupFirst => SupervisionInv'
<1> SUFFICES ASSUME SupervisionInv, NEW x \in {"background", "backup"},
                    watcher["group"].pc = "watching", State(x) \in Over,
                    First("group", x, TRUE, IF x = "background" THEN <<"backup">> ELSE StopBackground)
             PROVE  SupervisionInv'
  BY DEF GroupFirst, WatcherIs, Done
<1>1. PICK ask \in WholeAsks : ask = (IF x = "background" THEN <<"backup">> ELSE StopBackground)
  BY AsksAreWhole
<1>2. /\ SupervisionShape'
      /\ watcher'["group"].pc = "joining"
      /\ watcher'["group"].ask = ask
      /\ \A z \in Watchers \ {"group"} : watcher'[z] = watcher[z]
      /\ UNCHANGED <<stop, task, server>>
  BY <1>1, FirstChanges DEF Watchers, Runtimes
<1>3. StopsInOrder'
  BY <1>2, FirstInOrder DEF Watchers
<1>4. BackgroundTells' /\ GroupTells' /\ MainTells'
  BY <1>2 DEF SupervisionInv, BackgroundTells, GroupTells, MainTells, Watchers, Failure
<1>5. OnlyFailuresStop'
  <2>1. CASE watcher["main"].pc # "watching"
    BY <1>2, <2>1 DEF OnlyFailuresStop, Watchers
  <2>2. CASE watcher["main"].pc = "watching"
    <3>1. Failure
      <4>1. CASE x = "background"
        BY <2>2, <4>1 DEF SupervisionInv, OnlyFailuresStop, State, Watchers, Over
      <4>2. CASE x = "backup" /\ task["backup"] = "ok"
        <5>1. stop["backup"] /\ "backup" \in Flags
          BY <4>2 DEF SupervisionInv, StopsInOrder, Runtimes, Flags
        <5> QED
          BY <2>2, <5>1 DEF SupervisionInv, OnlyFailuresStop
      <4>3. CASE x = "backup" /\ task["backup"] = "failed"
        BY <4>3 DEF Failure, Runtimes
      <4> QED
        BY <4>1, <4>2, <4>3 DEF State, Watchers, Over
    <3> QED
      BY <1>2, <3>1 DEF OnlyFailuresStop, Failure
  <2> QED
    BY <2>1, <2>2
<1> QED
  BY <1>2, <1>3, <1>4, <1>5 DEF SupervisionInv

\* The runtimes, the server or a signal come first.
LEMMA MainFirstKeeps == SupervisionInv /\ MainFirst => SupervisionInv'
<1> SUFFICES ASSUME SupervisionInv, NEW x \in {"group", "server", "signal"},
                    watcher["main"].pc = "watching",
                    x = "group" => watcher["group"].pc \in Over,
                    First("main", x, TRUE, Append(StopBackground, "backup"))
             PROVE  SupervisionInv'
  BY DEF MainFirst, WatcherIs, Done, State, Watchers
<1>1. /\ SupervisionShape'
      /\ watcher'["main"].pc = "joining" /\ watcher'["main"].first = x
      /\ watcher'["main"].ask = Append(StopBackground, "backup")
      /\ \A z \in Watchers \ {"main"} : watcher'[z] = watcher[z]
      /\ UNCHANGED <<stop, task, server>>
  BY AsksAreWhole, FirstChanges DEF Watchers
<1>2. StopsInOrder'
  BY <1>1, AsksAreWhole, FirstInOrder DEF Watchers
<1>3. BackgroundTells' /\ GroupTells' /\ OnlyFailuresStop'
  BY <1>1 DEF SupervisionInv, BackgroundTells, GroupTells, OnlyFailuresStop, Watchers
<1>4. x = "group" => Failure
  BY DEF SupervisionInv, OnlyFailuresStop, Over
<1>5. MainTells'
  BY <1>1, <1>4 DEF MainTells, Failure
<1> QED
  BY <1>1, <1>2, <1>3, <1>5 DEF SupervisionInv

\* The first of a list that has started, and the rest.
LEMMA StartedLists ==
    /\ Head(<<"feed", "events", "content">>) = "feed"
    /\ Tail(<<"feed", "events", "content">>) = <<"events", "content">>
    /\ Head(<<"feed", "events", "content", "backup">>) = "feed"
    /\ Tail(<<"feed", "events", "content", "backup">>) = <<"events", "content", "backup">>
    /\ Head(<<"events", "content">>) = "events"
    /\ Tail(<<"events", "content">>) = <<"content">>
    /\ Head(<<"events", "content", "backup">>) = "events"
    /\ Tail(<<"events", "content", "backup">>) = <<"content", "backup">>
    /\ Head(<<"content">>) = "content"
    /\ Tail(<<"content">>) = <<>>
    /\ Head(<<"content", "backup">>) = "content"
    /\ Tail(<<"content", "backup">>) = <<"backup">>
<1>1. Head(<<"feed", "events", "content">>) = "feed" /\ Tail(<<"feed", "events", "content">>) = <<"events", "content">>
  OBVIOUS
<1>2. Head(<<"feed", "events", "content", "backup">>) = "feed" /\ Tail(<<"feed", "events", "content", "backup">>) = <<"events", "content", "backup">>
  OBVIOUS
<1>3. Head(<<"events", "content">>) = "events" /\ Tail(<<"events", "content">>) = <<"content">>
  OBVIOUS
<1>4. Head(<<"events", "content", "backup">>) = "events" /\ Tail(<<"events", "content", "backup">>) = <<"content", "backup">>
  OBVIOUS
<1>5. Head(<<"content">>) = "content" /\ Tail(<<"content">>) = <<>>
  OBVIOUS
<1>6. Head(<<"content", "backup">>) = "content" /\ Tail(<<"content", "backup">>) = <<"backup">>
  OBVIOUS
<1> QED
  BY <1>1, <1>2, <1>3, <1>4, <1>5, <1>6

\* The first of a whole list, and the rest.
LEMMA WholeLists ==
    /\ Head(<<"backup">>) = "backup"
    /\ Tail(<<"backup">>) = <<>>
    /\ Head(<<"background", "feed", "events", "content">>) = "background"
    /\ Tail(<<"background", "feed", "events", "content">>) = <<"feed", "events", "content">>
    /\ Head(<<"background", "feed", "events", "content", "backup">>) = "background"
    /\ Tail(<<"background", "feed", "events", "content", "backup">>) = <<"feed", "events", "content", "backup">>
<1>1. Head(<<"backup">>) = "backup" /\ Tail(<<"backup">>) = <<>>
  OBVIOUS
<1>2. Head(<<"background", "feed", "events", "content">>) = "background" /\ Tail(<<"background", "feed", "events", "content">>) = <<"feed", "events", "content">>
  OBVIOUS
<1>3. Head(<<"background", "feed", "events", "content", "backup">>) = "background" /\ Tail(<<"background", "feed", "events", "content", "backup">>) = <<"feed", "events", "content", "backup">>
  OBVIOUS
<1> QED
  BY <1>1, <1>2, <1>3

\* A watcher asks the next one on its list.
LEMMA AskKeeps ==
    ASSUME SupervisionInv, NEW s \in Watchers, Ask(s)
    PROVE  SupervisionInv'
<1> DEFINE a == watcher[s].ask
           f == Head(watcher[s].ask)
           rest == Tail(watcher[s].ask)
<1>1. watcher[s] \in WatcherState
  BY DEF SupervisionInv, SupervisionShape
<1>2. a \in (WholeAsks \cup StartedAsks) \ {<<>>}
  BY <1>1 DEF Ask, WatcherState
<1>17. /\ a = <<"backup">> => f = "backup" /\ rest = <<>>
       /\ a = <<"background", "feed", "events", "content">> =>
             f = "background" /\ rest = <<"feed", "events", "content">>
       /\ a = <<"background", "feed", "events", "content", "backup">> =>
             f = "background" /\ rest = <<"feed", "events", "content", "backup">>
  BY WholeLists
<1>18. a \in StartedAsks =>
           /\ f \in {"feed", "events", "content"}
           /\ rest \in StartedAsks \cup {<<>>, <<"backup">>}
  BY StartedLists DEF StartedAsks
<1>19. \/ a \in {<<"backup">>, <<"background", "feed", "events", "content">>,
                  <<"background", "feed", "events", "content", "backup">>}
       \/ a \in StartedAsks
  BY <1>2 DEF WholeAsks
<1> HIDE DEF a, f, rest
<1>3. f \in Flags /\ rest \in WholeAsks \cup StartedAsks
  BY <1>17, <1>18, <1>19 DEF WholeAsks, StartedAsks, Flags, Runtimes, Laned
<1>4. rest \in StartedAsks => a \in StartedAsks \/ f = "background"
  BY <1>17, <1>19, WholeNotStarted, AsksAreWhole
<1>5. f \in {"feed", "content"} => a \in StartedAsks
  BY <1>17, <1>19
<1>6. PICK w : w = [watcher[s] EXCEPT !.ask = rest]
  OBVIOUS
<1>7. /\ w \in WatcherState /\ w.ask = rest
      /\ w.pc = watcher[s].pc /\ w.first = watcher[s].first /\ w.expected = watcher[s].expected
  BY <1>1, <1>3, <1>6 DEF WatcherState
<1>8. /\ watcher' = [watcher EXCEPT ![s] = w] /\ stop' = [stop EXCEPT ![f] = TRUE]
      /\ UNCHANGED <<task, lane, server, stream, signalled, panics>>
  BY <1>6 DEF Ask, a, f, rest
<1>9. SupervisionShape'
  BY <1>3, <1>7, <1>8 DEF SupervisionInv, SupervisionShape
<1>10. \A z \in Watchers : /\ watcher'[z].pc = watcher[z].pc /\ watcher'[z].first = watcher[z].first
                           /\ watcher'[z].expected = watcher[z].expected
                           /\ z # s => watcher'[z].ask = watcher[z].ask
  BY <1>7, <1>8 DEF SupervisionInv, SupervisionShape
<1>11. watcher'[s].ask = rest
  BY <1>7, <1>8 DEF SupervisionInv, SupervisionShape
<1>12. \A g \in Flags : stop'[g] <=> (stop[g] \/ g = f)
  BY <1>3, <1>8 DEF SupervisionInv, SupervisionShape
<1>13. watcher[s].pc # "watching" /\ (a \in StartedAsks => stop["background"])
  BY <1>2 DEF SupervisionInv, StopsInOrder, a
<1>14. StopsInOrder'
  <2>1. "background" \in Flags /\ "feed" \in Flags /\ "content" \in Flags /\ Runtimes \subseteq Flags
    BY DEF Flags, Runtimes, Laned
  <2>2. stop'["background"] <=> (stop["background"] \/ f = "background")
    BY <1>12, <2>1
  <2>3. rest \in StartedAsks => stop'["background"]
    BY <1>4, <1>13, <2>2
  <2>4. \A z \in Watchers : /\ watcher'[z].ask \in StartedAsks => stop'["background"]
                            /\ watcher'[z].ask # <<>> => watcher'[z].pc # "watching"
    BY <1>10, <1>11, <1>13, <2>2, <2>3 DEF SupervisionInv, StopsInOrder
  <2>5. stop'["feed"] \/ stop'["content"] => stop'["background"]
    BY <1>5, <1>12, <1>13, <2>1, <2>2 DEF SupervisionInv, StopsInOrder
  <2>6. \A r \in Runtimes : task'[r] \in {"stopping", "ok"} => stop'[r]
    BY <1>8, <1>12, <2>1 DEF SupervisionInv, StopsInOrder
  <2> QED
    BY <2>4, <2>5, <2>6 DEF StopsInOrder
<1>15. BackgroundTells' /\ GroupTells' /\ MainTells'
  BY <1>8, <1>10 DEF SupervisionInv, BackgroundTells, GroupTells, MainTells, Watchers, Failure
<1>16. OnlyFailuresStop'
  <2>1. watcher'["main"].pc = "watching" =>
            watcher["main"].pc = "watching" /\ (watcher["group"].pc # "watching" \/ watcher["background"].pc # "watching")
    BY <1>10, <1>13 DEF Watchers
  <2> QED
    BY <1>8, <2>1 DEF SupervisionInv, OnlyFailuresStop, Failure
<1> QED
  BY <1>9, <1>14, <1>15, <1>16 DEF SupervisionInv

\* A watcher whose children have ended reports.
LEMMA ReportChanges ==
    ASSUME SupervisionInv, NEW s \in Watchers, NEW ok \in BOOLEAN, Report(s, ok), Joining(s)
    PROVE  /\ SupervisionShape' /\ StopsInOrder'
           /\ watcher'[s].pc = IF ok THEN "ok" ELSE "failed"
           /\ watcher'[s].first = watcher[s].first /\ watcher'[s].expected = watcher[s].expected
           /\ \A z \in Watchers \ {s} : watcher'[z] = watcher[z]
           /\ UNCHANGED <<stop, task, server>>
<1>1. watcher[s] \in WatcherState
  BY DEF SupervisionInv, SupervisionShape
<1>2. PICK w : w = [watcher[s] EXCEPT !.pc = IF ok THEN "ok" ELSE "failed"]
  OBVIOUS
<1>3. /\ w \in WatcherState /\ w.pc = IF ok THEN "ok" ELSE "failed"
      /\ w.first = watcher[s].first /\ w.expected = watcher[s].expected /\ w.ask = watcher[s].ask
  BY <1>1, <1>2 DEF WatcherState, Over
<1>4. watcher' = [watcher EXCEPT ![s] = w] /\ UNCHANGED <<stop, task, lane, server, stream, signalled, panics>>
  BY <1>2 DEF Report
<1>5. watcher'[s] = w /\ \A z \in Watchers \ {s} : watcher'[z] = watcher[z]
  BY <1>4 DEF SupervisionInv, SupervisionShape
<1>6. SupervisionShape'
  BY <1>3, <1>4 DEF SupervisionInv, SupervisionShape
<1>7. w.ask = <<>>
  BY <1>3 DEF Joining
<1>8. <<>> \notin StartedAsks
  BY WholeNotStarted, AsksAreWhole
<1>9. StopsInOrder'
  BY <1>4, <1>5, <1>7, <1>8 DEF SupervisionInv, StopsInOrder
<1> QED
  BY <1>3, <1>4, <1>5, <1>6, <1>9

\* The three watchers report what their children told them.
LEMMA JoinsKeep ==
    ASSUME SupervisionInv, JoinBackground \/ JoinGroup \/ JoinMain
    PROVE  SupervisionInv'
<1>1. CASE JoinBackground
  <2>1. PICK ok \in BOOLEAN : ok <=> watcher["background"].expected /\ \A r \in Laned : task[r] = "ok"
    OBVIOUS
  <2>2. Report("background", ok) /\ Joining("background") /\ \A r \in Laned : task[r] \in Over
    BY <1>1, <2>1 DEF JoinBackground, Done, State, Report, Laned, Watchers
  <2>3. /\ SupervisionShape' /\ StopsInOrder'
        /\ watcher'["background"].pc = IF ok THEN "ok" ELSE "failed"
        /\ watcher'["background"].expected = watcher["background"].expected
        /\ \A z \in Watchers \ {"background"} : watcher'[z] = watcher[z]
        /\ UNCHANGED <<stop, task, server>>
    BY <2>2, ReportChanges DEF Watchers
  <2>4. watcher["background"].pc = "joining"
    BY <2>2 DEF Joining, WatcherIs
  <2>5. ~ok => \E r \in Laned : task[r] = "failed"
    BY <2>1, <2>2, <2>4 DEF SupervisionInv, BackgroundTells, Over
  <2>6. BackgroundTells'
    BY <2>1, <2>3, <2>4, <2>5 DEF SupervisionInv, BackgroundTells
  <2>7. GroupTells' /\ MainTells' /\ OnlyFailuresStop'
    BY <2>3, <2>4 DEF SupervisionInv, GroupTells, MainTells, OnlyFailuresStop, Watchers, Failure
  <2> QED
    BY <2>3, <2>6, <2>7 DEF SupervisionInv
<1>2. CASE JoinGroup
  <2>1. PICK ok \in BOOLEAN : ok <=> watcher["background"].pc = "ok" /\ task["backup"] = "ok"
    OBVIOUS
  <2>2. /\ Report("group", ok) /\ Joining("group")
        /\ watcher["background"].pc \in Over /\ task["backup"] \in Over
    BY <1>2, <2>1 DEF JoinGroup, Done, State, Report, Watchers
  <2>3. /\ SupervisionShape' /\ StopsInOrder'
        /\ watcher'["group"].pc = IF ok THEN "ok" ELSE "failed"
        /\ \A z \in Watchers \ {"group"} : watcher'[z] = watcher[z]
        /\ UNCHANGED <<stop, task, server>>
    BY <2>2, ReportChanges DEF Watchers
  <2>4. watcher["group"].pc = "joining"
    BY <2>2 DEF Joining, WatcherIs
  <2>5. GroupTells'
    BY <2>1, <2>2, <2>3 DEF GroupTells, Watchers, Over
  <2>6. BackgroundTells' /\ MainTells' /\ OnlyFailuresStop'
    BY <2>3, <2>4 DEF SupervisionInv, BackgroundTells, MainTells, OnlyFailuresStop, Watchers, Failure
  <2> QED
    BY <2>3, <2>5, <2>6 DEF SupervisionInv
<1>3. CASE JoinMain
  <2>1. PICK ok \in BOOLEAN : ok <=> /\ watcher["main"].first # "group"
                                     /\ server = "ok" /\ watcher["group"].pc = "ok"
    OBVIOUS
  <2>2. /\ Report("main", ok) /\ Joining("main")
        /\ watcher["group"].pc \in Over /\ server \in Over
    BY <1>3, <2>1 DEF JoinMain, Done, State, Report, Watchers
  <2>3. /\ SupervisionShape' /\ StopsInOrder'
        /\ watcher'["main"].pc = IF ok THEN "ok" ELSE "failed"
        /\ watcher'["main"].first = watcher["main"].first
        /\ \A z \in Watchers \ {"main"} : watcher'[z] = watcher[z]
        /\ UNCHANGED <<stop, task, server>>
    BY <2>2, ReportChanges DEF Watchers
  <2>4. watcher["main"].pc = "joining"
    BY <2>2 DEF Joining, WatcherIs
  <2>5. watcher["group"].pc = "failed" => Failure
    BY DEF SupervisionInv, GroupTells, BackgroundTells, Failure, Runtimes
  <2>6. ~ok => Failure \/ server = "failed"
    BY <2>1, <2>2, <2>4, <2>5 DEF SupervisionInv, MainTells, Over
  <2>7. MainTells'
    BY <2>1, <2>3, <2>4, <2>6 DEF SupervisionInv, MainTells, Failure, Watchers
  <2>8. BackgroundTells' /\ GroupTells' /\ OnlyFailuresStop'
    BY <2>3 DEF SupervisionInv, BackgroundTells, GroupTells, OnlyFailuresStop, Watchers
  <2> QED
    BY <2>3, <2>7, <2>8 DEF SupervisionInv
<1> QED
  BY <1>1, <1>2, <1>3

\* The server, its streams and a signal change no report.
LEMMA ServerKeeps ==
    ASSUME SupervisionInv, ~Done("main"),
           TellServer \/ OpenStream \/ CloseStream \/ ServerEnds \/ Signal
    PROVE  SupervisionInv'
<1>1. UNCHANGED <<stop, task, lane, watcher>>
  BY DEF TellServer, OpenStream, CloseStream, ServerEnds, Signal
<1>2. Fail => panics' \in 0..MaxPanics
  BY SupervisionAssumption DEF Fail, SupervisionInv, SupervisionShape
<1>3. /\ server' \in {"serving", "draining"} \cup Over
      /\ stream' \in BOOLEAN /\ signalled' \in BOOLEAN /\ panics' \in 0..MaxPanics
  BY <1>2 DEF SupervisionInv, SupervisionShape, TellServer, OpenStream, CloseStream, ServerEnds, Signal, Over
<1>4. SupervisionShape'
  BY <1>1, <1>3 DEF SupervisionInv, SupervisionShape
<1>5. StopsInOrder' /\ BackgroundTells' /\ GroupTells' /\ OnlyFailuresStop'
  BY <1>1 DEF SupervisionInv, StopsInOrder, BackgroundTells, GroupTells, OnlyFailuresStop, Failure
<1>6. watcher["main"].pc \notin {"ok", "failed"}
  BY DEF Done, State, Watchers, Over
<1>7. MainTells'
  BY <1>1, <1>6 DEF SupervisionInv, MainTells, Failure
<1> QED
  BY <1>4, <1>5, <1>7 DEF SupervisionInv

\* Every step of the process keeps it.
LEMMA SupervisionStep == SupervisionInv /\ [SupervisionNext]_supervisionVars => SupervisionInv'
<1> SUFFICES ASSUME SupervisionInv, [SupervisionNext]_supervisionVars
             PROVE  SupervisionInv'
  OBVIOUS
<1>1. CASE UNCHANGED supervisionVars
  BY <1>1 DEF supervisionVars, SupervisionInv, SupervisionShape, StopsInOrder, BackgroundTells,
              GroupTells, MainTells, OnlyFailuresStop, Failure
<1>2. CASE ~Done("main") /\ (\/ \E r \in Runtimes : RuntimeStep(r)
                             \/ WatcherStep \/ OpenStream \/ CloseStream \/ ServerEnds \/ Signal)
  BY <1>2, RuntimesKeep, BackgroundFirstKeeps, GroupFirstKeeps, MainFirstKeeps, AskKeeps, JoinsKeep,
     ServerKeeps DEF WatcherStep
<1> QED
  BY <1>1, <1>2 DEF SupervisionNext

\* The exit of the process tells of every failure, and of nothing else.
LEMMA ReportsAreTrue == SupervisionInv => ExitTellsFailures
<1> SUFFICES ASSUME SupervisionInv, Done("main")
             PROVE  State("main") = "ok" <=> server = "ok" /\ \A r \in Runtimes : task[r] = "ok"
  BY DEF ExitTellsFailures
<1>1. State("main") = watcher["main"].pc /\ watcher["main"].pc \in {"ok", "failed"}
  BY DEF Done, State, Watchers, Over
<1>2. watcher["main"].pc = "ok" => server = "ok" /\ \A r \in Runtimes : task[r] = "ok"
  BY DEF SupervisionInv, MainTells, GroupTells, BackgroundTells, Runtimes
<1>3. watcher["main"].pc = "failed" => ~(server = "ok" /\ \A r \in Runtimes : task[r] = "ok")
  BY DEF SupervisionInv, MainTells, Failure
<1> QED
  BY <1>1, <1>2, <1>3

-----------------------------------------------------------------------------
(* The hub of events.                                                      *)

\* A page and its connection belong to each other.
Linked ==
    \A p \in Pages : page[p].link # None =>
        /\ sub[page[p].link] # None /\ sub[page[p].link].phase \in {"first", "open"}
        /\ \A q \in Pages : page[q].link = page[p].link => q = p

RealtimeInv == RealtimeTypeOK /\ toPublish <= version /\ Linked

\* The least of some natural numbers is one of them, and below the others.
LEMMA MinIsMember ==
    ASSUME NEW T \in SUBSET Nat, T # {}
    PROVE  Min(T) \in T /\ \A n \in T : Min(T) <= n
<1>1. PICK m \in T : \A n \in T : <<n, m>> \notin OpToRel(<, Nat)
  BY NatLessThanWellFounded, WFMin
<1>2. \A n \in T : ~(n < m)
  BY <1>1, Zenon DEF OpToRel
<1>3. \A n \in T : m <= n
  BY <1>2
<1> QED
  BY <1>3 DEF Min

\* There is a channel for every connection and one that is still remembered.
LEMMA ChannelsLast ==
    ASSUME RealtimeInv, NEW k \in Connections, sub[k] = None, ~Used
    PROVE  FreshChannel \in Channels
<1> DEFINE C == Channels \ {users}
           D == Connections \ {k}
           Free == {c \in Channels : c # users /\ Receivers(c) = {}}
           h == [c \in C |-> CHOOSE x \in Connections : sub[x] # None /\ sub[x].channel = c]
           n == Cardinality(Connections)
<1>1. n \in Nat /\ IsFiniteSet(Connections)
  BY RealtimeAssumption, FS_CardinalityType
<1>2. IsFiniteSet(Channels) /\ Cardinality(Channels) = n + 1
  BY <1>1, FS_Interval DEF Channels
<1>3. IsFiniteSet(C) /\ Cardinality(C) >= n
  BY <1>1, <1>2, FS_RemoveElement
<1>4. IsFiniteSet(D) /\ Cardinality(D) = n - 1
  BY <1>1, FS_RemoveElement
<1>5. Free # {}
  <2> SUFFICES ASSUME Free = {}
               PROVE  FALSE
    OBVIOUS
  <2>1. \A c \in C : \E x \in Connections : sub[x] # None /\ sub[x].channel = c
    BY DEF Receivers
  <2>2. \A c \in C : h[c] \in Connections /\ sub[h[c]] # None /\ sub[h[c]].channel = c
    BY <2>1
  <2> HIDE DEF h
  <2>3. \A c \in C : h[c] \in D
    BY <2>2
  <2>4. DOMAIN h = C /\ h = [c \in C |-> h[c]]
    BY DEF h
  <2>5. h \in [C -> D]
    BY <2>3, <2>4
  <2>6. Cardinality(D) < Cardinality(C)
    BY <1>1, <1>2, <1>3, <1>4, FS_CardinalityType
  <2>7. PICK c, d \in C : c # d /\ h[c] = h[d]
    BY <1>3, <1>4, <2>5, <2>6, FS_PigeonHole
  <2> QED
    BY <2>2, <2>7
<1>6. Free \in SUBSET Nat
  BY <1>1 DEF Channels
<1>7. Min(Free) \in Free
  BY <1>5, <1>6, MinIsMember
<1> QED
  BY <1>7 DEF FreshChannel

\* What the page makes of its own state keeps its type and its connection.
LEMMA PageKeepsType ==
    ASSUME NEW rec \in Page
    PROVE  /\ Scheduled(rec) \in Page /\ Scheduled(rec).link = rec.link
           /\ Synced(rec) \in Page /\ Synced(rec).link = rec.link
           /\ Again(rec) \in Page /\ Again(rec).link = rec.link
<1>1. Scheduled(rec) \in Page /\ Scheduled(rec).link = rec.link
  BY DEF Scheduled, Page
<1>2. PICK x : x = [rec EXCEPT !.pending = FALSE, !.flight = Asked]
  OBVIOUS
<1>3. Asked \in Asked..MaxChanges \cup {None}
  BY RealtimeAssumption DEF Asked
<1>4. x \in Page /\ x.link = rec.link
  BY <1>2, <1>3 DEF Page
<1> QED
  BY <1>1, <1>2, <1>4 DEF Synced, Again

\* A step of one page that keeps its connection keeps the invariant.
LEMMA PageAlone ==
    ASSUME RealtimeInv, NEW p \in Pages, NEW rec \in Page, rec.link = page[p].link, SetPage(p, rec),
           UNCHANGED <<version, toPublish, told, users, sub>>, breaks' \in 0..MaxBreaks
    PROVE  RealtimeInv'
<1>1. /\ page' \in [Pages -> Page]
      /\ \A q \in Pages : page'[q].link = page[q].link
  BY DEF SetPage, RealtimeInv, RealtimeTypeOK
<1>2. RealtimeTypeOK'
  BY <1>1 DEF RealtimeInv, RealtimeTypeOK, Channels
<1>3. Linked'
  BY <1>1 DEF RealtimeInv, Linked
<1> QED
  BY <1>2, <1>3 DEF RealtimeInv

\* A break is counted, and the number of breaks keeps its bound.
LEMMA BreaksCounted ==
    ASSUME RealtimeInv
    PROVE  breaks \in 0..MaxBreaks /\ (Break => breaks' \in 0..MaxBreaks)
BY RealtimeAssumption DEF RealtimeInv, RealtimeTypeOK, Break

\* What a page does for itself.
LEMMA PagesKeep ==
    ASSUME RealtimeInv, NEW p \in Pages,
           \/ Hide(p) \/ Show(p) \/ TimerFires(p) \/ IntervalFires(p) \/ ServerAnswers(p) \/ SyncEnds(p)
    PROVE  RealtimeInv'
<1>1. page[p] \in Page /\ version \in 0..MaxChanges
  BY DEF RealtimeInv, RealtimeTypeOK
<1>2. PICK r : r = page[p]
  OBVIOUS
<1>3. UNCHANGED <<version, toPublish, told, users, sub>> /\ breaks' \in 0..MaxBreaks
  BY BreaksCounted DEF Hide, Show, TimerFires, IntervalFires, ServerAnswers, SyncEnds
<1>4. \E rec \in Page : rec.link = r.link /\ SetPage(p, rec)
  <2>1. CASE Hide(p)
    <3>1. [r EXCEPT !.visible = FALSE] \in Page /\ [r EXCEPT !.visible = FALSE].link = r.link
      BY <1>1, <1>2 DEF Page
    <3> QED
      BY <1>2, <2>1, <3>1 DEF Hide
  <2>2. CASE Show(p)
    <3>1. PICK x : x = [r EXCEPT !.visible = TRUE]
      OBVIOUS
    <3>2. x \in Page /\ x.link = r.link
      BY <1>1, <1>2, <3>1 DEF Page
    <3>3. SetPage(p, Scheduled(x))
      BY <1>2, <2>2, <3>1 DEF Show
    <3> QED
      BY <3>2, <3>3, PageKeepsType
  <2>3. CASE TimerFires(p)
    <3>1. PICK x : x = [r EXCEPT !.timer = FALSE]
      OBVIOUS
    <3>2. x \in Page /\ x.link = r.link
      BY <1>1, <1>2, <3>1 DEF Page
    <3>3. SetPage(p, Synced(x))
      BY <1>2, <2>3, <3>1 DEF TimerFires
    <3> QED
      BY <3>2, <3>3, PageKeepsType
  <2>4. CASE IntervalFires(p)
    BY <1>1, <1>2, <2>4, PageKeepsType DEF IntervalFires
  <2>5. CASE ServerAnswers(p)
    <3>1. PICK x : x = [r EXCEPT !.flight = version]
      OBVIOUS
    <3>2. version \in Asked..MaxChanges \cup {None}
      BY <1>1, RealtimeAssumption DEF Asked
    <3>3. x \in Page /\ x.link = r.link
      BY <1>1, <1>2, <3>1, <3>2 DEF Page
    <3>4. SetPage(p, x)
      BY <1>2, <2>5, <3>1 DEF ServerAnswers
    <3> QED
      BY <3>3, <3>4
  <2>6. CASE SyncEnds(p)
    <3>1. PICK x, y : /\ x = [r EXCEPT !.flight = None, !.failed = FALSE, !.seen = r.flight]
                      /\ y = [r EXCEPT !.flight = None, !.failed = TRUE]
      OBVIOUS
    <3>2. y \in Page /\ y.link = r.link
      BY <1>1, <1>2, <3>1 DEF Page
    <3>3. r.flight # None /\ r.flight # Asked => x \in Page /\ x.link = r.link
      <4>1. r.flight # None /\ r.flight # Asked => r.flight \in 0..MaxChanges
        BY <1>1, <1>2, RealtimeAssumption DEF Page, Asked
      <4> QED
        BY <1>1, <1>2, <3>1, <4>1 DEF Page
    <3>4. \/ r.flight # None /\ r.flight # Asked /\ SetPage(p, Again(x))
          \/ SetPage(p, Again(y))
      BY <1>2, <2>6, <3>1 DEF SyncEnds
    <3> QED
      BY <3>2, <3>3, <3>4, PageKeepsType
  <2> QED
    BY <2>1, <2>2, <2>3, <2>4, <2>5, <2>6
<1> QED
  BY <1>2, <1>3, <1>4, PageAlone

\* Changes are committed, and published or not.
LEMMA ChangesKeep ==
    ASSUME RealtimeInv, Commit \/ CommitQuietly \/ Publish \/ LosePublication
    PROVE  RealtimeInv'
<1>1. CASE Commit
  BY <1>1, RealtimeAssumption DEF Commit, RealtimeInv, RealtimeTypeOK, Linked, Channels
<1>2. CASE Publish
  <2>1. \A k \in Connections :
           \/ sub'[k] = sub[k]
           \/ sub[k] # None /\ sub'[k] = [sub[k] EXCEPT !.unread = Min({@ + 1, EventCapacity + 1})]
    BY <1>2 DEF Publish, Receivers
  <2>2. \A k \in Connections :
           /\ sub[k] # None => /\ sub'[k] \in Subscription /\ sub'[k].phase = sub[k].phase
                               /\ sub'[k] # None
           /\ sub[k] = None => sub'[k] = None
    <3> SUFFICES ASSUME NEW k \in Connections, sub[k] # None,
                        sub'[k] = [sub[k] EXCEPT !.unread = Min({@ + 1, EventCapacity + 1})]
                 PROVE  sub'[k] \in Subscription /\ sub'[k].phase = sub[k].phase /\ sub'[k] # None
      BY <2>1, SubscriptionAssumption DEF RealtimeInv, RealtimeTypeOK
    <3>1. PICK u : u = Min({sub[k].unread + 1, EventCapacity + 1})
      OBVIOUS
    <3>2. sub[k] \in Subscription
      BY DEF RealtimeInv, RealtimeTypeOK
    <3>3. sub[k].unread \in 0..EventCapacity + 1 /\ EventCapacity \in Nat
      BY <3>2, RealtimeAssumption DEF Subscription
    <3>4. {sub[k].unread + 1, EventCapacity + 1} \in SUBSET Nat
      BY <3>3
    <3>5. u \in {sub[k].unread + 1, EventCapacity + 1} /\ u <= EventCapacity + 1
      BY <3>1, <3>3, <3>4, MinIsMember
    <3>6. u \in 0..EventCapacity + 1
      BY <3>3, <3>5
    <3>7. sub'[k] = [sub[k] EXCEPT !.unread = u]
      BY <3>1
    <3> QED
      BY <3>2, <3>6, <3>7, SubscriptionAssumption DEF Subscription
  <2>3. sub' \in [Connections -> Subscription \cup {None}]
    <3>1. sub' = [k \in Connections |-> sub'[k]]
      BY <1>2 DEF Publish
    <3> QED
      BY <2>2, <3>1
  <2>4. /\ users' \in Channels \cup {None} /\ toPublish' \in 0..MaxChanges /\ toPublish' <= version'
        /\ told' \in 0..MaxChanges
    BY <1>2, RealtimeAssumption DEF Publish, RealtimeInv, RealtimeTypeOK
  <2>5. UNCHANGED <<version, page, breaks>>
    BY <1>2 DEF Publish
  <2>6. RealtimeTypeOK'
    BY <2>3, <2>4, <2>5 DEF RealtimeInv, RealtimeTypeOK, Channels
  <2>7. Linked'
    BY <2>2, <2>5 DEF RealtimeInv, RealtimeTypeOK, Linked, Page
  <2> QED
    BY <2>4, <2>6, <2>7 DEF RealtimeInv
<1>3. CASE CommitQuietly
  BY <1>3, RealtimeAssumption DEF CommitQuietly, RealtimeInv, RealtimeTypeOK, Linked, Channels
<1>4. CASE LosePublication
  BY <1>4, RealtimeAssumption DEF LosePublication, RealtimeInv, RealtimeTypeOK, Linked, Channels
<1> QED
  BY <1>1, <1>2, <1>3, <1>4

\* Connections come and go.
LEMMA ConnectKeeps ==
    ASSUME RealtimeInv, NEW p \in Pages, NEW k \in Connections, Connect(p, k)
    PROVE  RealtimeInv'
<1>1. users' \in Channels
  BY ChannelsLast DEF Connect, Used, RealtimeInv, RealtimeTypeOK
<1>2. PICK x : x = [phase |-> "first", channel |-> users', unread |-> 0]
  OBVIOUS
<1>3. PICK n \in Int : n = 0
  OBVIOUS
<1>4. x \in Subscription /\ x.phase = "first"
  <2>1. n \in 0..EventCapacity + 1
    BY <1>3, RealtimeAssumption
  <2> QED
    BY <1>1, <1>2, <1>3, <2>1 DEF Subscription
<1>5. PICK r : r = [page[p] EXCEPT !.link = k]
  OBVIOUS
<1>6. page[p] \in Page /\ page[p].link = None /\ k # None
  BY RealtimeAssumption DEF Connect, RealtimeInv, RealtimeTypeOK
<1>7. r \in Page /\ r.link = k
  BY <1>5, <1>6 DEF Page
<1>8. sub' = [sub EXCEPT ![k] = x] /\ page' = [page EXCEPT ![p] = r]
  BY <1>2, <1>5 DEF Connect, SetPage
<1>9. UNCHANGED <<version, toPublish, told, breaks>> /\ sub[k] = None
  BY DEF Connect
<1>10. RealtimeTypeOK'
  BY <1>1, <1>4, <1>7, <1>8, <1>9 DEF RealtimeInv, RealtimeTypeOK, Channels
<1>11. /\ page'[p].link = k /\ \A q \in Pages \ {p} : page'[q].link = page[q].link /\ page[q].link # k
       /\ sub'[k].phase = "first" /\ sub'[k] # None
       /\ \A l \in Connections \ {k} : sub'[l] = sub[l]
  BY <1>4, <1>6, <1>7, <1>8, <1>9, SubscriptionAssumption DEF RealtimeInv, RealtimeTypeOK, Linked
<1>12. \A q \in Pages : page[q].link \in Connections \cup {None}
  BY DEF RealtimeInv, RealtimeTypeOK, Page
<1>13. Linked'
  BY <1>11, <1>12 DEF RealtimeInv, Linked
<1> QED
  BY <1>9, <1>10, <1>13 DEF RealtimeInv

\* A connection that is going belongs to no page.
LEMMA DropKeeps ==
    ASSUME RealtimeInv, NEW k \in Connections, Drop(k)
    PROVE  RealtimeInv'
<1>1. sub[k] \in Subscription /\ sub[k].phase \in {"dropping", "dropped"}
  BY DEF Drop, RealtimeInv, RealtimeTypeOK
<1>2. PICK x : x = [sub[k] EXCEPT !.phase = "dropped"]
  OBVIOUS
<1>3. x \in Subscription
  BY <1>1, <1>2 DEF Subscription
<1>4. (sub' = [sub EXCEPT ![k] = x]) \/ (sub' = [sub EXCEPT ![k] = None])
  BY <1>2 DEF Drop
<1>5. users' \in Channels \cup {None} /\ UNCHANGED <<version, toPublish, told, page, breaks>>
  BY DEF Drop, RealtimeInv, RealtimeTypeOK
<1>6. sub' \in [Connections -> Subscription \cup {None}] /\ \A l \in Connections \ {k} : sub'[l] = sub[l]
  BY <1>3, <1>4 DEF RealtimeInv, RealtimeTypeOK
<1>7. \A p \in Pages : page[p].link \in (Connections \ {k}) \cup {None}
  BY <1>1 DEF RealtimeInv, RealtimeTypeOK, Linked, Page
<1>8. RealtimeTypeOK' /\ Linked'
  BY <1>5, <1>6, <1>7 DEF RealtimeInv, RealtimeTypeOK, Linked, Channels
<1> QED
  BY <1>5, <1>8 DEF RealtimeInv

\* An event is delivered, or the connection of a page breaks.
LEMMA StreamsKeep ==
    ASSUME RealtimeInv, NEW p \in Pages, Deliver(p) \/ Disconnect(p)
    PROVE  RealtimeInv'
<1>1. page[p] \in Page /\ page[p].link # None
  BY DEF Deliver, Disconnect, RealtimeInv, RealtimeTypeOK
<1>2. PICK k \in Connections : k = page[p].link
  BY <1>1 DEF Page
<1>3. sub[k] \in Subscription /\ k # None
  BY <1>1, <1>2 DEF RealtimeInv, RealtimeTypeOK, Linked
<1>4. \A q \in Pages \ {p} : page[q].link # k
  BY <1>1, <1>2 DEF RealtimeInv, Linked
<1>5. CASE Deliver(p)
  <2>1. PICK x : /\ \/ x = [sub[k] EXCEPT !.phase = "open"]
                    \/ sub[k].phase = "open" /\ sub[k].unread > 0 /\ x = [sub[k] EXCEPT !.unread = @ - 1]
                 /\ sub' = [sub EXCEPT ![k] = x]
    BY <1>2, <1>5 DEF Deliver
  <2>2. x \in Subscription /\ x.phase = "open"
    BY <1>3, <2>1, RealtimeAssumption DEF Subscription
  <2>3. SetPage(p, Scheduled(page[p])) /\ UNCHANGED <<version, toPublish, told, users, breaks>>
    BY <1>5 DEF Deliver
  <2>4. page' \in [Pages -> Page] /\ \A q \in Pages : page'[q].link = page[q].link
    BY <1>1, <2>3, PageKeepsType DEF SetPage, RealtimeInv, RealtimeTypeOK
  <2>5. /\ sub' \in [Connections -> Subscription \cup {None}]
        /\ sub'[k] = x /\ \A l \in Connections \ {k} : sub'[l] = sub[l]
    BY <2>1, <2>2 DEF RealtimeInv, RealtimeTypeOK
  <2>6. RealtimeTypeOK'
    BY <2>3, <2>4, <2>5 DEF RealtimeInv, RealtimeTypeOK, Channels
  <2>7. \A q \in Pages : page[q].link \in Connections \cup {None}
    BY DEF RealtimeInv, RealtimeTypeOK, Page
  <2>8. Linked'
    BY <2>2, <2>4, <2>5, <2>7, SubscriptionAssumption DEF RealtimeInv, Linked
  <2> QED
    BY <2>3, <2>6, <2>8 DEF RealtimeInv
<1>6. CASE Disconnect(p)
  <2>1. PICK x : x = [sub[k] EXCEPT !.phase = "dropping"]
    OBVIOUS
  <2>2. x \in Subscription
    BY <1>3, <2>1 DEF Subscription
  <2>3. PICK r : r = [page[p] EXCEPT !.link = None]
    OBVIOUS
  <2>4. r \in Page /\ r.link = None
    BY <1>1, <2>3 DEF Page
  <2>5. /\ sub' = [sub EXCEPT ![k] = x] /\ SetPage(p, Scheduled(r)) /\ Break
        /\ UNCHANGED <<version, toPublish, told, users>>
    BY <1>2, <1>6, <2>1, <2>3 DEF Disconnect
  <2>6. /\ page' \in [Pages -> Page] /\ page'[p].link = None
        /\ \A q \in Pages \ {p} : page'[q].link = page[q].link
    BY <2>4, <2>5, PageKeepsType DEF SetPage, RealtimeInv, RealtimeTypeOK
  <2>7. /\ sub' \in [Connections -> Subscription \cup {None}]
        /\ \A l \in Connections \ {k} : sub'[l] = sub[l]
    BY <2>2, <2>5 DEF RealtimeInv, RealtimeTypeOK
  <2>8. RealtimeTypeOK'
    BY <2>5, <2>6, <2>7, BreaksCounted DEF RealtimeInv, RealtimeTypeOK, Channels
  <2>9. \A q \in Pages : page[q].link \in Connections \cup {None}
    BY DEF RealtimeInv, RealtimeTypeOK, Page
  <2>10. Linked'
    BY <1>4, <2>6, <2>7, <2>9 DEF RealtimeInv, Linked
  <2> QED
    BY <2>5, <2>8, <2>10 DEF RealtimeInv
<1> QED
  BY <1>5, <1>6

\* Every step of the hub and of its pages keeps it.
LEMMA RealtimeStep == RealtimeInv /\ [RealtimeNext]_realtimeVars => RealtimeInv'
<1>1. RealtimeInv /\ UNCHANGED realtimeVars => RealtimeInv'
  BY DEF realtimeVars, RealtimeInv, RealtimeTypeOK, Linked, Channels
<1> QED
  BY <1>1, PagesKeep, ChangesKeep, ConnectKeeps, DropKeeps, StreamsKeep DEF RealtimeNext, PageStep

\* Nobody is connected and nothing has changed.
LEMMA RealtimeStart == RealtimeInit => RealtimeInv
<1> SUFFICES ASSUME RealtimeInit
             PROVE  RealtimeInv
  OBVIOUS
<1>1. PICK n \in Int : n = 0
  OBVIOUS
<1>2. PICK r : r = [link |-> None, visible |-> TRUE, timer |-> FALSE,
                    pending |-> FALSE, flight |-> None, failed |-> FALSE, seen |-> n]
  OBVIOUS
<1>3. r \in Page /\ r.link = None
  BY <1>1, <1>2, RealtimeAssumption DEF Page
<1>4. page = [p \in Pages |-> r]
  BY <1>1, <1>2 DEF RealtimeInit
<1>5. RealtimeTypeOK
  <2>1. page \in [Pages -> Page]
    BY <1>3, <1>4
  <2>2. sub \in [Connections -> Subscription \cup {None}]
    BY DEF RealtimeInit
  <2>3. /\ version \in 0..MaxChanges /\ toPublish \in 0..MaxChanges /\ told \in 0..MaxChanges /\ breaks \in 0..MaxBreaks
        /\ users \in Channels \cup {None}
    BY RealtimeAssumption DEF RealtimeInit
  <2> QED
    BY <2>1, <2>2, <2>3 DEF RealtimeTypeOK
<1>6. Linked /\ toPublish <= version
  BY <1>3, <1>4 DEF RealtimeInit, Linked
<1> QED
  BY <1>5, <1>6 DEF RealtimeInv

-----------------------------------------------------------------------------
(* Theorems                                                                *)

\* Each service, on its own or while it is another's turn.
LifecycleInv == PurgeInv /\ BackupInv /\ SetupInv /\ SupervisionInv /\ RealtimeInv

\* A service that does not run stays as it is.
LEMMA OneAtATime == LifecycleNext =>
    /\ [Next]_vars /\ [BackupNext]_backupVars /\ [SetupNext]_setupVars
    /\ [SupervisionNext]_supervisionVars /\ [RealtimeNext]_realtimeVars
BY DEF LifecycleNext, Keep

(* The services keep their invariants in every state of MCLifecycle, for   *)
(* any feeds, targets, servers, lanes and pages (feeds/retention.rs,       *)
(* backups/runtime.rs, setup/service.rs, background.rs, realtime.rs).      *)
THEOREM LifecycleSafe == LifecycleSpec => []LifecycleInv
<1>1. LifecycleInit => LifecycleInv
  BY PurgeInit, BackupStart, SetupStart, SupervisionStart, RealtimeStart DEF LifecycleInit, LifecycleInv
<1>2. LifecycleInv /\ UNCHANGED lifecycleVars => LifecycleInv'
  <2> SUFFICES ASSUME LifecycleInv, UNCHANGED lifecycleVars
               PROVE  LifecycleInv'
    OBVIOUS
  <2>1. UNCHANGED vars /\ UNCHANGED backupVars /\ UNCHANGED setupVars /\ UNCHANGED supervisionVars
        /\ UNCHANGED realtimeVars
    BY DEF lifecycleVars
  <2> QED
    BY <2>1, PurgeStep, BackupStep, SetupNextKeeps, SupervisionStep, RealtimeStep DEF LifecycleInv
<1>3. LifecycleInv /\ LifecycleNext => LifecycleInv'
  BY OneAtATime, PurgeStep, BackupStep, SetupNextKeeps, SupervisionStep, RealtimeStep DEF LifecycleInv
<1> QED
  BY <1>1, <1>2, <1>3, PTL DEF LifecycleSpec

(* Every service keeps the types of its state.                             *)
THEOREM LifecycleTyped == LifecycleSpec => []LifecycleTypeOK
<1>1. PurgeInv => TypeOK
  BY DEF PurgeInv
<1>2. BackupInv => BackupTypeOK
  BY DEF BackupInv, BackupShape, WorkerState, BackupTypeOK
<1>3. SetupInv => SetupTypeOK
  BY DEF SetupInv
<1>4. SupervisionInv => SupervisionTypeOK
  <2> SUFFICES ASSUME SupervisionInv, NEW s \in Watchers
               PROVE  watcher[s].pc \in {"watching", "joining"} \cup Over /\ watcher[s].ask \in Seq(Flags)
    BY DEF SupervisionInv, SupervisionShape, SupervisionTypeOK
  <2>1. watcher[s] \in WatcherState
    BY DEF SupervisionInv, SupervisionShape
  <2>2. \A ask \in WholeAsks : ask \in Seq(Flags)
    <3>1. <<>> \in Seq(Flags) /\ <<"backup">> \in Seq(Flags)
      BY DEF Flags, Runtimes, Laned
    <3>2. <<"background", "feed", "events", "content">> \in Seq(Flags) /\ <<"background", "feed", "events", "content", "backup">> \in Seq(Flags)
      BY DEF Flags, Runtimes, Laned
    <3> QED
      BY <3>1, <3>2 DEF WholeAsks
  <2>3. \A ask \in StartedAsks : ask \in Seq(Flags)
    <3>1. <<"feed", "events", "content">> \in Seq(Flags) /\ <<"feed", "events", "content", "backup">> \in Seq(Flags)
      BY DEF Flags, Runtimes, Laned
    <3>2. <<"events", "content">> \in Seq(Flags) /\ <<"events", "content", "backup">> \in Seq(Flags)
      BY DEF Flags, Runtimes, Laned
    <3>3. <<"content">> \in Seq(Flags) /\ <<"content", "backup">> \in Seq(Flags)
      BY DEF Flags, Runtimes, Laned
    <3> QED
      BY <3>1, <3>2, <3>3 DEF StartedAsks
  <2> QED
    BY <2>1, <2>2, <2>3 DEF WatcherState
<1>5. RealtimeInv => RealtimeTypeOK
  BY DEF RealtimeInv
<1>6. LifecycleInv => LifecycleTypeOK
  BY <1>1, <1>2, <1>3, <1>4, <1>5 DEF LifecycleInv, LifecycleTypeOK
<1> QED
  BY <1>6, LifecycleSafe, PTL

(* Setup is ready only when what it stored survives a loss of power, and   *)
(* the exit status of the process tells of every failure, wherever a       *)
(* server crashes and in whatever order the runtimes end                   *)
(* (setup/service.rs, complete; background.rs, run).                       *)
THEOREM ServersTruthful == LifecycleSpec => []ServersTellTheTruth
<1>1. LifecycleInv => ServersTellTheTruth
  BY SoundIsDurable, ReportsAreTrue DEF LifecycleInv, ServersTellTheTruth
<1> QED
  BY <1>1, LifecycleSafe, PTL

=============================================================================
