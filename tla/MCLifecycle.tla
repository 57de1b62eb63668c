----------------------------- MODULE MCLifecycle -----------------------------
(***************************************************************************)
(* The services that must come to an end, and share no state: one run      *)
(* checks each of them in turn.  "part" says which one a behaviour is      *)
(* about; the others stay in their initial state.                          *)
(***************************************************************************)
EXTENDS FeedRetention, BackupJobs, Setup, Supervision, Realtime

CONSTANTS f1, f2, user1, la, lb

TwoFeeds == {f1, f2}
FirstFeed == {f1}
OneUser == {user1}
TwoLanes == {la, lb}

VARIABLE part

\* Backups start with two scheduled targets or with one that is not.
SomeTargets ==
    /\ target[1] # None
    /\ plan = IF target[2] = None THEN {} ELSE BackupTargets

LifecycleInit ==
    /\ part \in {"retention", "backup", "setup", "supervision", "realtime"}
    /\ Init /\ BackupInit /\ SetupInit /\ SupervisionInit /\ RealtimeInit
    /\ IF part = "backup" THEN SomeTargets
       ELSE plan = {} /\ \A t \in BackupTargets : target[t] = None

Keep(p, unchanged) == IF part = p THEN TRUE ELSE unchanged

LifecycleNext ==
    /\ \/ part = "retention" /\ Next
       \/ part = "backup" /\ BackupNext
       \/ part = "setup" /\ SetupNext
       \/ part = "supervision" /\ SupervisionNext
       \/ part = "realtime" /\ RealtimeNext
    /\ UNCHANGED part
    /\ Keep("retention", UNCHANGED vars)
    /\ Keep("backup", UNCHANGED backupVars)
    /\ Keep("setup", UNCHANGED setupVars)
    /\ Keep("supervision", UNCHANGED supervisionVars)
    /\ Keep("realtime", UNCHANGED realtimeVars)

lifecycleVars == <<part, vars, backupVars, setupVars, supervisionVars, realtimeVars>>

\* The fairness of each part, where it is the part that runs.
LifecycleFairness ==
    /\ WF_vars(part = "retention" /\ Tick)
    /\ \A l \in Schedulers : WF_vars(part = "retention" /\ Pass(l))
    /\ <>[][\A l \in Schedulers : AbortPass(l) => Pass(l)]_vars
    /\ \A w \in BackupWorkers : WF_backupVars(part = "backup" /\ BackupWork(w))
    /\ \A j \in BackupJobIds : WF_backupVars(part = "backup" /\ ~Working(j) /\ LeaseEnds(j))
    /\ \A s \in Servers :
         /\ WF_setupVars(part = "setup" /\ SetupWork(s))
         /\ WF_setupVars(/\ part = "setup" /\ UNCHANGED mishaps
                         /\ \E n \in Usernames : CompleteAdmin(s, n))
    /\ \A r \in Runtimes : WF_supervisionVars(part = "supervision" /\ Quiet /\ RuntimeStep(r))
    /\ WF_supervisionVars(part = "supervision" /\ WatcherStep)
    /\ WF_supervisionVars(part = "supervision" /\ CloseStream)
    /\ WF_supervisionVars(part = "supervision" /\ Quiet /\ ServerEnds)
    /\ \A k \in Connections : WF_realtimeVars(part = "realtime" /\ Drop(k))
    /\ \A p \in Pages :
         /\ WF_realtimeVars(part = "realtime" /\ Deliver(p))
         /\ WF_realtimeVars(part = "realtime" /\ TimerFires(p))
         /\ WF_realtimeVars(part = "realtime" /\ IntervalFires(p))
         /\ WF_realtimeVars(part = "realtime" /\ ServerAnswers(p))
         /\ WF_realtimeVars(part = "realtime" /\ UNCHANGED breaks /\ SyncEnds(p))

LifecycleSpec == LifecycleInit /\ [][LifecycleNext]_lifecycleVars /\ LifecycleFairness

(* What a server says of itself is true: setup is ready only when what it  *)
(* stored survives a crash, and the exit status tells of every failure.    *)
ServersTellTheTruth == ReadyIsDurable /\ ExitTellsFailures

(* Every service keeps the types of its state. *)
LifecycleTypeOK ==
    TypeOK /\ BackupTypeOK /\ SetupTypeOK /\ SupervisionTypeOK /\ RealtimeTypeOK
===============================================================================
