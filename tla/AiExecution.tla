----------------------------- MODULE AiExecution -----------------------------
(***************************************************************************)
(* From a reader's request for AI content to the calls of a provider.      *)
(* content/ai/service.rs (enqueue), content/worker/processor.rs,           *)
(* plugins/runtime/capability.rs and execute.rs, content/ai/broker.rs,     *)
(* the official plugin's operation.rs and api/ai/config.rs.                *)
(*                                                                         *)
(* A job is queued with an identity built from separate reads: which       *)
(* provider row, in which revision, which configuration and which version  *)
(* of the plugin are to make the artifact.  An attempt reads all of it     *)
(* again, and the broker once more before every call, while the user goes  *)
(* on editing and other processes start other releases.  A call carries a  *)
(* key made of the job and the ordinal of the call, so every attempt sends *)
(* its calls under the keys of the attempts before it.                     *)
(*                                                                         *)
(* Leases, deadlines and the entry are in ContentJobs, the permits of a    *)
(* provider in Admission.  Tools (MCP) are left out: the processor refuses *)
(* a configuration that enables them.                                      *)
(***************************************************************************)
EXTENDS PluginRegistry, Providers

CONSTANTS
    Chosen,   \* the provider that settings name, or None if they are off
    Price,    \* what a call may cost at most under the policy of a row
    MaxSpend, \* 250,000 micros in an attempt
    MaxCalls, \* calls and tokens an attempt may use
    MaxParts, \* bound on the parts a text is split into
    MaxTries  \* attempts of a job

ASSUME ExecutionAssumption ==
    /\ Chosen \in [Settings -> ProviderIds \cup {None}]
    /\ Price \in [Models -> Nat]
    /\ {MaxSpend, MaxCalls, MaxParts, MaxTries} \subseteq Nat

VARIABLES
    vetted,  \* the settings whose provider a client's request has looked up
    asking,  \* what the request for a job has read
    task,    \* the job
    session, \* the attempt each process works on
    calls    \* every call ever sent, under its key

executionVars == <<vetted, asking, task, session, calls>>
allVars == <<registryVars, providerVars, executionVars>>

Task == [provider : ProviderIds, kind : Kinds, model : Models, revision : Nat, settings : Settings,
         version : Bundles, parts : 1..MaxParts,
         state : {"queued", "running", "succeeded", "failed"}, tries : 0..MaxTries]

ASSUME TaskAssumption == None \notin Task

NoAsk == [at |-> "none"]
NoSession == [at |-> "none"]

Usable(p) == p # None /\ provider[p] # None /\ provider[p].on

(***************************************************************************)
(* The configuration and the request                                       *)
(***************************************************************************)

\* put_config looks the provider up before the transaction.
VetSettings(c, v) ==
    /\ change[c] = NoChange
    /\ Chosen[v] = None \/ Usable(Chosen[v])
    /\ vetted' = [vetted EXCEPT ![c] = v]
    /\ UNCHANGED <<registryVars, providerVars, asking, task, session, calls>>

PutConfig(c, v) ==
    /\ v \in Settings /\ vetted[c] = v
    /\ shown[c] # None /\ shown[c].name = "config"
    /\ LockUser(c, "put", v)
    /\ vetted' = [vetted EXCEPT ![c] = None]
    /\ UNCHANGED <<providerVars, asking, task, session, calls>>

\* resolve_operation: the installation and the configuration ...
OpenRequest ==
    /\ asking = NoAsk /\ task = None /\ userActive
    /\ installation # None /\ document["config"] # None
    /\ Chosen[document["config"].value] # None
    /\ asking' = [at |-> "provider", settings |-> document["config"].value, version |-> installation.version]
    /\ UNCHANGED <<registryVars, providerVars, vetted, task, session, calls>>

\* ... and then the provider.  The text of the entry, which the identity names
\* as well, is split by these settings under the policy of this revision.
EnqueueJob(parts) ==
    LET p == Chosen[asking.settings] IN
    /\ asking.at = "provider"
    /\ asking' = NoAsk
    /\ task' = IF ~Usable(p) THEN task
               ELSE [provider |-> p, kind |-> provider[p].kind, model |-> provider[p].model,
                     revision |-> provider[p].revision, settings |-> asking.settings,
                     version |-> asking.version, parts |-> parts, state |-> "queued", tries |-> 0]
    /\ UNCHANGED <<registryVars, providerVars, vetted, session, calls>>

(***************************************************************************)
(* An attempt                                                              *)
(***************************************************************************)

Unrelated == <<registryVars, providerVars, vetted, asking>>

ClaimTask(h) ==
    /\ syncing[h].at = "synced" /\ session[h] = NoSession
    /\ task # None /\ task.state = "queued" /\ task.tries < MaxTries
    /\ task' = [task EXCEPT !.state = "running", !.tries = @ + 1]
    /\ session' = [session EXCEPT ![h] = [at |-> "installation", try |-> task.tries + 1, next |-> 1,
                                          left |-> MaxCalls, spend |-> MaxSpend]]
    /\ UNCHANGED <<Unrelated, calls>>

\* The verdict of an attempt counts while the lease of its claim lasts.
Counts(h) == task.state = "running" /\ task.tries = session[h].try

Outcome(h, retryable) ==
    IF ~Counts(h) THEN task
    ELSE [task EXCEPT !.state = IF retryable /\ task.tries < MaxTries THEN "queued" ELSE "failed"]

EndAttempt(h, retryable) ==
    /\ task' = Outcome(h, retryable)
    /\ session' = [session EXCEPT ![h] = NoSession]
    /\ UNCHANGED calls

Step(h, at) == session' = [session EXCEPT ![h].at = at]

CheckInstallation(h) ==
    /\ session[h].at = "installation"
    /\ IF installation.version = task.version /\ syncing[h].version = task.version
       THEN Step(h, "config") /\ UNCHANGED <<task, calls>>
       ELSE EndAttempt(h, FALSE)
    /\ UNCHANGED Unrelated

\* The hash of the configuration stands for its contents.
CheckConfig(h) ==
    /\ session[h].at = "config"
    /\ IF userActive /\ document["config"].value = task.settings
       THEN Step(h, "binding") /\ UNCHANGED <<task, calls>>
       ELSE EndAttempt(h, FALSE)
    /\ UNCHANGED Unrelated

BindingMatches(p) ==
    /\ Opens(p) /\ userActive
    /\ provider[p].kind = task.kind /\ provider[p].model = task.model
    /\ provider[p].revision = task.revision

CheckBinding(h) ==
    /\ session[h].at = "binding"
    /\ IF BindingMatches(task.provider)
       THEN Step(h, "prepare") /\ UNCHANGED <<task, calls>>
       ELSE EndAttempt(h, FALSE)
    /\ UNCHANGED Unrelated

\* The plugin asks for the next part; the session checks the ordinal and what
\* is left, and takes the call off it before the broker sees it.
PrepareCall(h) ==
    /\ session[h].at = "prepare"
    /\ IF session[h].left > 0
       THEN session' = [session EXCEPT ![h].at = "broker", ![h].left = @ - 1] /\ UNCHANGED <<task, calls>>
       ELSE EndAttempt(h, FALSE)
    /\ UNCHANGED Unrelated

\* The broker reads the row again: it may have changed since the attempt began
\* or since the call before.
Affordable(h, price) == price <= session[h].spend

OpensAgain(p) == Opens(p) /\ userActive

BrokerMatches(p) == BindingMatches(p)

ReadBinding(h) ==
    LET row == provider[task.provider] IN
    /\ session[h].at = "broker"
    /\ IF BrokerMatches(task.provider) /\ Affordable(h, Price[row.model])
       THEN /\ session' = [session EXCEPT ![h] = [at |-> "send", try |-> @.try, next |-> @.next, left |-> @.left,
                                                  spend |-> @.spend, row |-> row]]
            /\ UNCHANGED <<task, calls>>
       ELSE EndAttempt(h, FALSE)
    /\ UNCHANGED Unrelated

Content(row, settings, ordinal) ==
    [kind |-> row.kind, model |-> row.model, revision |-> row.revision, settings |-> settings, part |-> ordinal]

\* Until it is answered a call may cost all it was allowed to.
SendCall(h) ==
    LET s == session[h] IN
    /\ s.at = "send"
    /\ calls' = calls \cup {[key |-> s.next, try |-> s.try, content |-> Content(s.row, task.settings, s.next),
                             cost |-> Price[s.row.model]]}
    /\ Step(h, "wait")
    /\ UNCHANGED <<Unrelated, task>>

Answered(h, cost) ==
    {IF c.key = session[h].next /\ c.try = session[h].try THEN [c EXCEPT !.cost = cost] ELSE c : c \in calls}

Uncharged(s, cost) == s.spend

Charge(s, cost) == s.spend - cost

\* A complete answer is charged.  The last one makes the artifact.
AcceptAnswer(h, cost) ==
    LET s == session[h] IN
    /\ s.at = "wait" /\ cost <= Price[s.row.model]
    /\ calls' = Answered(h, cost)
    /\ IF s.next = task.parts
       THEN /\ task' = IF Counts(h) THEN [task EXCEPT !.state = "succeeded"] ELSE task
            /\ session' = [session EXCEPT ![h] = NoSession]
       ELSE /\ session' = [session EXCEPT ![h] = [at |-> "prepare", try |-> s.try, next |-> s.next + 1,
                                                  left |-> s.left, spend |-> Charge(s, cost)]]
            /\ UNCHANGED task
    /\ UNCHANGED Unrelated

\* The permit, the deadline, the network, the provider or a database error: for
\* some of them the job is to be tried again, and the provider may be at work.
FailAttempt(h, retryable) ==
    /\ session[h] # NoSession
    /\ EndAttempt(h, retryable)
    /\ UNCHANGED Unrelated

\* Recovery gives the job to another attempt; this one does not know yet.
LoseLease ==
    /\ task # None /\ task.state = "running"
    /\ task' = [task EXCEPT !.state = IF task.tries < MaxTries THEN "queued" ELSE "failed"]
    /\ UNCHANGED <<Unrelated, session, calls>>

RestartHost(h, v) ==
    /\ StartRelease(h, v)
    /\ session' = [session EXCEPT ![h] = NoSession]
    /\ UNCHANGED <<providerVars, vetted, asking, task, calls>>

ExecutionInit ==
    /\ RegistryInit /\ ProvidersInit
    /\ vetted = [c \in Clients |-> None]
    /\ asking = NoAsk
    /\ task = None
    /\ session = [h \in Hosts |-> NoSession]
    /\ calls = {}

Attempts(h) ==
    \/ ClaimTask(h) \/ CheckInstallation(h) \/ CheckConfig(h) \/ CheckBinding(h)
    \/ PrepareCall(h) \/ ReadBinding(h) \/ SendCall(h)
    \/ \E cost \in 0..MaxSpend : AcceptAnswer(h, cost)
    \/ \E retryable \in BOOLEAN : FailAttempt(h, retryable)
    \/ \E v \in Bundles : RestartHost(h, v)

ExecutionNext ==
    \/ \E c \in Clients, v \in Settings : VetSettings(c, v) \/ PutConfig(c, v)
    \/ /\ \/ \E h \in Hosts : ReadInstallation(h) \/ WriteInstallation(h)
          \/ \E c \in Clients : ShowDocument(c, "config") \/ CheckChange(c) \/ CommitChange(c) \/ DropChange(c)
          \/ SetAccount
       /\ UNCHANGED <<providerVars, executionVars>>
    \/ ProvidersNext /\ UNCHANGED <<registryVars, executionVars>>
    \/ OpenRequest
    \/ \E parts \in 1..MaxParts : EnqueueJob(parts)
    \/ \E h \in Hosts : Attempts(h)
    \/ LoseLease

ExecutionSpec == ExecutionInit /\ [][ExecutionNext]_allVars

(***************************************************************************)
(* Properties                                                              *)
(***************************************************************************)

ExecutionTypeOK ==
    /\ vetted \in [Clients -> Settings \cup {None}]
    /\ asking.at \in {"none", "provider"}
    /\ task \in {None} \cup Task
    /\ \A h \in Hosts : session[h].at \in
          {"none", "installation", "config", "binding", "prepare", "broker", "send", "wait"}
    /\ \A h \in Hosts : session[h] # NoSession => session[h].left \in 0..MaxCalls /\ session[h].spend \in 0..MaxSpend

\* Every call of a job, whichever attempt and process sent it and whatever was
\* edited meanwhile, is made of the provider row, the settings and the part its
\* identity and its key name: calls of one key are the same request, and an
\* artifact of several parts was not made by two versions of a provider.
CallsFollowIdentity ==
    \A c \in calls : c.content = Content(task, task.settings, c.key)

\* The calls of an attempt never cost more than the attempt may spend, with
\* everything a call still open may cost.
SpendBounded ==
    \A try \in 1..MaxTries :
        MapThenSumSet(LAMBDA c : c.cost, {c \in calls : c.try = try}) <= MaxSpend

\* The documents, the providers and the attempts keep their types.
ContentTypeOK == RegistryTypeOK /\ ProvidersTypeOK /\ ExecutionTypeOK

\* What a user may keep and an attempt may spend stays in its limits, and every
\* credential stays readable, however the requests interleave.
ContentHolds == ContentTypeOK /\ QuotaHolds /\ SpendBounded /\ CredentialsOpen

\* No edit of a document or of a provider overwrites one its author has not seen.
NoEditIsLost == DocumentEditsBuild /\ ProviderEditsBuild
===============================================================================
