-------------------------------- MODULE Setup --------------------------------
(***************************************************************************)
(* The first start of a server: a database is chosen, its address is made  *)
(* durable in config.toml, and one administrator is created.               *)
(* setup/service.rs, auth/users.rs (create_admin).                         *)
(*                                                                         *)
(* Servers may share a database; each has its own data directory.  A       *)
(* server holds one setup request at a time (the completion mutex).  The   *)
(* request disappears with its connection at any await, the server with a  *)
(* crash at any step, and what a directory that was not synchronized held  *)
(* may disappear with the power.                                           *)
(***************************************************************************)
EXTENDS Naturals, Absence

CONSTANTS Servers, Databases, Usernames,
          MaxMishaps \* bound on failures, lost requests, crashes and useless repetitions

ASSUME SetupAssumption ==
    /\ None \notin Databases \cup Usernames
    /\ MaxMishaps \in Nat

VARIABLES
    mode,     \* of a server: DOWN, FULL, ADMIN_ONLY or READY
    born,     \* the mode a server started in
    config,   \* the database config.toml names, as the running system sees it
    durable,  \* the database it names after a loss of power
    attached, \* the database connection of the session service
    claim,    \* bootstrap_state of a database: the administrator's username
    request,  \* the setup request a server works on
    taken,    \* the last username that its client was told is taken
    mishaps

setupVars == <<mode, born, config, durable, attached, claim, request, taken, mishaps>>

SetupRequest == [at: {"inspect", "rename", "sync", "username", "claim", "ready"},
                 db: Databases, name: Usernames]

ASSUME SetupRowAssumption == None \notin SetupRequest

SetupStep(s, at) == request[s] # None /\ request[s].at = at
Proceed(s, at) == request' = [request EXCEPT ![s].at = at]
Answer(s) == request' = [request EXCEPT ![s] = None]
Mishap == mishaps < MaxMishaps /\ mishaps' = mishaps + 1

-------------------------------------------------------------------------------
\* require_mode; the input is valid and the token is right.
Complete(s, d, n) ==
    /\ mode[s] = "FULL" /\ request[s] = None
    /\ request' = [request EXCEPT ![s] = [at |-> "inspect", db |-> d, name |-> n]]
    /\ UNCHANGED <<mode, born, config, durable, attached, claim, taken, mishaps>>

CompleteAdmin(s, n) ==
    /\ mode[s] = "ADMIN_ONLY" /\ request[s] = None
    /\ request' = [request EXCEPT ![s] = [at |-> "username", db |-> attached[s], name |-> n]]
    /\ IF n = taken[s] THEN Mishap ELSE UNCHANGED mishaps
    /\ UNCHANGED <<mode, born, config, durable, attached, claim, taken>>

\* The database is connected and migrated; one with an administrator is refused.
Inspect(s) ==
    /\ SetupStep(s, "inspect")
    /\ IF claim[request[s].db] = None THEN Proceed(s, "rename") ELSE Answer(s)
    /\ UNCHANGED <<mode, born, config, durable, attached, claim, taken, mishaps>>

\* durable_replace: the new file is renamed over the old one.
Rename(s) ==
    /\ SetupStep(s, "rename")
    /\ config' = [config EXCEPT ![s] = request[s].db]
    /\ Proceed(s, "sync")
    /\ UNCHANGED <<mode, born, durable, attached, claim, taken, mishaps>>

\* Mutant: the directory is not synchronized before the database is attached.
AttachUnsynced(s) ==
    /\ SetupStep(s, "sync")
    /\ attached' = [attached EXCEPT ![s] = request[s].db]
    /\ mode' = [mode EXCEPT ![s] = "ADMIN_ONLY"]
    /\ Proceed(s, "username")
    /\ UNCHANGED <<born, config, durable, claim, taken, mishaps>>

\* Once its directory is synchronized the server attaches the database.
Attach(s) ==
    /\ SetupStep(s, "sync")
    /\ durable' = [durable EXCEPT ![s] = config[s]]
    /\ attached' = [attached EXCEPT ![s] = request[s].db]
    /\ mode' = [mode EXCEPT ![s] = "ADMIN_ONLY"]
    /\ Proceed(s, "username")
    /\ UNCHANGED <<born, config, claim, taken, mishaps>>

\* A write, rename or sync fails: the temporary file goes, a renamed one stays.
ReplaceFails(s) ==
    /\ SetupStep(s, "rename") \/ SetupStep(s, "sync")
    /\ Mishap
    /\ Answer(s)
    /\ UNCHANGED <<mode, born, config, durable, attached, claim, taken>>

\* create_admin: the username is looked up before the password is hashed.
UsernameFree(s) ==
    /\ SetupStep(s, "username")
    /\ IF claim[request[s].db] = request[s].name
       THEN Answer(s) /\ taken' = [taken EXCEPT ![s] = request[s].name]
       ELSE Proceed(s, "claim") /\ UNCHANGED taken
    /\ UNCHANGED <<mode, born, config, durable, attached, claim, mishaps>>

\* Mutant: a request that comes second is an error and no more.
ClaimOnlyFirst(s) ==
    LET d == request[s].db IN
    /\ SetupStep(s, "claim")
    /\ claim' = IF claim[d] = None THEN [claim EXCEPT ![d] = request[s].name] ELSE claim
    /\ IF claim[d] = None THEN Proceed(s, "ready") ELSE Answer(s)
    /\ UNCHANGED <<mode, born, config, durable, attached, taken, mishaps>>

\* One transaction inserts bootstrap_state and the user.  If another request
\* was first, the state is read again and the server is ready as well.
ClaimAdministrator(s) ==
    LET d == request[s].db IN
    /\ SetupStep(s, "claim")
    /\ claim' = IF claim[d] = None THEN [claim EXCEPT ![d] = request[s].name] ELSE claim
    /\ Proceed(s, "ready")
    /\ UNCHANGED <<mode, born, config, durable, attached, taken, mishaps>>

BecomeReady(s) ==
    /\ SetupStep(s, "ready")
    /\ mode' = [mode EXCEPT ![s] = "READY"]
    /\ Answer(s)
    /\ UNCHANGED <<born, config, durable, attached, claim, taken, mishaps>>

-------------------------------------------------------------------------------
\* The client goes away at an await; renaming and synchronizing have none.
RequestLost(s) ==
    /\ request[s] # None /\ request[s].at # "sync"
    /\ Mishap
    /\ Answer(s)
    /\ UNCHANGED <<mode, born, config, durable, attached, claim, taken>>

Stopped(s) ==
    /\ mode' = [mode EXCEPT ![s] = "DOWN"]
    /\ attached' = [attached EXCEPT ![s] = None]
    /\ Answer(s)
    /\ UNCHANGED <<born, claim, taken>>

ServerCrash(s) ==
    /\ mode[s] # "DOWN" /\ Mishap
    /\ Stopped(s)
    /\ UNCHANGED <<config, durable>>

PowerLoss(s) ==
    /\ Mishap
    /\ Stopped(s)
    /\ \E d \in {config[s], durable[s]} :
         /\ config' = [config EXCEPT ![s] = d]
         /\ durable' = [durable EXCEPT ![s] = d]

\* main.rs and from_configured_databases
StartMode(s) ==
    IF config[s] = None THEN "FULL"
    ELSE IF claim[config[s]] = None THEN "ADMIN_ONLY" ELSE "READY"

Start(s) ==
    /\ mode[s] = "DOWN"
    /\ mode' = [mode EXCEPT ![s] = StartMode(s)]
    /\ born' = [born EXCEPT ![s] = StartMode(s)]
    /\ attached' = [attached EXCEPT ![s] = config[s]]
    /\ UNCHANGED <<config, durable, claim, request, taken, mishaps>>

-------------------------------------------------------------------------------
SetupInit ==
    /\ mode = [s \in Servers |-> "DOWN"] /\ born = [s \in Servers |-> "DOWN"]
    /\ config = [s \in Servers |-> None] /\ durable = [s \in Servers |-> None]
    /\ attached = [s \in Servers |-> None]
    /\ claim = [d \in Databases |-> None]
    /\ request = [s \in Servers |-> None] /\ taken = [s \in Servers |-> None]
    /\ mishaps = 0

SetupWork(s) ==
    \/ Start(s) \/ Inspect(s) \/ Rename(s) \/ Attach(s) \/ UsernameFree(s)
    \/ ClaimAdministrator(s) \/ BecomeReady(s)

SetupNext ==
    \E s \in Servers :
        \/ \E d \in Databases, n \in Usernames : Complete(s, d, n)
        \/ \E n \in Usernames : CompleteAdmin(s, n)
        \/ SetupWork(s)
        \/ ReplaceFails(s) \/ RequestLost(s) \/ ServerCrash(s) \/ PowerLoss(s)

\* Servers run and are started again; whoever sets one up tries again, with
\* another name when told that one is taken.
SetupFairness ==
    \A s \in Servers :
        /\ WF_setupVars(SetupWork(s))
        /\ WF_setupVars(UNCHANGED mishaps /\ \E n \in Usernames : CompleteAdmin(s, n))

SetupSpec == SetupInit /\ [][SetupNext]_setupVars /\ SetupFairness

-------------------------------------------------------------------------------
(* Every server, file and database has its type.                           *)
SetupTypeOK ==
    /\ mode \in [Servers -> {"DOWN", "FULL", "ADMIN_ONLY", "READY"}]
    /\ born \in [Servers -> {"DOWN", "FULL", "ADMIN_ONLY", "READY"}]
    /\ config \in [Servers -> Databases \cup {None}]
    /\ durable \in [Servers -> Databases \cup {None}]
    /\ attached \in [Servers -> Databases \cup {None}]
    /\ claim \in [Databases -> Usernames \cup {None}]
    /\ request \in [Servers -> SetupRequest \cup {None}]
    /\ taken \in [Servers -> Usernames \cup {None}]
    /\ mishaps \in 0..MaxMishaps

(* A server that started without a configuration creates no administrator, *)
(* and is never ready, unless config.toml names that very database even    *)
(* after a loss of power (service.rs, complete): otherwise the next start  *)
(* would ask for another database.  A ready server's database has an       *)
(* administrator.                                                          *)
ReadyIsDurable ==
    \A s \in Servers :
        /\ born[s] = "FULL" /\ (mode[s] \in {"ADMIN_ONLY", "READY"}
                                \/ SetupStep(s, "claim") \/ SetupStep(s, "ready")) =>
              attached[s] # None /\ durable[s] = attached[s] /\ config[s] = attached[s]
        /\ mode[s] = "READY" => attached[s] # None /\ claim[attached[s]] # None

(* Wherever a setup was interrupted between the file and the administrator,*)
(* and whichever server created it, a server that knows its database gets  *)
(* ready in the end, if its mode is not FULL again (service.rs,            *)
(* finish_administrator).                                                  *)
SetupEnds == \A s \in Servers : mode[s] = "ADMIN_ONLY" ~> mode[s] \in {"READY", "FULL"}
===============================================================================
