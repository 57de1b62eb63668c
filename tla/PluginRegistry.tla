---------------------------- MODULE PluginRegistry ----------------------------
(***************************************************************************)
(* The installation of the official plugin and what one user keeps for it: *)
(* a configuration, a capability grant and key-value pairs.                *)
(* plugins/repository.rs, and content/worker/production.rs (the loop that  *)
(* synchronizes the bundled plugin when a process starts).                 *)
(*                                                                         *)
(* A change runs in one transaction that first locks the row of the user   *)
(* (lock_active_user: FOR UPDATE, or on SQLite a write that takes the      *)
(* write lock), so its read, its checks and its write are separate steps   *)
(* between LockUser and the commit.  A document is a row with a value and  *)
(* a revision; of a value only the size in units matters to the quota.     *)
(***************************************************************************)
EXTENDS Integers, FiniteSets, FiniteSetsExt, Absence

CONSTANTS
    Clients,      \* requests that change documents
    Hosts,        \* processes that bring their bundled plugin
    Bundles,      \* versions of it
    Settings,     \* contents of the configuration and of the grant
    PairKeys,     \* keys of key-value pairs
    Sizes,        \* sizes of their values
    MaxPairs,     \* 128
    MaxTotal,     \* 1 MiB
    MaxDocRevision \* bound

ASSUME RegistryAssumption ==
    /\ {MaxPairs, MaxTotal, MaxDocRevision} \subseteq Nat /\ Sizes \subseteq Nat \ {0}
    /\ None \notin Nat \cup Settings \cup Bundles \cup Clients
    /\ {"config", "grant"} \cap PairKeys = {}

Documents == {"config", "grant"} \cup PairKeys
Values(d) == IF d \in PairKeys THEN Sizes ELSE Settings
Installation == [version : Bundles, revision : Nat]
DocumentRow == [value : {None} \cup Sizes \cup Settings, revision : Nat]
Page == [name : Documents, row : {None} \cup DocumentRow]

ASSUME RegistryRowAssumption == None \notin Installation \cup DocumentRow \cup Page

VARIABLES
    installation, \* the row of the plugin
    syncing,      \* what each starting process has read of it
    document,     \* the rows of the user
    shown,        \* the document each client has on its page
    change,       \* its transaction
    userLock,     \* the client whose transaction holds the user's row
    userActive    \* whether the account may be used

registryVars == <<installation, syncing, document, shown, change, userLock, userActive>>

NoChange == [at |-> "none"]

(***************************************************************************)
(* Installation                                                            *)
(***************************************************************************)

\* Three attempts, then the runtime waits a second and starts over.
ReadInstallation(h) ==
    /\ syncing[h].at = "start"
    /\ IF installation # None /\ installation.version = syncing[h].version
       THEN syncing' = [syncing EXCEPT ![h].at = "synced"]
       ELSE syncing' = [syncing EXCEPT ![h] = [at |-> "write", version |-> @.version, seen |-> installation]]
    /\ UNCHANGED <<installation, document, shown, change, userLock, userActive>>

InstallationUnchanged(h) ==
    IF syncing[h].seen = None THEN installation = None
    ELSE installation.revision = syncing[h].seen.revision

\* The insertion fails at the unique key, the update at the revision.
WriteInstallation(h) ==
    /\ syncing[h].at = "write"
    /\ IF InstallationUnchanged(h)
       THEN /\ installation' = [version |-> syncing[h].version,
                                revision |-> IF installation = None THEN 0
                                             ELSE installation.revision + 1]
            /\ syncing' = [syncing EXCEPT ![h] = [at |-> "synced", version |-> @.version, seen |-> None]]
       ELSE /\ syncing' = [syncing EXCEPT ![h] = [at |-> "start", version |-> @.version, seen |-> None]]
            /\ UNCHANGED installation
    /\ UNCHANGED <<document, shown, change, userLock, userActive>>

\* A process of another release starts; what it had begun is lost.
StartRelease(h, v) ==
    /\ syncing[h].version # v
    /\ installation # None => installation.revision < MaxDocRevision
    /\ syncing' = [syncing EXCEPT ![h] = [at |-> "start", version |-> v, seen |-> None]]
    /\ UNCHANGED <<installation, document, shown, change, userLock, userActive>>

(***************************************************************************)
(* Documents                                                               *)
(***************************************************************************)

\* GET: the page keeps the revision for a later PUT, or that there is none.
ShowDocument(c, d) ==
    /\ change[c] = NoChange /\ userActive /\ installation # None
    /\ shown' = [shown EXCEPT ![c] = [name |-> d, row |-> document[d]]]
    /\ UNCHANGED <<installation, syncing, document, change, userLock, userActive>>

Expected(c) == IF shown[c].row = None THEN None ELSE shown[c].row.revision

LockNothing(c, op, v) ==
    /\ shown[c] # None /\ change[c] = NoChange
    /\ op = "put" /\ v \in Values(shown[c].name)
    /\ userActive
    /\ userLock' = c
    /\ change' = [change EXCEPT ![c] = [at |-> "locked", op |-> op, value |-> v]]
    /\ UNCHANGED <<installation, syncing, document, shown, userActive>>

LockUser(c, op, v) ==
    /\ shown[c] # None /\ change[c] = NoChange
    /\ op = "put" => v \in Values(shown[c].name)
    /\ op # "put" => v = None /\ shown[c].row # None
    /\ op = "revoke" <=> op # "put" /\ shown[c].name = "grant"
    /\ op = "delete" => shown[c].name \in PairKeys
    /\ userLock = None /\ userActive
    /\ userLock' = c
    /\ change' = [change EXCEPT ![c] = [at |-> "locked", op |-> op, value |-> v]]
    /\ UNCHANGED <<installation, syncing, document, shown, userActive>>

Pairs == {k \in PairKeys : document[k] # None}

Total(keys) == MapThenSumSet(LAMBDA k : document[k].value, keys)

\* The new value counts instead of the one it replaces.
WithinQuota(d, size) ==
    /\ Cardinality(Pairs \cup {d}) <= MaxPairs
    /\ Total(Pairs \ {d}) + size <= MaxTotal

\* The checks of the transaction on the row it reads.
Accepted(c) ==
    LET d == shown[c].name
        row == document[d]
    IN  /\ installation # None
        /\ IF row = None THEN Expected(c) = None /\ change[c].op = "put"
           ELSE Expected(c) = row.revision
        /\ change[c].op = "put" /\ d \in PairKeys => WithinQuota(d, change[c].value)

CheckChange(c) ==
    /\ change[c].at = "locked"
    /\ IF Accepted(c)
       THEN change' = [change EXCEPT ![c] = [at |-> "checked", op |-> change[c].op, value |-> change[c].value,
                                             row |-> document[shown[c].name]]]
            /\ UNCHANGED userLock
       ELSE change' = [change EXCEPT ![c] = NoChange] /\ userLock' = None
    /\ UNCHANGED <<installation, syncing, document, shown, userActive>>

\* A put also makes a revoked grant active again; a revoked grant is not
\* revoked twice.
Changed(c) ==
    LET row == change[c].row
        next == IF row = None THEN 0 ELSE row.revision + 1
    IN  CASE change[c].op = "put" -> [value |-> change[c].value, revision |-> next]
          [] change[c].op = "delete" -> None
          [] OTHER -> IF row.value = None THEN row ELSE [value |-> None, revision |-> next]

RowUnchanged(c) ==
    LET row == document[shown[c].name] IN
    IF change[c].row = None THEN row = None ELSE row # None /\ row.revision = change[c].row.revision

\* The write names the revision once more; the commit frees the user's row and
\* answers with the new one.
CommitChange(c) ==
    LET d == shown[c].name IN
    /\ change[c].at = "checked"
    /\ change[c].row # None => change[c].row.revision < MaxDocRevision
    /\ IF RowUnchanged(c)
       THEN /\ document' = [document EXCEPT ![d] = Changed(c)]
            /\ shown' = [shown EXCEPT ![c] = [name |-> d, row |-> Changed(c)]]
       ELSE UNCHANGED <<document, shown>>
    /\ change' = [change EXCEPT ![c] = NoChange]
    /\ userLock' = None
    /\ UNCHANGED <<installation, syncing, userActive>>

\* The database fails, or the client goes away: the transaction is rolled back.
DropChange(c) ==
    /\ change[c] # NoChange
    /\ change' = [change EXCEPT ![c] = NoChange]
    /\ userLock' = None
    /\ UNCHANGED <<installation, syncing, document, shown, userActive>>

\* An operator disables the account, or enables it again.
SetAccount ==
    /\ userLock = None
    /\ userActive' = ~userActive
    /\ UNCHANGED <<installation, syncing, document, shown, change, userLock>>

RegistryInit ==
    /\ installation = None
    /\ \E v \in Bundles : syncing = [h \in Hosts |-> [at |-> "start", version |-> v, seen |-> None]]
    /\ document = [d \in Documents |-> None]
    /\ shown = [c \in Clients |-> None]
    /\ change = [c \in Clients |-> NoChange]
    /\ userLock = None
    /\ userActive = TRUE

SyncNext ==
    \E h \in Hosts : ReadInstallation(h) \/ WriteInstallation(h) \/ \E v \in Bundles : StartRelease(h, v)

Change(c) ==
    \/ \E v \in Sizes \cup Settings : LockUser(c, "put", v)
    \/ LockUser(c, "revoke", None)
    \/ LockUser(c, "delete", None)
    \/ CheckChange(c)
    \/ CommitChange(c)
    \/ DropChange(c)

RegistryNext ==
    \/ SyncNext
    \/ \E c \in Clients : Change(c) \/ \E d \in Documents : ShowDocument(c, d)
    \/ SetAccount

(***************************************************************************)
(* Properties                                                              *)
(***************************************************************************)

RegistryTypeOK ==
    /\ installation \in {None} \cup Installation
    /\ \A h \in Hosts : syncing[h].at \in {"start", "write", "synced"} /\ syncing[h].version \in Bundles
    /\ \A d \in Documents : document[d] \in {None} \cup [value : {None} \cup Values(d), revision : Nat]
    /\ userLock \in {None} \cup Clients /\ userActive \in BOOLEAN
    /\ \A c \in Clients : change[c] # NoChange <=> userLock = c

\* The pairs of a user never exceed their number and their total size.
QuotaHolds == Cardinality(Pairs) <= MaxPairs /\ Total(Pairs) <= MaxTotal

\* A configuration or a grant is only replaced, and a grant only revoked, by a
\* client whose page shows the very row that goes.
DocumentEditsBuild ==
    [][\A d \in {"config", "grant"} :
          document[d] # None /\ document'[d] # document[d] =>
              \E c \in Clients : shown[c] = [name |-> d, row |-> document[d]]]_registryVars
===============================================================================
