------------------------------- MODULE Providers -------------------------------
(***************************************************************************)
(* The AI providers of one user and the pages that edit them.              *)
(* content/provider/repository.rs and the handlers of api/ai/providers.rs. *)
(*                                                                         *)
(* A row holds a kind, a model (which stands for the endpoint, the         *)
(* capabilities, the policy and the name as well), whether it is enabled,  *)
(* the credential, encrypted for one kind (the kind is authenticated with  *)
(* the ciphertext), and a revision.  An update reads the row and writes it *)
(* back in one transaction that holds no lock between the two.             *)
(***************************************************************************)
EXTENDS Integers, FiniteSets, Absence

CONSTANTS
    ProviderIds,      \* ids, drawn at random by an insertion
    Kinds,            \* APIs a provider may speak
    Models,
    Editors,          \* pages that edit providers
    ProviderLimit,    \* 32 of one user
    MaxProviderRevision \* bound

ASSUME ProvidersAssumption ==
    /\ {ProviderLimit, MaxProviderRevision} \subseteq Nat
    /\ None \notin Kinds \cup Models \cup ProviderIds

Row == [kind : Kinds, model : Models, on : BOOLEAN, sealed : Kinds, revision : Nat]
Shown == [id : ProviderIds, row : Row]

ASSUME ProviderRowAssumption == None \notin Row \cup Shown

VARIABLES
    provider, \* the rows
    drawn,    \* the ids ever given out
    screen,   \* the provider an editor has on its page
    edit      \* what its request has done

providerVars == <<provider, drawn, screen, edit>>

NoEdit == [at |-> "none"]

Owned == {p \in ProviderIds : provider[p] # None}

\* Every provider the user can see, of which those of the instance have no
\* handler that would change them.
ShowProvider(e, p) ==
    /\ edit[e] = NoEdit
    /\ provider[p] # None
    /\ screen' = [screen EXCEPT ![e] = [id |-> p, row |-> provider[p]]]
    /\ UNCHANGED <<provider, drawn, edit>>

\* The limit is looked at before the transaction of the insertion.
CountProviders(e) ==
    /\ edit[e] = NoEdit
    /\ Cardinality(Owned) < ProviderLimit
    /\ edit' = [edit EXCEPT ![e] = [at |-> "create"]]
    /\ UNCHANGED <<provider, drawn, screen>>

InsertProvider(e, p, kind, model) ==
    /\ edit[e].at = "create"
    /\ p \notin drawn
    /\ drawn' = drawn \cup {p}
    /\ provider' = [provider EXCEPT ![p] = [kind |-> kind, model |-> model, on |-> TRUE,
                                            sealed |-> kind, revision |-> 0]]
    /\ edit' = [edit EXCEPT ![e] = NoEdit]
    /\ UNCHANGED screen

\* The request names the revision its page shows.
ReadsAsShown(e) ==
    LET p == screen[e].id IN
    provider[p] # None /\ provider[p].revision = screen[e].row.revision

\* A field the patch leaves out keeps its value.  A new credential is sealed for
\* the new kind; the stored one is opened with the old kind and sealed again
\* when the kind changes.
Patched(row, kind, model, on, credential) ==
    [kind |-> kind, model |-> model, on |-> on,
     sealed |-> IF credential \/ kind # row.kind THEN kind ELSE row.sealed,
     revision |-> row.revision + 1]

\* The read of the transaction.  A row that is gone or has another revision
\* ends the request.
BeginUpdate(e, kind, model, on, credential) ==
    /\ screen[e] # None /\ edit[e] = NoEdit
    /\ ReadsAsShown(e)
    /\ provider[screen[e].id].revision < MaxProviderRevision
    /\ edit' = [edit EXCEPT ![e] = [at |-> "update",
                             row |-> Patched(provider[screen[e].id], kind, model, on, credential)]]
    /\ UNCHANGED <<provider, drawn, screen>>

StillThere(e) == provider[screen[e].id] # None

\* The write carries the revision that was read in its condition.
StillRead(e) ==
    LET p == screen[e].id IN
    provider[p] # None /\ provider[p].revision + 1 = edit[e].row.revision

\* The answer is the row as it now is, which the page shows from then on.
WriteUpdate(e) ==
    /\ edit[e].at = "update"
    /\ IF StillRead(e)
       THEN /\ provider' = [provider EXCEPT ![screen[e].id] = edit[e].row]
            /\ screen' = [screen EXCEPT ![e].row = edit[e].row]
       ELSE UNCHANGED <<provider, screen>>
    /\ edit' = [edit EXCEPT ![e] = NoEdit]
    /\ UNCHANGED drawn

CheckDelete(e) ==
    /\ screen[e] # None /\ edit[e] = NoEdit
    /\ ReadsAsShown(e)
    /\ edit' = [edit EXCEPT ![e] = [at |-> "delete"]]
    /\ UNCHANGED <<provider, drawn, screen>>

\* No transaction: the deletion has its own condition on the revision.
DeleteProvider(e) ==
    /\ edit[e].at = "delete"
    /\ IF ReadsAsShown(e)
       THEN provider' = [provider EXCEPT ![screen[e].id] = None] /\ screen' = [screen EXCEPT ![e] = None]
       ELSE UNCHANGED <<provider, screen>>
    /\ edit' = [edit EXCEPT ![e] = NoEdit]
    /\ UNCHANGED drawn

\* A patch that is refused, no keyring, a database error or a client that went.
AbandonEdit(e) ==
    /\ edit[e] # NoEdit
    /\ edit' = [edit EXCEPT ![e] = NoEdit]
    /\ UNCHANGED <<provider, drawn, screen>>

ProvidersInit ==
    /\ provider = [p \in ProviderIds |-> None]
    /\ drawn = {}
    /\ screen = [e \in Editors |-> None]
    /\ edit = [e \in Editors |-> NoEdit]

Edits(e) ==
    \/ CountProviders(e)
    \/ \E p \in ProviderIds : ShowProvider(e, p)
    \/ \E p \in ProviderIds, kind \in Kinds, model \in Models : InsertProvider(e, p, kind, model)
    \/ \E kind \in Kinds, model \in Models, on, credential \in BOOLEAN :
           BeginUpdate(e, kind, model, on, credential)
    \/ WriteUpdate(e)
    \/ CheckDelete(e)
    \/ DeleteProvider(e)
    \/ AbandonEdit(e)

ProvidersNext == \E e \in Editors : Edits(e)

\* load_binding: a user's worker or page reads an enabled row and opens its
\* credential, which fails as corrupt data unless it is sealed for that kind.
Opens(p) == provider[p] # None /\ provider[p].on /\ provider[p].sealed = provider[p].kind

(***************************************************************************)
(* Properties                                                              *)
(***************************************************************************)

ProvidersTypeOK ==
    /\ provider \in [ProviderIds -> {None} \cup Row] /\ Owned \subseteq drawn
    /\ screen \in [Editors -> {None} \cup Shown]
    /\ \A e \in Editors : edit[e].at \in {"none", "create", "update", "delete"}

\* Whatever edits are interleaved, the credential of a row can be opened.
CredentialsOpen == \A p \in Owned : provider[p].sealed = provider[p].kind

\* A provider is only changed or deleted by an editor whose page shows the very
\* row that goes: no edit overwrites one its author has not seen.
ProviderEditsBuild ==
    [][\A p \in Owned : provider'[p] # provider[p] =>
          \E e \in Editors : screen[e] = [id |-> p, row |-> provider[p]]]_providerVars
===============================================================================
