-------------------------- MODULE AiExecutionProofs --------------------------
(***************************************************************************)
(* What the rows behind AI content keep, for any number of editors,        *)
(* clients, processes and providers: the providers (Providers), the        *)
(* documents of the plugin (PluginRegistry), and the attempts that read    *)
(* both (AiExecution).                                                     *)
(***************************************************************************)
EXTENDS AiExecution, FiniteSetTheorems, WellFoundedInduction, TLAPS

-----------------------------------------------------------------------------
(* Providers                                                               *)

Edit == {NoEdit} \cup [at : {"create", "delete"}] \cup [at : {"update"}, row : Row]

ProvidersShape ==
    /\ provider \in [ProviderIds -> {None} \cup Row] /\ Owned \subseteq drawn
    /\ screen \in [Editors -> {None} \cup Shown]
    /\ edit \in [Editors -> Edit]

\* What a page shows of a row that is still there, or was replaced since.
ShownBefore(e) ==
    LET p == screen[e].id
    IN  /\ p \in drawn
        /\ provider[p] # None =>
              /\ screen[e].row.revision <= provider[p].revision
              /\ screen[e].row.revision = provider[p].revision => screen[e].row = provider[p]

\* An update replaces the row that its page shows by one with the next revision.
UpdatesShown(e) ==
    /\ screen[e] # None
    /\ edit[e].row.revision = screen[e].row.revision + 1
    /\ edit[e].row.sealed = edit[e].row.kind

ProvidersInv ==
    /\ ProvidersShape
    /\ CredentialsOpen
    /\ \A e \in Editors : screen[e] # None => ShownBefore(e)
    /\ \A e \in Editors : edit[e].at = "update" => UpdatesShown(e)
    /\ \A e \in Editors : edit[e].at = "delete" => screen[e] # None

\* The kinds of an edit by its label.
LEMMA EditLabels ==
    ASSUME NEW x \in Edit
    PROVE  /\ x.at \in {"none", "create", "update", "delete"}
           /\ x.at = "update" => x.row \in Row
           /\ x = NoEdit <=> x.at = "none"
BY DEF Edit, NoEdit

\* A page shows a row, a row has columns.
LEMMA RowsShown ==
    ASSUME ProvidersShape
    PROVE  /\ \A p \in ProviderIds : provider[p] # None => /\ provider[p] \in Row /\ p \in drawn
                                                           /\ provider[p].revision \in Nat
           /\ \A e \in Editors : screen[e] # None =>
                 /\ screen[e] \in Shown /\ screen[e].id \in ProviderIds
                 /\ screen[e].row \in Row /\ screen[e].row.revision \in Nat
                 /\ screen[e] = [id |-> screen[e].id, row |-> screen[e].row]
BY DEF ProvidersShape, Owned, Row, Shown

\* There is no provider at first.
LEMMA ProvidersStart == ProvidersInit => ProvidersInv
BY DEF ProvidersInit, ProvidersInv, ProvidersShape, CredentialsOpen, Owned, Edit, NoEdit

\* Reads, checks and refusals only change what an editor has done.
LEMMA ReadsKeep ==
    ASSUME ProvidersInv, NEW e \in Editors,
           CountProviders(e) \/ CheckDelete(e) \/ AbandonEdit(e)
    PROVE  ProvidersInv'
<1>1. /\ UNCHANGED <<provider, drawn, screen>>
      /\ \E x \in Edit : /\ edit' = [edit EXCEPT ![e] = x] /\ x.at \in {"none", "create", "delete"}
                         /\ x.at = "delete" => screen[e] # None
  BY DEF CountProviders, CheckDelete, AbandonEdit, Edit, NoEdit
<1>2. PICK x \in Edit : /\ edit' = [edit EXCEPT ![e] = x] /\ x.at \in {"none", "create", "delete"}
                        /\ x.at = "delete" => screen[e] # None
  BY <1>1
<1>3. edit' \in [Editors -> Edit]
  BY <1>2 DEF ProvidersInv, ProvidersShape
<1>4. edit'[e] = x /\ \A d \in Editors \ {e} : edit'[d] = edit[d]
  BY <1>2 DEF ProvidersInv, ProvidersShape
<1>5. ProvidersShape' /\ CredentialsOpen'
  BY <1>1, <1>3 DEF ProvidersInv, ProvidersShape, CredentialsOpen, Owned
<1>6. \A d \in Editors : screen'[d] # None => ShownBefore(d)'
  BY <1>1 DEF ProvidersInv, ShownBefore
<1>7. ASSUME NEW d \in Editors
      PROVE  /\ edit'[d].at = "update" => UpdatesShown(d)'
             /\ edit'[d].at = "delete" => screen'[d] # None
  BY <1>1, <1>2, <1>4 DEF ProvidersInv, UpdatesShown
<1> QED
  BY <1>5, <1>6, <1>7 DEF ProvidersInv

\* A page that is shown has the row as it is.
LEMMA ShowKeeps ==
    ASSUME ProvidersInv, NEW e \in Editors, NEW p \in ProviderIds, ShowProvider(e, p)
    PROVE  ProvidersInv'
<1> DEFINE x == [id |-> p, row |-> provider[p]]
<1>1. /\ edit[e] = NoEdit /\ provider[p] # None
      /\ screen' = [screen EXCEPT ![e] = x]
      /\ UNCHANGED <<provider, drawn, edit>>
  BY DEF ShowProvider
<1>2. provider[p] \in Row /\ p \in drawn /\ provider[p].revision \in Nat
  BY <1>1, RowsShown DEF ProvidersInv
<1>3. x \in Shown /\ x.id = p /\ x.row = provider[p]
  BY <1>2 DEF Shown
<1> HIDE DEF x
<1>4. /\ screen' \in [Editors -> {None} \cup Shown]
      /\ screen'[e] = x /\ \A d \in Editors \ {e} : screen'[d] = screen[d]
  BY <1>1, <1>3 DEF ProvidersInv, ProvidersShape
<1>5. ProvidersShape' /\ CredentialsOpen'
  BY <1>1, <1>4 DEF ProvidersInv, ProvidersShape, CredentialsOpen, Owned
<1>6. ShownBefore(e)'
  BY <1>1, <1>2, <1>3, <1>4 DEF ShownBefore
<1>7. \A d \in Editors \ {e} : screen'[d] # None => ShownBefore(d)'
  BY <1>1, <1>4 DEF ProvidersInv, ShownBefore
<1>8. edit[e].at = "none"
  BY <1>1 DEF NoEdit
<1>9. ASSUME NEW d \in Editors
      PROVE  /\ edit'[d].at = "update" => UpdatesShown(d)'
             /\ edit'[d].at = "delete" => screen'[d] # None
  BY <1>1, <1>4, <1>8 DEF ProvidersInv, UpdatesShown
<1> QED
  BY <1>5, <1>6, <1>7, <1>9 DEF ProvidersInv

\* A new row has an id that no page can show.
LEMMA InsertKeeps ==
    ASSUME ProvidersInv, NEW e \in Editors, NEW p \in ProviderIds, NEW kind \in Kinds,
           NEW model \in Models, InsertProvider(e, p, kind, model)
    PROVE  ProvidersInv'
<1> DEFINE row == [kind |-> kind, model |-> model, on |-> TRUE, sealed |-> kind, revision |-> 0]
<1>1. /\ p \notin drawn /\ drawn' = drawn \cup {p}
      /\ provider' = [provider EXCEPT ![p] = row]
      /\ edit' = [edit EXCEPT ![e] = NoEdit]
      /\ UNCHANGED screen
  BY DEF InsertProvider
<1>2. row \in Row /\ row.sealed = row.kind
  BY DEF Row
<1> HIDE DEF row
<1>3. /\ provider' \in [ProviderIds -> {None} \cup Row]
      /\ provider'[p] = row /\ \A q \in ProviderIds \ {p} : provider'[q] = provider[q]
  BY <1>1, <1>2 DEF ProvidersInv, ProvidersShape
<1>4. /\ edit' \in [Editors -> Edit]
      /\ edit'[e] = NoEdit /\ \A d \in Editors \ {e} : edit'[d] = edit[d]
  BY <1>1 DEF ProvidersInv, ProvidersShape, Edit
<1>5. Owned' \subseteq drawn'
  BY <1>1, <1>3 DEF ProvidersInv, ProvidersShape, Owned
<1>6. ProvidersShape'
  BY <1>1, <1>3, <1>4, <1>5 DEF ProvidersInv, ProvidersShape
<1>7. CredentialsOpen'
  BY <1>2, <1>3 DEF ProvidersInv, CredentialsOpen, Owned
<1>8. \A d \in Editors : screen'[d] # None => ShownBefore(d)'
  <2> SUFFICES ASSUME NEW d \in Editors, screen[d] # None
               PROVE  ShownBefore(d)'
    BY <1>1
  <2>1. ShownBefore(d) /\ screen[d].id \in ProviderIds
    BY RowsShown DEF ProvidersInv
  <2>2. screen[d].id # p
    BY <1>1, <2>1 DEF ShownBefore
  <2> QED
    BY <1>1, <1>3, <2>1, <2>2 DEF ShownBefore
<1>9. ASSUME NEW d \in Editors
      PROVE  /\ edit'[d].at = "update" => UpdatesShown(d)'
             /\ edit'[d].at = "delete" => screen'[d] # None
  BY <1>1, <1>4 DEF ProvidersInv, UpdatesShown, NoEdit
<1> QED
  BY <1>6, <1>7, <1>8, <1>9 DEF ProvidersInv

\* An update is computed from the row that the page shows.
LEMMA BeginKeeps ==
    ASSUME ProvidersInv, NEW e \in Editors, NEW kind \in Kinds, NEW model \in Models,
           NEW on \in BOOLEAN, NEW credential \in BOOLEAN,
           BeginUpdate(e, kind, model, on, credential)
    PROVE  ProvidersInv'
<1> DEFINE p == screen[e].id
           row == Patched(provider[p], kind, model, on, credential)
           x == [at |-> "update", row |-> row]
<1>1. /\ screen[e] # None /\ provider[p] # None
      /\ provider[p].revision = screen[e].row.revision
      /\ edit' = [edit EXCEPT ![e] = x]
      /\ UNCHANGED <<provider, drawn, screen>>
  BY DEF BeginUpdate, ReadsAsShown
<1>2. p \in ProviderIds /\ provider[p] \in Row /\ provider[p].sealed = provider[p].kind
  BY <1>1, RowsShown DEF ProvidersInv, CredentialsOpen, Owned
<1>3. row = [kind |-> kind, model |-> model, on |-> on,
             sealed |-> IF credential \/ kind # provider[p].kind THEN kind ELSE provider[p].sealed,
             revision |-> provider[p].revision + 1]
  BY DEF Patched
<1> HIDE DEF row
<1>4. row.sealed = row.kind /\ row.revision = screen[e].row.revision + 1
  BY <1>1, <1>2, <1>3
<1>5. row \in Row
  <2>1. provider[p].revision + 1 \in Nat /\ provider[p].sealed \in Kinds
    BY <1>2 DEF Row
  <2> QED
    BY <1>3, <2>1 DEF Row
<1>6. x \in Edit /\ x.at = "update" /\ x.row = row
  BY <1>5 DEF Edit
<1> HIDE DEF x
<1>7. edit' \in [Editors -> Edit]
  BY <1>1, <1>6 DEF ProvidersInv, ProvidersShape
<1>8. edit'[e] = x /\ \A d \in Editors \ {e} : edit'[d] = edit[d]
  BY <1>1 DEF ProvidersInv, ProvidersShape
<1>9. ProvidersShape' /\ CredentialsOpen'
  BY <1>1, <1>7 DEF ProvidersInv, ProvidersShape, CredentialsOpen, Owned
<1>10. \A d \in Editors : screen'[d] # None => ShownBefore(d)'
  BY <1>1 DEF ProvidersInv, ShownBefore
<1>11. ASSUME NEW d \in Editors
       PROVE  /\ edit'[d].at = "update" => UpdatesShown(d)'
              /\ edit'[d].at = "delete" => screen'[d] # None
  BY <1>1, <1>4, <1>6, <1>8 DEF ProvidersInv, UpdatesShown
<1> QED
  BY <1>9, <1>10, <1>11 DEF ProvidersInv

\* A write that meets the row its request has read shows the new one, which no
\* other page has seen.
LEMMA WriteKeeps ==
    ASSUME ProvidersInv, NEW e \in Editors, WriteUpdate(e)
    PROVE  ProvidersInv'
<1> DEFINE p == screen[e].id
           row == edit[e].row
<1>1. /\ edit[e].at = "update" /\ UNCHANGED drawn
      /\ edit' = [edit EXCEPT ![e] = NoEdit]
  BY DEF WriteUpdate
<1>2. /\ screen[e] # None /\ row \in Row /\ row.sealed = row.kind
      /\ row.revision = screen[e].row.revision + 1
  BY <1>1, EditLabels DEF ProvidersInv, ProvidersShape, UpdatesShown
<1>3. /\ edit' \in [Editors -> Edit]
      /\ edit'[e] = NoEdit /\ \A d \in Editors \ {e} : edit'[d] = edit[d]
  BY <1>1 DEF ProvidersInv, ProvidersShape, Edit
<1>4. p \in ProviderIds /\ p \in drawn /\ screen[e] = [id |-> p, row |-> screen[e].row]
  BY <1>2, RowsShown DEF ProvidersInv, ShownBefore
<1>5. CASE StillRead(e)
  <2> DEFINE x == [id |-> p, row |-> row]
  <2>1. /\ provider[p] # None /\ provider[p].revision + 1 = row.revision
        /\ provider' = [provider EXCEPT ![p] = row]
        /\ screen' = [screen EXCEPT ![e] = [screen[e] EXCEPT !.row = row]]
    BY <1>5 DEF WriteUpdate, StillRead
  <2>2. [screen[e] EXCEPT !.row = row] = x
    BY <1>4
  <2>3. x \in Shown /\ x.id = p /\ x.row = row
    BY <1>2, <1>4 DEF Shown
  <2> HIDE DEF x
  <2>4. /\ screen' \in [Editors -> {None} \cup Shown]
        /\ screen'[e] = x /\ \A d \in Editors \ {e} : screen'[d] = screen[d]
    BY <2>1, <2>2, <2>3 DEF ProvidersInv, ProvidersShape
  <2>5. /\ provider' \in [ProviderIds -> {None} \cup Row]
        /\ provider'[p] = row /\ \A q \in ProviderIds \ {p} : provider'[q] = provider[q]
    BY <1>2, <1>4, <2>1 DEF ProvidersInv, ProvidersShape
  <2> HIDE DEF row
  <2>6. Owned' \subseteq drawn'
    BY <1>1, <1>4, <2>5 DEF ProvidersInv, ProvidersShape, Owned
  <2>7. ProvidersShape'
    BY <1>3, <2>4, <2>5, <2>6 DEF ProvidersInv, ProvidersShape
  <2>8. CredentialsOpen'
    BY <1>2, <2>5 DEF ProvidersInv, CredentialsOpen, Owned
  <2>9. row.revision \in Nat /\ provider[p].revision \in Nat
        /\ provider[p].revision < row.revision
    BY <1>2, <1>4, <2>1, RowsShown DEF ProvidersInv, Row
  <2>10. ASSUME NEW d \in Editors, screen'[d] # None
         PROVE  ShownBefore(d)'
    <3>1. CASE d = e
      BY <1>1, <1>4, <2>3, <2>4, <2>5, <2>9, <3>1 DEF ShownBefore
    <3>2. CASE d # e
      <4>1. /\ ShownBefore(d) /\ screen'[d] = screen[d] /\ screen[d].id \in ProviderIds
            /\ screen[d].row.revision \in Nat
        BY <2>4, <2>10, <3>2, RowsShown DEF ProvidersInv
      <4>2. CASE screen[d].id = p
        <5>1. screen[d].row.revision < row.revision
          BY <2>1, <2>9, <4>1, <4>2 DEF ShownBefore
        <5> QED
          BY <1>1, <2>5, <2>9, <4>1, <4>2, <5>1 DEF ShownBefore
      <4>3. CASE screen[d].id # p
        BY <1>1, <2>5, <4>1, <4>3 DEF ShownBefore
      <4> QED
        BY <4>2, <4>3
    <3> QED
      BY <3>1, <3>2
  <2>11. ASSUME NEW d \in Editors
         PROVE  /\ edit'[d].at = "update" => UpdatesShown(d)'
                /\ edit'[d].at = "delete" => screen'[d] # None
    BY <1>3, <2>4 DEF ProvidersInv, UpdatesShown, NoEdit
  <2> QED
    BY <2>7, <2>8, <2>10, <2>11 DEF ProvidersInv
<1>6. CASE ~StillRead(e)
  <2>1. UNCHANGED <<provider, screen, drawn>>
    BY <1>1, <1>6 DEF WriteUpdate
  <2>2. ProvidersShape' /\ CredentialsOpen'
    BY <1>3, <2>1 DEF ProvidersInv, ProvidersShape, CredentialsOpen, Owned
  <2>3. \A d \in Editors : screen'[d] # None => ShownBefore(d)'
    BY <2>1 DEF ProvidersInv, ShownBefore
  <2>4. ASSUME NEW d \in Editors
        PROVE  /\ edit'[d].at = "update" => UpdatesShown(d)'
               /\ edit'[d].at = "delete" => screen'[d] # None
    BY <1>3, <2>1 DEF ProvidersInv, UpdatesShown, NoEdit
  <2> QED
    BY <2>2, <2>3, <2>4 DEF ProvidersInv
<1> QED
  BY <1>5, <1>6

\* A deletion leaves the ids that were drawn.
LEMMA DeleteKeeps ==
    ASSUME ProvidersInv, NEW e \in Editors, DeleteProvider(e)
    PROVE  ProvidersInv'
<1> DEFINE p == screen[e].id
<1>1. /\ edit[e].at = "delete" /\ UNCHANGED drawn
      /\ edit' = [edit EXCEPT ![e] = NoEdit]
  BY DEF DeleteProvider
<1>2. screen[e] # None /\ p \in ProviderIds
  BY <1>1, RowsShown DEF ProvidersInv
<1>3. /\ edit' \in [Editors -> Edit]
      /\ edit'[e] = NoEdit /\ \A d \in Editors \ {e} : edit'[d] = edit[d]
  BY <1>1 DEF ProvidersInv, ProvidersShape, Edit
<1>4. \/ UNCHANGED <<provider, screen>>
      \/ provider' = [provider EXCEPT ![p] = None] /\ screen' = [screen EXCEPT ![e] = None]
  BY DEF DeleteProvider
<1>5. /\ provider' \in [ProviderIds -> {None} \cup Row]
      /\ \A q \in ProviderIds : provider'[q] # None => provider'[q] = provider[q]
  BY <1>2, <1>4 DEF ProvidersInv, ProvidersShape
<1>6. /\ screen' \in [Editors -> {None} \cup Shown]
      /\ \A d \in Editors : screen'[d] # None => screen'[d] = screen[d]
      /\ \A d \in Editors \ {e} : screen'[d] = screen[d]
  BY <1>4 DEF ProvidersInv, ProvidersShape
<1>7. ProvidersShape' /\ CredentialsOpen'
  BY <1>1, <1>3, <1>5, <1>6 DEF ProvidersInv, ProvidersShape, CredentialsOpen, Owned
<1>8. ASSUME NEW d \in Editors, screen'[d] # None
      PROVE  ShownBefore(d)'
  <2>1. screen'[d] = screen[d] /\ ShownBefore(d) /\ screen[d].id \in ProviderIds
    BY <1>6, <1>8, RowsShown DEF ProvidersInv
  <2> QED
    BY <1>1, <1>5, <2>1 DEF ShownBefore
<1>9. ASSUME NEW d \in Editors
      PROVE  /\ edit'[d].at = "update" => UpdatesShown(d)'
             /\ edit'[d].at = "delete" => screen'[d] # None
  BY <1>3, <1>6 DEF ProvidersInv, UpdatesShown, NoEdit
<1> QED
  BY <1>7, <1>8, <1>9 DEF ProvidersInv

\* Every step of an editor keeps pages and rows together.
THEOREM ProvidersStep == ProvidersInv /\ [ProvidersNext]_providerVars => ProvidersInv'
<1>1. ProvidersInv /\ UNCHANGED providerVars => ProvidersInv'
  BY DEF providerVars, ProvidersInv, ProvidersShape, CredentialsOpen, Owned, ShownBefore, UpdatesShown
<1> QED
  BY <1>1, ReadsKeep, ShowKeeps, InsertKeeps, BeginKeeps, WriteKeeps, DeleteKeeps
     DEF ProvidersNext, Edits

\* A row that changes or goes is the one on the page of the editor who does it.
LEMMA EditsBuildStep ==
    ASSUME ProvidersInv, [ProvidersNext]_providerVars, NEW p \in Owned, provider'[p] # provider[p]
    PROVE  \E e \in Editors : screen[e] = [id |-> p, row |-> provider[p]]
<1>1. p \in ProviderIds /\ provider[p] # None /\ p \in drawn
  BY DEF ProvidersInv, ProvidersShape, Owned
<1>2. PICK e \in Editors : Edits(e)
  BY DEF ProvidersNext, providerVars
<1>3. CASE WriteUpdate(e)
  <2>1. edit[e].at = "update" /\ StillRead(e) /\ provider' = [provider EXCEPT ![screen[e].id] = edit[e].row]
    BY <1>3 DEF WriteUpdate
  <2>2. UpdatesShown(e) /\ ShownBefore(e) /\ p = screen[e].id
    BY <1>1, <2>1 DEF ProvidersInv, ProvidersShape, UpdatesShown
  <2>3. screen[e].row = provider[p]
    <3>1. provider[p].revision + 1 = screen[e].row.revision + 1
      BY <2>1, <2>2 DEF UpdatesShown, StillRead
    <3>2. provider[p].revision \in Nat /\ screen[e].row.revision \in Nat
      BY <1>1, <2>2, RowsShown DEF ProvidersInv, UpdatesShown
    <3> QED
      BY <1>1, <2>2, <3>1, <3>2 DEF ShownBefore
  <2> QED
    BY <2>2, <2>3, RowsShown DEF ProvidersInv, UpdatesShown
<1>4. CASE DeleteProvider(e)
  <2>1. /\ edit[e].at = "delete" /\ ReadsAsShown(e)
        /\ provider' = [provider EXCEPT ![screen[e].id] = None]
    BY <1>4 DEF DeleteProvider
  <2>2. screen[e] # None /\ ShownBefore(e) /\ p = screen[e].id
    BY <1>1, <2>1 DEF ProvidersInv, ProvidersShape
  <2>3. screen[e].row = provider[p]
    BY <2>1, <2>2 DEF ShownBefore, ReadsAsShown
  <2> QED
    BY <2>2, <2>3, RowsShown DEF ProvidersInv
<1>5. ASSUME NEW q \in ProviderIds, NEW kind \in Kinds, NEW model \in Models, InsertProvider(e, q, kind, model)
      PROVE  FALSE
  BY <1>1, <1>5 DEF InsertProvider, ProvidersInv, ProvidersShape
<1> QED
  BY <1>2, <1>3, <1>4, <1>5 DEF Edits, CountProviders, ShowProvider, BeginUpdate, CheckDelete, AbandonEdit

-----------------------------------------------------------------------------
(* The documents of the plugin                                             *)

Ops == {"put", "revoke", "delete"}
Contents == {None} \cup Sizes \cup Settings
Transaction ==
    {NoChange} \cup [at : {"locked"}, op : Ops, value : Contents]
    \cup [at : {"checked"}, op : Ops, value : Contents, row : {None} \cup DocumentRow]

Sync == [at : {"start", "write", "synced"}, version : Bundles, seen : {None} \cup Installation]

InstallationShape ==
    /\ installation \in {None} \cup Installation
    /\ syncing \in [Hosts -> Sync]

DocumentsShape ==
    /\ document \in [Documents -> {None} \cup DocumentRow]
    /\ shown \in [Clients -> {None} \cup Page]
    /\ change \in [Clients -> Transaction]
    /\ userLock \in {None} \cup Clients /\ userActive \in BOOLEAN

\* A value belongs to its document; only a grant is ever without one.
DocumentValue(d) ==
    document[d] # None =>
        /\ document[d].value \in {None} \cup Values(d)
        /\ d # "grant" => document[d].value \in Values(d)

LocksUser == \A c \in Clients : change[c] # NoChange <=> userLock = c

\* The request that a transaction carries out.
Requested(c) ==
    /\ shown[c] # None
    /\ change[c].op = "put" => change[c].value \in Values(shown[c].name)
    /\ change[c].op = "revoke" => shown[c].name = "grant"
    /\ change[c].op = "delete" => shown[c].name \in PairKeys

\* What it checked is still so, since it holds the user's row.
Checked(c) ==
    LET row == document[shown[c].name]
    IN  /\ change[c].row = row
        /\ row = None => change[c].op = "put"
        /\ row # None => shown[c].row # None /\ shown[c].row.revision = row.revision

\* A page of a document that is never deleted shows the document or an older one.
ShownDocument(c) ==
    LET d == shown[c].name
    IN  d \in {"config", "grant"} /\ shown[c].row # None =>
            /\ document[d] # None
            /\ shown[c].row.revision <= document[d].revision
            /\ shown[c].row.revision = document[d].revision => shown[c].row = document[d]

DocumentsInv ==
    /\ DocumentsShape
    /\ \A d \in Documents : DocumentValue(d)
    /\ LocksUser
    /\ \A c \in Clients : change[c] # NoChange => Requested(c)
    /\ \A c \in Clients : change[c].at = "checked" => Checked(c)
    /\ \A c \in Clients : shown[c] # None => ShownDocument(c)

RegistryInv == InstallationShape /\ DocumentsInv

\* The kinds of a transaction by its label.
LEMMA ChangeLabels ==
    ASSUME NEW x \in Transaction
    PROVE  /\ x.at \in {"none", "locked", "checked"}
           /\ x = NoChange <=> x.at = "none"
           /\ x # NoChange => x.op \in Ops /\ x.value \in Contents
           /\ x.at = "checked" => x.row \in {None} \cup DocumentRow
BY DEF Transaction, NoChange

\* What rows and pages consist of.
LEMMA DocumentsShown ==
    ASSUME DocumentsShape
    PROVE  /\ \A d \in Documents : document[d] # None =>
                 document[d] \in DocumentRow /\ document[d].revision \in Nat
           /\ \A c \in Clients : shown[c] # None =>
                 /\ shown[c] \in Page /\ shown[c].name \in Documents
                 /\ shown[c].row # None =>
                       shown[c].row \in DocumentRow /\ shown[c].row.revision \in Nat
                 /\ shown[c] = [name |-> shown[c].name, row |-> shown[c].row]
BY RegistryRowAssumption DEF DocumentsShape, DocumentRow, Page

\* Nothing is installed or stored at first.
LEMMA RegistryStart == RegistryInit => RegistryInv
<1> SUFFICES ASSUME RegistryInit
             PROVE  RegistryInv
  OBVIOUS
<1>1. InstallationShape
  BY DEF RegistryInit, InstallationShape, Sync
<1>2. DocumentsShape
  BY DEF RegistryInit, DocumentsShape, Transaction
<1>3. LocksUser
  BY RegistryAssumption DEF RegistryInit, LocksUser
<1> QED
  BY <1>1, <1>2, <1>3
     DEF RegistryInit, RegistryInv, DocumentsInv, DocumentValue, Requested, Checked, ShownDocument, NoChange

\* The installation and what a process has read of it.
LEMMA SyncKeeps ==
    ASSUME InstallationShape, NEW h \in Hosts,
           \/ ReadInstallation(h) \/ WriteInstallation(h)
           \/ \E v \in Bundles : StartRelease(h, v)
    PROVE  InstallationShape'
<1>1. syncing[h] \in Sync
  BY DEF InstallationShape
<1>2. CASE ReadInstallation(h)
  <2>1. PICK x \in Sync : syncing' = [syncing EXCEPT ![h] = x] /\ UNCHANGED installation
    <3> DEFINE x1 == [syncing[h] EXCEPT !.at = "synced"]
               x2 == [at |-> "write", version |-> syncing[h].version, seen |-> installation]
    <3>1. x1 \in Sync /\ x2 \in Sync
      BY <1>1 DEF InstallationShape, Sync
    <3>2. /\ syncing' = [syncing EXCEPT ![h] = x1] \/ syncing' = [syncing EXCEPT ![h] = x2]
          /\ UNCHANGED installation
      BY <1>2 DEF ReadInstallation
    <3> HIDE DEF x1, x2
    <3> QED
      BY <3>1, <3>2
  <2> QED
    BY <2>1 DEF InstallationShape
<1>3. CASE WriteInstallation(h)
  <2> DEFINE new == [version |-> syncing[h].version,
                     revision |-> IF installation = None THEN 0 ELSE installation.revision + 1]
             x1 == [at |-> "synced", version |-> syncing[h].version, seen |-> None]
             x2 == [at |-> "start", version |-> syncing[h].version, seen |-> None]
  <2>1. x1 \in Sync /\ x2 \in Sync /\ new \in Installation
    BY <1>1 DEF InstallationShape, Sync, Installation
  <2>2. /\ syncing' = [syncing EXCEPT ![h] = x1] \/ syncing' = [syncing EXCEPT ![h] = x2]
        /\ installation' = new \/ UNCHANGED installation
    BY <1>3 DEF WriteInstallation
  <2> HIDE DEF x1, x2, new
  <2> QED
    BY <2>1, <2>2 DEF InstallationShape
<1>4. ASSUME NEW v \in Bundles, StartRelease(h, v)
      PROVE  InstallationShape'
  <2> DEFINE x == [at |-> "start", version |-> v, seen |-> None]
  <2>1. x \in Sync /\ syncing' = [syncing EXCEPT ![h] = x] /\ UNCHANGED installation
    BY <1>4 DEF StartRelease, Sync
  <2> HIDE DEF x
  <2> QED
    BY <2>1 DEF InstallationShape
<1> QED
  BY <1>2, <1>3, <1>4

\* A page that is loaded has the document as it is; its client has no change.
LEMMA ShowDocumentKeeps ==
    ASSUME DocumentsInv, NEW c \in Clients, NEW d \in Documents, ShowDocument(c, d)
    PROVE  DocumentsInv'
<1> DEFINE x == [name |-> d, row |-> document[d]]
<1>1. /\ change[c] = NoChange
      /\ shown' = [shown EXCEPT ![c] = x]
      /\ UNCHANGED <<document, change, userLock, userActive>>
  BY DEF ShowDocument
<1>2. x \in Page /\ x.name = d /\ x.row = document[d]
  BY DEF DocumentsInv, DocumentsShape, Page
<1> HIDE DEF x
<1>3. /\ shown' \in [Clients -> {None} \cup Page]
      /\ shown'[c] = x /\ \A b \in Clients \ {c} : shown'[b] = shown[b]
  BY <1>1, <1>2 DEF DocumentsInv, DocumentsShape
<1>4. DocumentsShape' /\ LocksUser' /\ \A b \in Documents : DocumentValue(b)'
  BY <1>1, <1>3 DEF DocumentsInv, DocumentsShape, LocksUser, DocumentValue
<1>5. change[c].at = "none"
  BY <1>1 DEF NoChange
<1>6. ASSUME NEW b \in Clients
      PROVE  /\ change'[b] # NoChange => Requested(b)'
             /\ change'[b].at = "checked" => Checked(b)'
  BY <1>1, <1>3, <1>5 DEF DocumentsInv, Requested, Checked
<1>7. ASSUME NEW b \in Clients, shown'[b] # None
      PROVE  ShownDocument(b)'
  <2>1. CASE b = c
    BY <1>1, <1>2, <1>3, <2>1, DocumentsShown DEF DocumentsInv, ShownDocument
  <2>2. CASE b # c
    BY <1>1, <1>3, <1>7, <2>2 DEF DocumentsInv, ShownDocument
  <2> QED
    BY <2>1, <2>2
<1> QED
  BY <1>4, <1>6, <1>7 DEF DocumentsInv

\* A change of one client's transaction, while no page and no document changes.
LEMMA TransactionKeeps ==
    ASSUME DocumentsInv, NEW c \in Clients, NEW x \in Transaction,
           change' = [change EXCEPT ![c] = x],
           UNCHANGED <<document, shown, userActive>>,
           userLock' \in {None} \cup Clients, LocksUser',
           x # NoChange => Requested(c)', x.at = "checked" => Checked(c)'
    PROVE  DocumentsInv'
<1>1. /\ change' \in [Clients -> Transaction]
      /\ change'[c] = x /\ \A b \in Clients \ {c} : change'[b] = change[b]
  BY DEF DocumentsInv, DocumentsShape
<1>2. DocumentsShape' /\ \A d \in Documents : DocumentValue(d)'
  BY <1>1 DEF DocumentsInv, DocumentsShape, DocumentValue
<1>3. ASSUME NEW b \in Clients
      PROVE  /\ change'[b] # NoChange => Requested(b)'
             /\ change'[b].at = "checked" => Checked(b)'
  BY <1>1 DEF DocumentsInv, Requested, Checked
<1>4. \A b \in Clients : shown'[b] # None => ShownDocument(b)'
  BY DEF DocumentsInv, ShownDocument
<1> QED
  BY <1>2, <1>3, <1>4 DEF DocumentsInv

\* The lock of the user's row is taken when it is free.
LEMMA LockKeeps ==
    ASSUME DocumentsInv, NEW c \in Clients,
           \/ \E v \in Sizes \cup Settings : LockUser(c, "put", v)
           \/ LockUser(c, "revoke", None)
           \/ LockUser(c, "delete", None)
    PROVE  DocumentsInv'
<1>1. PICK op \in Ops, v \in Contents : LockUser(c, op, v)
  BY DEF Ops, Contents
<1> DEFINE x == [at |-> "locked", op |-> op, value |-> v]
<1>2. /\ shown[c] # None
      /\ op = "put" => v \in Values(shown[c].name)
      /\ op = "revoke" => shown[c].name = "grant"
      /\ op = "delete" => shown[c].name \in PairKeys
      /\ userLock = None /\ userLock' = c
      /\ change' = [change EXCEPT ![c] = x]
      /\ UNCHANGED <<document, shown, userActive>>
  BY <1>1 DEF LockUser
<1>3. /\ x \in Transaction /\ x # NoChange
      /\ x.at = "locked" /\ x.op = op /\ x.value = v
  BY DEF Transaction, NoChange
<1> HIDE DEF x
<1>4. change'[c] = x /\ \A b \in Clients \ {c} : change'[b] = change[b]
  BY <1>2 DEF DocumentsInv, DocumentsShape
<1>5. Requested(c)'
  BY <1>2, <1>3, <1>4 DEF Requested
<1>6. LocksUser'
  BY <1>2, <1>3, <1>4, RegistryAssumption DEF DocumentsInv, LocksUser
<1> QED
  BY <1>2, <1>3, <1>5, <1>6, TransactionKeeps

\* The checks of a transaction; one that is refused frees the user's row.
LEMMA CheckKeeps ==
    ASSUME DocumentsInv, NEW c \in Clients, CheckChange(c)
    PROVE  DocumentsInv'
<1> DEFINE row == document[shown[c].name]
           x == [at |-> "checked", op |-> change[c].op, value |-> change[c].value, row |-> row]
<1>1. change[c].at = "locked" /\ UNCHANGED <<document, shown, userActive>>
  BY DEF CheckChange
<1>2. /\ change[c] # NoChange /\ change[c].op \in Ops /\ change[c].value \in Contents
  BY <1>1, ChangeLabels DEF DocumentsInv, DocumentsShape
<1>3. Requested(c) /\ userLock = c /\ shown[c].name \in Documents
  BY <1>2, DocumentsShown DEF DocumentsInv, LocksUser, Requested
<1>4. CASE Accepted(c)
  <2>1. change' = [change EXCEPT ![c] = x] /\ UNCHANGED userLock
    BY <1>4 DEF CheckChange
  <2>2. row \in {None} \cup DocumentRow
    BY <1>3 DEF DocumentsInv, DocumentsShape
  <2>3. /\ x \in Transaction /\ x # NoChange
        /\ x.op = change[c].op /\ x.value = change[c].value /\ x.row = row
    BY <1>2, <2>2 DEF Transaction, NoChange
  <2>4. /\ row = None => change[c].op = "put"
        /\ row # None => shown[c].row # None /\ shown[c].row.revision = row.revision
    <3>1. row # None => row.revision \in Nat
      BY <1>3, DocumentsShown DEF DocumentsInv
    <3>2. row # None => Expected(c) = row.revision
      BY <1>4 DEF Accepted
    <3>3. row = None => change[c].op = "put"
      BY <1>4 DEF Accepted
    <3> HIDE DEF row
    <3> QED
      BY <3>1, <3>2, <3>3, RegistryAssumption DEF Expected
  <2> HIDE DEF x
  <2>5. change'[c] = x /\ \A b \in Clients \ {c} : change'[b] = change[b]
    BY <2>1 DEF DocumentsInv, DocumentsShape
  <2>6. Requested(c)' /\ Checked(c)'
    BY <1>1, <1>3, <2>3, <2>4, <2>5 DEF Requested, Checked
  <2>7. LocksUser'
    BY <1>2, <2>1, <2>3, <2>5 DEF DocumentsInv, LocksUser
  <2>8. userLock' \in {None} \cup Clients
    BY <2>1 DEF DocumentsInv, DocumentsShape
  <2> QED
    BY <1>1, <2>1, <2>3, <2>6, <2>7, <2>8, TransactionKeeps
<1>5. CASE ~Accepted(c)
  <2>1. change' = [change EXCEPT ![c] = NoChange] /\ userLock' = None
    BY <1>5 DEF CheckChange
  <2>2. NoChange \in Transaction /\ NoChange.at # "checked"
    BY DEF Transaction, NoChange
  <2>3. LocksUser'
    BY <1>3, <2>1, RegistryAssumption DEF DocumentsInv, DocumentsShape, LocksUser
  <2> QED
    BY <1>1, <2>1, <2>2, <2>3, TransactionKeeps
<1> QED
  BY <1>4, <1>5

\* A rollback frees the user's row.
LEMMA DropKeeps ==
    ASSUME DocumentsInv, NEW c \in Clients, DropChange(c)
    PROVE  DocumentsInv'
<1>1. /\ change[c] # NoChange /\ change' = [change EXCEPT ![c] = NoChange] /\ userLock' = None
      /\ UNCHANGED <<document, shown, userActive>>
  BY DEF DropChange
<1>2. NoChange \in Transaction /\ NoChange.at # "checked"
  BY DEF Transaction, NoChange
<1>3. LocksUser'
  BY <1>1, RegistryAssumption DEF DocumentsInv, DocumentsShape, LocksUser
<1> QED
  BY <1>1, <1>2, <1>3, TransactionKeeps

\* What a commit writes over the row that was checked.
LEMMA ChangedRow ==
    ASSUME DocumentsInv, NEW c \in Clients, change[c].at = "checked"
    PROVE  LET d == shown[c].name
               new == Changed(c)
           IN  /\ d \in Documents /\ new \in {None} \cup DocumentRow
               /\ new # None => /\ new.value \in {None} \cup Values(d)
                                /\ d # "grant" => new.value \in Values(d)
               /\ d \in {"config", "grant"} => new # None
               /\ document[d] # None /\ new # None => \/ new = document[d]
                                                      \/ document[d].revision < new.revision
<1> DEFINE d == shown[c].name
           row == document[d]
           next == IF row = None THEN 0 ELSE row.revision + 1
           new == Changed(c)
<1>1. /\ change[c].op \in Ops /\ change[c].row = row
      /\ row = None => change[c].op = "put"
      /\ shown[c] # None /\ d \in Documents
      /\ change[c].op = "put" => change[c].value \in Values(d)
      /\ change[c].op = "revoke" => d = "grant"
      /\ change[c].op = "delete" => d \in PairKeys
  BY ChangeLabels, DocumentsShown DEF DocumentsInv, DocumentsShape, Checked, Requested
<1>2. row # None => row \in DocumentRow /\ row.revision \in Nat /\ row.value \in {None} \cup Values(d)
  BY <1>1, DocumentsShown DEF DocumentsInv, DocumentValue
<1>3. next \in Nat /\ (row # None => row.revision < next)
  BY <1>2
<1>4. new = CASE change[c].op = "put" -> [value |-> change[c].value, revision |-> next]
              [] change[c].op = "delete" -> None
              [] OTHER -> IF row.value = None THEN row ELSE [value |-> None, revision |-> next]
  BY <1>1 DEF Changed
<1>5. Values(d) \subseteq Sizes \cup Settings /\ d \in {"config", "grant"} => d \notin PairKeys
  BY RegistryAssumption DEF Values
<1> HIDE DEF next, row, d, new
<1>6. CASE change[c].op = "put"
  <2>1. new = [value |-> change[c].value, revision |-> next]
    BY <1>4, <1>6
  <2>2. /\ new.value = change[c].value /\ new.revision = next
        /\ new \in DocumentRow /\ new # None
    BY <1>1, <1>3, <1>5, <1>6, <2>1, RegistryRowAssumption DEF DocumentRow, Values
  <2> QED
    BY <1>1, <1>3, <1>6, <2>2 DEF d, row, new
<1>7. CASE change[c].op = "delete"
  <2>1. new = None
    BY <1>4, <1>7
  <2> QED
    BY <1>1, <1>7, <2>1, RegistryAssumption DEF d, row, new
<1>8. CASE change[c].op = "revoke"
  <2>1. new = IF row.value = None THEN row ELSE [value |-> None, revision |-> next]
    BY <1>4, <1>8
  <2>2. row # None /\ d = "grant"
    BY <1>1, <1>8
  <2>3. CASE row.value = None
    BY <1>1, <1>2, <2>1, <2>2, <2>3 DEF d, row, new
  <2>4. CASE row.value # None
    <3>1. new = [value |-> None, revision |-> next]
      BY <2>1, <2>4
    <3>2. new.value = None /\ new.revision = next /\ new \in DocumentRow /\ new # None
      BY <1>3, <3>1, RegistryRowAssumption DEF DocumentRow
    <3> QED
      BY <1>1, <1>3, <2>2, <3>2 DEF d, row, new
  <2> QED
    BY <2>3, <2>4
<1> QED
  BY <1>1, <1>6, <1>7, <1>8 DEF Ops

\* A commit writes the next row of the document that its page shows; other pages
\* of that document are older by then.
LEMMA CommitKeeps ==
    ASSUME DocumentsInv, NEW c \in Clients, CommitChange(c)
    PROVE  DocumentsInv'
<1> DEFINE d == shown[c].name
           new == Changed(c)
           x == [name |-> d, row |-> new]
<1>1. /\ change[c].at = "checked" /\ change' = [change EXCEPT ![c] = NoChange]
      /\ userLock' = None /\ UNCHANGED userActive
  BY DEF CommitChange
<1>2. /\ change[c] # NoChange /\ userLock = c /\ shown[c] # None
      /\ \A b \in Clients \ {c} : change[b] = NoChange
  BY <1>1, ChangeLabels DEF DocumentsInv, LocksUser, DocumentsShape, Requested, NoChange
<1>3. /\ change' \in [Clients -> Transaction] /\ \A b \in Clients : change'[b] = NoChange
  BY <1>1, <1>2 DEF DocumentsInv, DocumentsShape, Transaction
<1>4. LocksUser'
  BY <1>1, <1>3, RegistryAssumption DEF LocksUser
<1>5. ASSUME NEW b \in Clients
      PROVE  /\ change'[b] # NoChange => Requested(b)'
             /\ change'[b].at = "checked" => Checked(b)'
  BY <1>3 DEF NoChange
<1>6. CASE RowUnchanged(c)
  <2>1. document' = [document EXCEPT ![d] = new] /\ shown' = [shown EXCEPT ![c] = x]
    BY <1>6 DEF CommitChange
  <2>2. /\ d \in Documents /\ new \in {None} \cup DocumentRow
        /\ new # None => /\ new.value \in {None} \cup Values(d)
                         /\ d # "grant" => new.value \in Values(d)
        /\ d \in {"config", "grant"} => new # None
        /\ document[d] # None /\ new # None => \/ new = document[d]
                                               \/ document[d].revision < new.revision
    BY <1>1, ChangedRow
  <2>3. new # None => new.revision \in Nat
    BY <2>2 DEF DocumentRow
  <2> HIDE DEF new
  <2>4. x \in Page /\ x.name = d /\ x.row = new
    BY <2>2 DEF Page
  <2> HIDE DEF x, d
  <2>5. /\ document' \in [Documents -> {None} \cup DocumentRow]
        /\ document'[d] = new /\ \A e \in Documents \ {d} : document'[e] = document[e]
    BY <2>1, <2>2 DEF DocumentsInv, DocumentsShape
  <2>6. /\ shown' \in [Clients -> {None} \cup Page]
        /\ shown'[c] = x /\ \A b \in Clients \ {c} : shown'[b] = shown[b]
    BY <2>1, <2>4 DEF DocumentsInv, DocumentsShape
  <2>7. DocumentsShape'
    BY <1>1, <1>3, <2>5, <2>6 DEF DocumentsInv, DocumentsShape
  <2>8. \A e \in Documents : DocumentValue(e)'
    BY <2>2, <2>5 DEF DocumentsInv, DocumentValue
  <2>9. ASSUME NEW b \in Clients, shown'[b] # None
        PROVE  ShownDocument(b)'
    <3>1. CASE b = c
      BY <2>2, <2>3, <2>4, <2>5, <2>6, <3>1 DEF ShownDocument
    <3>2. CASE b # c
      <4>1. shown'[b] = shown[b] /\ ShownDocument(b) /\ shown[b].name \in Documents
        BY <2>6, <2>9, <3>2, DocumentsShown DEF DocumentsInv
      <4>2. CASE shown[b].name # d
        BY <2>5, <4>1, <4>2 DEF ShownDocument
      <4>3. CASE shown[b].name = d
        <5> SUFFICES ASSUME d \in {"config", "grant"}, shown[b].row # None
                     PROVE  /\ shown[b].row.revision <= new.revision
                            /\ shown[b].row.revision = new.revision => shown[b].row = new
          BY <2>2, <2>5, <4>1, <4>3 DEF ShownDocument
        <5>1. /\ document[d] # None /\ shown[b].row.revision <= document[d].revision
              /\ shown[b].row.revision = document[d].revision => shown[b].row = document[d]
          BY <4>1, <4>3 DEF ShownDocument
        <5>2. shown[b].row.revision \in Nat /\ document[d].revision \in Nat
          BY <2>2, <2>9, <4>1, <5>1, DocumentsShown DEF DocumentsInv
        <5> QED
          BY <2>2, <2>3, <5>1, <5>2
      <4> QED
        BY <4>2, <4>3
    <3> QED
      BY <3>1, <3>2
  <2> QED
    BY <1>4, <1>5, <2>7, <2>8, <2>9 DEF DocumentsInv
<1>7. CASE ~RowUnchanged(c)
  <2>1. UNCHANGED <<document, shown>>
    BY <1>7 DEF CommitChange
  <2>2. DocumentsShape' /\ (\A e \in Documents : DocumentValue(e)')
        /\ \A b \in Clients : shown'[b] # None => ShownDocument(b)'
    BY <1>1, <1>3, <2>1 DEF DocumentsInv, DocumentsShape, DocumentValue, ShownDocument
  <2> QED
    BY <1>4, <1>5, <2>2 DEF DocumentsInv
<1> QED
  BY <1>6, <1>7

\* The documents do not depend on what processes install, nor on the account.
LEMMA DocumentsApart ==
    ASSUME DocumentsInv, UNCHANGED <<document, shown, change, userLock>>, userActive' \in BOOLEAN
    PROVE  DocumentsInv'
BY DEF DocumentsInv, DocumentsShape, DocumentValue, LocksUser, Requested, Checked, ShownDocument

\* The steps that leave the installation alone.
LEMMA ClientKeeps ==
    ASSUME DocumentsInv, NEW c \in Clients, Change(c) \/ \E d \in Documents : ShowDocument(c, d)
    PROVE  DocumentsInv' /\ UNCHANGED <<installation, syncing>>
<1>1. CASE \E v \in Sizes \cup Settings : LockUser(c, "put", v)
  BY <1>1, LockKeeps DEF LockUser
<1>2. CASE LockUser(c, "revoke", None) \/ LockUser(c, "delete", None)
  BY <1>2, LockKeeps DEF LockUser
<1>3. CASE CheckChange(c)
  BY <1>3, CheckKeeps DEF CheckChange
<1>4. CASE CommitChange(c)
  BY <1>4, CommitKeeps DEF CommitChange
<1>5. CASE DropChange(c)
  BY <1>5, DropKeeps DEF DropChange
<1>6. CASE \E d \in Documents : ShowDocument(c, d)
  BY <1>6, ShowDocumentKeeps DEF ShowDocument
<1> QED
  BY <1>1, <1>2, <1>3, <1>4, <1>5, <1>6 DEF Change

\* Every step keeps the documents, the pages and the transactions together.
THEOREM RegistryStep == RegistryInv /\ [RegistryNext]_registryVars => RegistryInv'
<1> SUFFICES ASSUME RegistryInv, [RegistryNext]_registryVars
             PROVE  RegistryInv'
  OBVIOUS
<1>1. CASE SyncNext
  <2>1. UNCHANGED <<document, shown, change, userLock, userActive>>
    BY <1>1 DEF SyncNext, ReadInstallation, WriteInstallation, StartRelease
  <2>2. InstallationShape'
    BY <1>1, SyncKeeps DEF SyncNext, RegistryInv
  <2> QED
    BY <2>1, <2>2, DocumentsApart DEF RegistryInv, DocumentsInv, DocumentsShape
<1>2. CASE \E c \in Clients : Change(c) \/ \E d \in Documents : ShowDocument(c, d)
  BY <1>2, ClientKeeps DEF RegistryInv, InstallationShape
<1>3. CASE SetAccount
  BY <1>3, DocumentsApart DEF SetAccount, RegistryInv, DocumentsInv, DocumentsShape, InstallationShape
<1>4. CASE UNCHANGED registryVars
  BY <1>4, DocumentsApart DEF registryVars, RegistryInv, DocumentsInv, DocumentsShape, InstallationShape
<1> QED
  BY <1>1, <1>2, <1>3, <1>4 DEF RegistryNext

\* A configuration or a grant that changes is the one on the page of the client
\* whose transaction commits.
LEMMA DocumentBuildsStep ==
    ASSUME RegistryInv, [RegistryNext]_registryVars, NEW d \in {"config", "grant"},
           document[d] # None, document'[d] # document[d]
    PROVE  \E c \in Clients : shown[c] = [name |-> d, row |-> document[d]]
<1>1. PICK c \in Clients : CommitChange(c)
  BY DEF RegistryNext, registryVars, SyncNext, ReadInstallation, WriteInstallation, StartRelease, SetAccount,
         Change, ShowDocument, LockUser, CheckChange, DropChange
<1>2. /\ change[c].at = "checked" /\ document' = [document EXCEPT ![shown[c].name] = Changed(c)]
  BY <1>1 DEF CommitChange
<1>3. d = shown[c].name
  BY <1>2 DEF RegistryInv, DocumentsInv, DocumentsShape, Documents
<1>4. shown[c] # None /\ Checked(c)
  BY <1>2, ChangeLabels DEF RegistryInv, DocumentsInv, DocumentsShape, Requested
<1>5. shown[c].row # None /\ shown[c].row.revision = document[d].revision
  BY <1>3, <1>4 DEF Checked
<1>6. shown[c].row = document[d]
  BY <1>3, <1>4, <1>5 DEF RegistryInv, DocumentsInv, ShownDocument
<1>7. shown[c] = [name |-> shown[c].name, row |-> shown[c].row]
  BY <1>4, DocumentsShown DEF RegistryInv, DocumentsInv
<1> QED
  BY <1>3, <1>6, <1>7

-----------------------------------------------------------------------------
(* The request, the job and its attempts                                   *)

Request == {NoAsk} \cup [at : {"provider"}, settings : Settings, version : Bundles]

Working == [at : {"installation", "config", "binding", "prepare", "broker"}, try : Nat, next : Nat,
            left : 0..MaxCalls, spend : 0..MaxSpend]
Calling == [at : {"send", "wait"}, try : Nat, next : Nat, left : 0..MaxCalls, spend : 0..MaxSpend, row : Row]
Session == {NoSession} \cup Working \cup Calling

RequestBody == [kind : Kinds, model : Models, revision : Nat, settings : Settings, part : Nat]
Call == [key : Nat, try : Nat, content : RequestBody, cost : Nat]

ExecutionShape ==
    /\ vetted \in [Clients -> {None} \cup Settings]
    /\ asking \in Request
    /\ task \in {None} \cup Task
    /\ session \in [Hosts -> Session]
    /\ calls \subseteq Call

\* The row that an attempt goes on to send is the one its job names, and the
\* attempt can pay for the call.
Pinned(s) ==
    /\ s.row.kind = task.kind /\ s.row.model = task.model /\ s.row.revision = task.revision
    /\ Price[s.row.model] <= s.spend

ExecutionInv ==
    /\ ExecutionShape
    /\ asking # NoAsk => task = None
    /\ task = None => calls = {} /\ \A h \in Hosts : session[h] = NoSession
    /\ \A h \in Hosts : session[h].at \in {"send", "wait"} => Pinned(session[h])
    /\ CallsFollowIdentity

ContentInv == RegistryInv /\ ProvidersInv /\ ExecutionInv

\* The kinds of an attempt by its label.
LEMMA SessionLabels ==
    ASSUME NEW s \in Session
    PROVE  /\ s.at \in {"none", "installation", "config", "binding", "prepare", "broker", "send", "wait"}
           /\ s = NoSession <=> s.at = "none"
           /\ s.at \in {"installation", "config", "binding", "prepare", "broker"} => s \in Working
           /\ s.at \in {"send", "wait"} => s \in Calling
BY DEF Session, NoSession, Working, Calling

\* A job's columns.
LEMMA TaskColumns ==
    ASSUME ExecutionShape, task # None
    PROVE  /\ task \in Task /\ task.provider \in ProviderIds /\ task.kind \in Kinds
           /\ task.model \in Models /\ task.revision \in Nat /\ task.settings \in Settings
           /\ task.tries \in 0..MaxTries
BY DEF ExecutionShape, Task

\* Nothing is asked for at first.
LEMMA ExecutionStart == ExecutionInit => ContentInv
<1> SUFFICES ASSUME ExecutionInit
             PROVE  ContentInv
  OBVIOUS
<1>1. RegistryInv /\ ProvidersInv
  BY RegistryStart, ProvidersStart DEF ExecutionInit
<1>2. ExecutionShape
  BY DEF ExecutionInit, ExecutionShape, Request, Session
<1>3. \A h \in Hosts : session[h] = NoSession /\ session[h].at = "none"
  BY DEF ExecutionInit, NoSession
<1> QED
  BY <1>1, <1>2, <1>3 DEF ContentInv, ExecutionInit, ExecutionInv, CallsFollowIdentity

\* The states of a job that leave its identity as it is.
SameIdentity(t, u) ==
    t.kind = u.kind /\ t.model = u.model /\ t.revision = u.revision /\ t.settings = u.settings

\* An attempt that goes on, or ends, keeps to the identity of its job.
LEMMA AttemptKeeps ==
    ASSUME ExecutionInv, task # None, NEW h \in Hosts, NEW x \in Session,
           session' = [session EXCEPT ![h] = x],
           task' \in Task, SameIdentity(task', task),
           x.at \in {"send", "wait"} => Pinned(x),
           calls' \subseteq Call,
           \A c \in calls' : c.content = Content(task, task.settings, c.key),
           UNCHANGED <<vetted, asking>>
    PROVE  ExecutionInv'
<1>1. /\ session' \in [Hosts -> Session]
      /\ session'[h] = x /\ \A g \in Hosts \ {h} : session'[g] = session[g]
  BY DEF ExecutionInv, ExecutionShape
<1>2. ExecutionShape'
  BY <1>1 DEF ExecutionInv, ExecutionShape
<1>3. asking' = NoAsk /\ task' # None
  BY TaskAssumption DEF ExecutionInv
<1>4. \A g \in Hosts : session'[g].at \in {"send", "wait"} => Pinned(session[g])'
  <2> TAKE g \in Hosts
  <2>1. session'[g].at \in {"send", "wait"} =>
           \E s \in Session : session'[g] = s /\ Pinned(s)
    BY <1>1 DEF ExecutionInv, ExecutionShape
  <2> QED
    BY <2>1 DEF Pinned, SameIdentity
<1>5. CallsFollowIdentity'
  BY DEF CallsFollowIdentity, Content, SameIdentity
<1> QED
  BY <1>2, <1>3, <1>4, <1>5 DEF ExecutionInv

\* What a verdict makes of the job.
LEMMA OutcomeKeeps ==
    ASSUME task \in Task, NEW h \in Hosts, NEW retryable \in BOOLEAN
    PROVE  /\ Outcome(h, retryable) \in Task /\ SameIdentity(Outcome(h, retryable), task)
           /\ [task EXCEPT !.state = "succeeded"] \in Task
           /\ SameIdentity([task EXCEPT !.state = "succeeded"], task)
           /\ SameIdentity(task, task)
<1> DEFINE x1 == [task EXCEPT !.state = "queued"]
           x2 == [task EXCEPT !.state = "failed"]
           x3 == [task EXCEPT !.state = "succeeded"]
<1>1. x1 \in Task /\ x2 \in Task /\ x3 \in Task
  BY DEF Task
<1>2. SameIdentity(x1, task) /\ SameIdentity(x2, task) /\ SameIdentity(x3, task) /\ SameIdentity(task, task)
  BY DEF Task, SameIdentity
<1>3. Outcome(h, retryable) \in {task, x1, x2}
  BY DEF Outcome
<1> QED
  BY <1>1, <1>2, <1>3

\* An attempt that ends without an answer.
LEMMA EndKeeps ==
    ASSUME ExecutionInv, task # None, NEW h \in Hosts, NEW retryable \in BOOLEAN,
           EndAttempt(h, retryable), UNCHANGED <<vetted, asking>>
    PROVE  ExecutionInv'
<1>1. /\ task' = Outcome(h, retryable) /\ UNCHANGED calls
      /\ session' = [session EXCEPT ![h] = NoSession]
  BY DEF EndAttempt
<1>2. task \in Task
  BY DEF ExecutionInv, ExecutionShape
<1>3. NoSession \in Session /\ NoSession.at = "none"
  BY DEF Session, NoSession
<1>4. calls' \subseteq Call /\ \A c \in calls' : c.content = Content(task, task.settings, c.key)
  BY <1>1 DEF ExecutionInv, ExecutionShape, CallsFollowIdentity
<1> QED
  BY <1>1, <1>2, <1>3, <1>4, OutcomeKeeps, AttemptKeeps

\* An attempt that only goes on to its next check.
LEMMA GoOnKeeps ==
    ASSUME ExecutionInv, task # None, NEW h \in Hosts, NEW x \in Session,
           session' = [session EXCEPT ![h] = x], x.at \in {"send", "wait"} => Pinned(x),
           UNCHANGED <<vetted, asking, task, calls>>
    PROVE  ExecutionInv'
<1>1. task \in Task
  BY DEF ExecutionInv, ExecutionShape
<1>2. calls' \subseteq Call /\ \A c \in calls' : c.content = Content(task, task.settings, c.key)
  BY DEF ExecutionInv, ExecutionShape, CallsFollowIdentity
<1> QED
  BY <1>1, <1>2, AttemptKeeps DEF SameIdentity

\* The checks of an attempt before its first call.
LEMMA ChecksKeep ==
    ASSUME ExecutionInv, NEW h \in Hosts, CheckInstallation(h) \/ CheckConfig(h) \/ CheckBinding(h)
    PROVE  ExecutionInv'
<1>1. /\ session[h].at \in {"installation", "config", "binding"} /\ UNCHANGED <<vetted, asking>>
      /\ \/ EndAttempt(h, FALSE)
         \/ \E at \in {"config", "binding", "prepare"} : Step(h, at) /\ UNCHANGED <<task, calls>>
  BY DEF CheckInstallation, CheckConfig, CheckBinding, Unrelated
<1>2. session[h] \in Working /\ task # None
  <2>1. session[h] \in Session
    BY DEF ExecutionInv, ExecutionShape
  <2> QED
    BY <1>1, <2>1, SessionLabels DEF ExecutionInv
<1>3. CASE EndAttempt(h, FALSE)
  BY <1>1, <1>2, <1>3, EndKeeps
<1>4. ASSUME NEW at \in {"config", "binding", "prepare"}, Step(h, at), UNCHANGED <<task, calls>>
      PROVE  ExecutionInv'
  <2> DEFINE x == [session[h] EXCEPT !.at = at]
  <2>1. x \in Working /\ x.at = at
    BY <1>2 DEF Working
  <2>2. session' = [session EXCEPT ![h] = x]
    BY <1>4 DEF Step
  <2> HIDE DEF x
  <2>3. x \in Session /\ x.at \notin {"send", "wait"}
    BY <2>1 DEF Session
  <2> QED
    BY <1>1, <1>2, <1>4, <2>2, <2>3, GoOnKeeps
<1> QED
  BY <1>1, <1>3, <1>4

\* A claim starts an attempt with what it may use.
LEMMA ClaimKeeps ==
    ASSUME ExecutionInv, NEW h \in Hosts, ClaimTask(h)
    PROVE  ExecutionInv'
<1> DEFINE t == [task EXCEPT !.state = "running", !.tries = task.tries + 1]
           x == [at |-> "installation", try |-> task.tries + 1, next |-> 1, left |-> MaxCalls, spend |-> MaxSpend]
<1>1. /\ task # None /\ task.tries < MaxTries /\ task' = t
      /\ session' = [session EXCEPT ![h] = x] /\ UNCHANGED <<vetted, asking, calls>>
  BY DEF ClaimTask, Unrelated
<1>2. task \in Task /\ task.tries \in 0..MaxTries /\ MaxTries \in Nat /\ MaxCalls \in Nat /\ MaxSpend \in Nat
  BY <1>1, TaskColumns, ExecutionAssumption DEF ExecutionInv
<1>3. t \in Task /\ SameIdentity(t, task)
  <2>1. task.tries + 1 \in 0..MaxTries
    BY <1>1, <1>2
  <2> DEFINE n == task.tries + 1
  <2> HIDE DEF n
  <2>2. n \in 0..MaxTries
    BY <2>1 DEF n
  <2>3. [task EXCEPT !.state = "running", !.tries = n] \in Task
        /\ SameIdentity([task EXCEPT !.state = "running", !.tries = n], task)
    BY <1>2, <2>2 DEF Task, SameIdentity
  <2> QED
    BY <2>3 DEF n
<1>4. x \in Session /\ x.at \notin {"send", "wait"}
  BY <1>2 DEF Session, Working
<1>5. calls' \subseteq Call /\ \A c \in calls' : c.content = Content(task, task.settings, c.key)
  BY <1>1 DEF ExecutionInv, ExecutionShape, CallsFollowIdentity
<1> HIDE DEF t, x
<1> QED
  BY <1>1, <1>3, <1>4, <1>5, AttemptKeeps

\* A call is taken off what is left before the broker sees it.
LEMMA PrepareKeeps ==
    ASSUME ExecutionInv, NEW h \in Hosts, PrepareCall(h)
    PROVE  ExecutionInv'
<1>1. session[h].at = "prepare" /\ UNCHANGED <<vetted, asking>>
  BY DEF PrepareCall, Unrelated
<1>2. session[h] \in Working /\ task # None
  <2>1. session[h] \in Session
    BY DEF ExecutionInv, ExecutionShape
  <2> QED
    BY <1>1, <2>1, SessionLabels DEF ExecutionInv
<1>3. CASE session[h].left > 0
  <2> DEFINE n == session[h].left - 1
             x == [session[h] EXCEPT !.at = "broker", !.left = n]
  <2>1. session' = [session EXCEPT ![h] = x] /\ UNCHANGED <<task, calls>>
    <3>1. session' = [session EXCEPT ![h].at = "broker", ![h].left = @ - 1] /\ UNCHANGED <<task, calls>>
      BY <1>3 DEF PrepareCall
    <3> QED
      BY <1>2, <3>1 DEF ExecutionInv, ExecutionShape, Working
  <2>2. n \in 0..MaxCalls
    BY <1>2, <1>3, ExecutionAssumption DEF Working
  <2> HIDE DEF n
  <2>3. x \in Working /\ x.at = "broker"
    BY <1>2, <2>2 DEF Working
  <2> HIDE DEF x
  <2>4. x \in Session /\ x.at \notin {"send", "wait"}
    BY <2>3 DEF Session
  <2> QED
    BY <1>1, <1>2, <2>1, <2>4, GoOnKeeps
<1>4. CASE ~(session[h].left > 0)
  <2>1. EndAttempt(h, FALSE)
    BY <1>4 DEF PrepareCall
  <2> QED
    BY <1>1, <1>2, <2>1, EndKeeps
<1> QED
  BY <1>3, <1>4

\* The broker's read: the row is the one the job names, or the attempt ends.
LEMMA ReadKeeps ==
    ASSUME ExecutionInv, ProvidersInv, NEW h \in Hosts, ReadBinding(h)
    PROVE  ExecutionInv'
<1> DEFINE s == session[h]
           row == provider[task.provider]
           x == [at |-> "send", try |-> s.try, next |-> s.next, left |-> s.left, spend |-> s.spend, row |-> row]
<1>1. session[h].at = "broker" /\ UNCHANGED <<vetted, asking>>
  BY DEF ReadBinding, Unrelated
<1>2. session[h] \in Working /\ task # None
  <2>1. session[h] \in Session
    BY DEF ExecutionInv, ExecutionShape
  <2> QED
    BY <1>1, <2>1, SessionLabels DEF ExecutionInv
<1>3. CASE BrokerMatches(task.provider) /\ Affordable(h, Price[row.model])
  <2>1. session' = [session EXCEPT ![h] = x] /\ UNCHANGED <<task, calls>>
    BY <1>3 DEF ReadBinding
  <2>2. row \in Row
    <3>1. task.provider \in ProviderIds
      BY <1>2, TaskColumns DEF ExecutionInv
    <3>2. row # None
      BY <1>3 DEF BrokerMatches, BindingMatches, Opens
    <3> QED
      BY <3>1, <3>2, RowsShown DEF ProvidersInv
  <2>3. /\ row.kind = task.kind /\ row.model = task.model /\ row.revision = task.revision
        /\ Price[row.model] <= s.spend
    BY <1>3 DEF BrokerMatches, BindingMatches, Affordable
  <2> HIDE DEF row
  <2>4. x \in Calling /\ x.row = row /\ x.spend = s.spend
    BY <1>2, <2>2 DEF Working, Calling
  <2> HIDE DEF x
  <2>5. x \in Session /\ Pinned(x)
    BY <2>3, <2>4 DEF Session, Pinned
  <2> QED
    BY <1>1, <1>2, <2>1, <2>5, GoOnKeeps
<1>4. CASE ~(BrokerMatches(task.provider) /\ Affordable(h, Price[row.model]))
  <2>1. EndAttempt(h, FALSE)
    BY <1>4 DEF ReadBinding
  <2> QED
    BY <1>1, <1>2, <2>1, EndKeeps
<1> QED
  BY <1>3, <1>4

\* What a call says is what the identity of the job and its key say.
LEMMA SendKeeps ==
    ASSUME ExecutionInv, NEW h \in Hosts, SendCall(h)
    PROVE  ExecutionInv'
<1> DEFINE s == session[h]
           body == Content(s.row, task.settings, s.next)
           call == [key |-> s.next, try |-> s.try, content |-> body, cost |-> Price[s.row.model]]
           x == [s EXCEPT !.at = "wait"]
<1>1. /\ s.at = "send" /\ calls' = calls \cup {call}
      /\ session' = [session EXCEPT ![h] = x] /\ UNCHANGED <<vetted, asking, task>>
  BY DEF SendCall, Unrelated, Step
<1>2. s \in Calling /\ task # None /\ Pinned(s)
  <2>1. session[h] \in Session
    BY DEF ExecutionInv, ExecutionShape
  <2> QED
    BY <1>1, <2>1, SessionLabels DEF ExecutionInv
<1>3. /\ s.row \in Row /\ s.row.kind \in Kinds /\ s.row.model \in Models /\ s.row.revision \in Nat
      /\ s.next \in Nat /\ s.try \in Nat /\ s.spend \in 0..MaxSpend
  BY <1>2 DEF Calling, Row
<1>4. task \in Task /\ task.settings \in Settings
  BY <1>2, TaskColumns DEF ExecutionInv
<1>5. x \in Calling /\ x.row = s.row /\ x.spend = s.spend
  BY <1>2 DEF Calling
<1>6. body \in RequestBody /\ body = Content(task, task.settings, s.next)
  BY <1>2, <1>3, <1>4 DEF Content, RequestBody, Pinned
<1>7. Price[s.row.model] \in Nat
  BY <1>3, ExecutionAssumption
<1> DEFINE price == Price[s.row.model]
<1> HIDE DEF x, body, price, s
<1>8. call \in Call /\ call.content = body /\ call.key = s.next
  BY <1>3, <1>6, <1>7 DEF Call, price
<1> HIDE DEF call
<1>9. calls' \subseteq Call /\ \A c \in calls' : c.content = Content(task, task.settings, c.key)
  BY <1>1, <1>6, <1>8 DEF ExecutionInv, ExecutionShape, CallsFollowIdentity
<1>10. x \in Session /\ Pinned(x)
  BY <1>2, <1>5 DEF Session, Pinned
<1> QED
  BY <1>1, <1>2, <1>4, <1>9, <1>10, AttemptKeeps DEF SameIdentity

\* The answer changes what a call costs and nothing else of it.
LEMMA AnsweredCalls ==
    ASSUME ExecutionInv, NEW h \in Hosts, NEW cost \in Nat
    PROVE  /\ Answered(h, cost) \subseteq Call
           /\ \A c \in Answered(h, cost) : c.content = Content(task, task.settings, c.key)
<1> SUFFICES ASSUME NEW c \in calls
             PROVE  /\ [c EXCEPT !.cost = cost] \in Call /\ c \in Call
                    /\ [c EXCEPT !.cost = cost].content = Content(task, task.settings, [c EXCEPT !.cost = cost].key)
                    /\ c.content = Content(task, task.settings, c.key)
  BY DEF Answered
<1>1. c \in Call /\ c.content = Content(task, task.settings, c.key)
  BY DEF ExecutionInv, ExecutionShape, CallsFollowIdentity
<1>2. /\ [c EXCEPT !.cost = cost] \in Call
      /\ [c EXCEPT !.cost = cost].content = c.content /\ [c EXCEPT !.cost = cost].key = c.key
  BY <1>1 DEF Call
<1> QED
  BY <1>1, <1>2

\* An answer is charged to the attempt, which could pay for the dearest one.
LEMMA AcceptKeeps ==
    ASSUME ExecutionInv, NEW h \in Hosts, NEW cost \in 0..MaxSpend, AcceptAnswer(h, cost)
    PROVE  ExecutionInv'
<1> DEFINE s == session[h]
           left == Charge(s, cost)
           x == [at |-> "prepare", try |-> s.try, next |-> s.next + 1, left |-> s.left, spend |-> left]
<1>1. /\ s.at = "wait" /\ cost <= Price[s.row.model] /\ calls' = Answered(h, cost)
      /\ UNCHANGED <<vetted, asking>>
      /\ \/ session' = [session EXCEPT ![h] = NoSession] /\ task' \in {task, [task EXCEPT !.state = "succeeded"]}
         \/ session' = [session EXCEPT ![h] = x] /\ UNCHANGED task
  BY DEF AcceptAnswer, Unrelated
<1>2. s \in Calling /\ task # None /\ Pinned(s)
  <2>1. session[h] \in Session
    BY DEF ExecutionInv, ExecutionShape
  <2> QED
    BY <1>1, <2>1, SessionLabels DEF ExecutionInv
<1>3. s.row.model \in Models /\ s.next \in Nat /\ s.try \in Nat /\ s.spend \in 0..MaxSpend /\ s.left \in 0..MaxCalls
  BY <1>2 DEF Calling, Row
<1>4. cost \in Nat /\ left \in 0..MaxSpend
  <2>1. cost \in Nat /\ MaxSpend \in Nat /\ Price[s.row.model] \in Nat /\ Price[s.row.model] <= s.spend
    BY <1>2, <1>3, ExecutionAssumption DEF Pinned
  <2> QED
    BY <1>1, <1>3, <2>1 DEF Charge
<1> HIDE DEF left
<1>5. x \in Working /\ x.at = "prepare"
  BY <1>3, <1>4 DEF Working
<1>6. x \in Session /\ x.at \notin {"send", "wait"}
  BY <1>5 DEF Session
<1>7. NoSession \in Session /\ NoSession.at \notin {"send", "wait"}
  BY DEF Session, NoSession
<1> HIDE DEF x, s
<1>8. calls' \subseteq Call /\ \A c \in calls' : c.content = Content(task, task.settings, c.key)
  BY <1>1, <1>4, AnsweredCalls
<1>9. task \in Task /\ task' \in Task /\ SameIdentity(task', task)
  BY <1>1, <1>2, TaskColumns, OutcomeKeeps DEF ExecutionInv
<1> QED
  BY <1>1, <1>2, <1>6, <1>7, <1>8, <1>9, AttemptKeeps

\* A database error, a deadline or the provider ends an attempt.
LEMMA FailKeeps ==
    ASSUME ExecutionInv, NEW h \in Hosts, NEW retryable \in BOOLEAN, FailAttempt(h, retryable)
    PROVE  ExecutionInv'
<1>1. session[h] # NoSession /\ EndAttempt(h, retryable) /\ UNCHANGED <<vetted, asking>>
  BY DEF FailAttempt, Unrelated
<1>2. task # None
  BY <1>1 DEF ExecutionInv
<1> QED
  BY <1>1, <1>2, EndKeeps

\* A lease that is lost changes the job, and no attempt.
LEMMA LoseKeeps ==
    ASSUME ExecutionInv, LoseLease
    PROVE  ExecutionInv'
<1>1. /\ task # None /\ UNCHANGED <<vetted, asking, session, calls>>
      /\ task' \in {[task EXCEPT !.state = "queued"], [task EXCEPT !.state = "failed"]}
  BY DEF LoseLease, Unrelated
<1>2. task \in Task
  BY <1>1, TaskColumns DEF ExecutionInv
<1>3. task' \in Task /\ SameIdentity(task', task)
  BY <1>1, <1>2 DEF Task, SameIdentity
<1>4. task' # None
  BY <1>3, TaskAssumption
<1>5. ExecutionShape'
  BY <1>1, <1>3 DEF ExecutionInv, ExecutionShape
<1>6. \A h \in Hosts : session'[h].at \in {"send", "wait"} => Pinned(session[h])'
  BY <1>1, <1>3 DEF ExecutionInv, Pinned, SameIdentity
<1>7. CallsFollowIdentity'
  BY <1>1, <1>3 DEF ExecutionInv, CallsFollowIdentity, Content, SameIdentity
<1> QED
  BY <1>1, <1>4, <1>5, <1>6, <1>7 DEF ExecutionInv

\* A process that restarts forgets its attempt.
LEMMA RestartKeeps ==
    ASSUME ExecutionInv, NEW h \in Hosts, session' = [session EXCEPT ![h] = NoSession],
           UNCHANGED <<vetted, asking, task, calls>>
    PROVE  ExecutionInv'
<1>1. /\ NoSession \in Session /\ NoSession.at = "none"
      /\ session' \in [Hosts -> Session]
      /\ \A g \in Hosts : session'[g] \in {session[g], NoSession}
  BY DEF ExecutionInv, ExecutionShape, Session, NoSession
<1>2. ExecutionShape'
  BY <1>1 DEF ExecutionInv, ExecutionShape
<1>3. \A g \in Hosts : session'[g].at \in {"send", "wait"} => Pinned(session[g])'
  BY <1>1 DEF ExecutionInv, Pinned
<1> QED
  BY <1>1, <1>2, <1>3 DEF ExecutionInv, CallsFollowIdentity

\* Nothing of a request, a job or an attempt changes.
LEMMA ExecutionApart ==
    ASSUME ExecutionInv, vetted' \in [Clients -> {None} \cup Settings], UNCHANGED <<asking, task, session, calls>>
    PROVE  ExecutionInv'
BY DEF ExecutionInv, ExecutionShape, Pinned, CallsFollowIdentity

\* A request reads the configuration while there is no job.
LEMMA OpenKeeps ==
    ASSUME ExecutionInv, RegistryInv, OpenRequest
    PROVE  ExecutionInv'
<1> DEFINE x == [at |-> "provider", settings |-> document["config"].value, version |-> installation.version]
<1>1. /\ task = None /\ document["config"] # None /\ installation # None
      /\ asking' = x /\ UNCHANGED <<vetted, task, session, calls>>
  BY DEF OpenRequest
<1>2. document["config"].value \in Settings
  BY <1>1, RegistryAssumption DEF RegistryInv, DocumentsInv, DocumentValue, Documents, Values
<1>3. installation.version \in Bundles
  BY <1>1 DEF RegistryInv, InstallationShape, Installation
<1>4. x \in Request
  BY <1>2, <1>3 DEF Request
<1> HIDE DEF x
<1> QED
  BY <1>1, <1>4 DEF ExecutionInv, ExecutionShape, Pinned, CallsFollowIdentity

\* The job names the row that the request reads last.
LEMMA EnqueueKeeps ==
    ASSUME ExecutionInv, ProvidersInv, NEW parts \in 1..MaxParts, EnqueueJob(parts)
    PROVE  ExecutionInv'
<1> DEFINE p == Chosen[asking.settings]
           x == [provider |-> p, kind |-> provider[p].kind, model |-> provider[p].model,
                 revision |-> provider[p].revision, settings |-> asking.settings,
                 version |-> asking.version, parts |-> parts, state |-> "queued", tries |-> 0]
<1>1. /\ asking.at = "provider" /\ asking' = NoAsk /\ UNCHANGED <<vetted, session, calls>>
      /\ ~Usable(p) => UNCHANGED task
      /\ Usable(p) => task' = x
  BY DEF EnqueueJob
<1>2. asking # NoAsk /\ asking.settings \in Settings /\ asking.version \in Bundles
  BY <1>1 DEF ExecutionInv, ExecutionShape, Request, NoAsk
<1>3. task = None /\ calls = {} /\ \A h \in Hosts : session[h] = NoSession /\ session[h].at = "none"
  BY <1>2 DEF ExecutionInv, NoSession
<1>4. Usable(p) => x \in Task
  <2> SUFFICES ASSUME Usable(p)
               PROVE  x \in Task
    OBVIOUS
  <2>1. p \in ProviderIds /\ provider[p] # None
    BY <1>2, ExecutionAssumption DEF Usable
  <2>2. provider[p].kind \in Kinds /\ provider[p].model \in Models /\ provider[p].revision \in Nat
    BY <2>1, RowsShown DEF ProvidersInv, Row
  <2>3. 0 \in 0..MaxTries
    BY ExecutionAssumption
  <2> HIDE DEF p
  <2> QED
    BY <1>2, <2>1, <2>2, <2>3 DEF Task
<1> HIDE DEF x
<1>5. task' \in {None} \cup Task /\ (task' = None \/ task' \in Task)
  BY <1>1, <1>3, <1>4
<1>6. ExecutionShape'
  BY <1>1, <1>5 DEF ExecutionInv, ExecutionShape, Request
<1> QED
  BY <1>1, <1>3, <1>6 DEF ExecutionInv, CallsFollowIdentity

\* The steps of the request and the attempts on what they share with the edits.
LEMMA ExecutionStep ==
    ASSUME ContentInv, [ExecutionNext]_allVars
    PROVE  /\ [RegistryNext]_registryVars
           /\ [ProvidersNext]_providerVars
           /\ ExecutionInv'
<1>1. ExecutionInv /\ ProvidersInv /\ RegistryInv
  BY DEF ContentInv
<1>2. ASSUME NEW c \in Clients, NEW v \in Settings, VetSettings(c, v)
      PROVE  UNCHANGED <<registryVars, providerVars>> /\ ExecutionInv'
  BY <1>1, <1>2, ExecutionApart DEF VetSettings, ExecutionInv, ExecutionShape
<1>3. ASSUME NEW c \in Clients, NEW v \in Settings, PutConfig(c, v)
      PROVE  RegistryNext /\ UNCHANGED providerVars /\ ExecutionInv'
  <2>1. LockUser(c, "put", v) /\ UNCHANGED <<providerVars, asking, task, session, calls>>
        /\ vetted' = [vetted EXCEPT ![c] = None]
    BY <1>3 DEF PutConfig
  <2>2. RegistryNext
    BY <2>1 DEF RegistryNext, Change
  <2> QED
    BY <1>1, <2>1, <2>2, ExecutionApart DEF ExecutionInv, ExecutionShape
<1>4. CASE /\ \/ \E h \in Hosts : ReadInstallation(h) \/ WriteInstallation(h)
              \/ \E c \in Clients : ShowDocument(c, "config") \/ CheckChange(c) \/ CommitChange(c) \/ DropChange(c)
              \/ SetAccount
           /\ UNCHANGED <<providerVars, executionVars>>
  <2>1. UNCHANGED providerVars /\ ExecutionInv'
    BY <1>1, <1>4, ExecutionApart DEF executionVars, ExecutionInv, ExecutionShape
  <2>2. "config" \in Documents
    BY DEF Documents
  <2>3. RegistryNext
    BY <1>4, <2>2 DEF RegistryNext, SyncNext, Change
  <2> QED
    BY <2>1, <2>3
<1>5. CASE ProvidersNext /\ UNCHANGED <<registryVars, executionVars>>
  BY <1>1, <1>5, ExecutionApart DEF executionVars, ExecutionInv, ExecutionShape
<1>6. CASE OpenRequest
  BY <1>1, <1>6, OpenKeeps DEF OpenRequest
<1>7. CASE \E parts \in 1..MaxParts : EnqueueJob(parts)
  BY <1>1, <1>7, EnqueueKeeps DEF EnqueueJob
<1>8. ASSUME NEW h \in Hosts, Attempts(h)
      PROVE  [RegistryNext]_registryVars /\ UNCHANGED providerVars /\ ExecutionInv'
  <2>1. ASSUME NEW v \in Bundles, RestartHost(h, v)
        PROVE  RegistryNext /\ UNCHANGED providerVars /\ ExecutionInv'
    BY <1>1, <2>1, RestartKeeps DEF RestartHost, RegistryNext, SyncNext
  <2>2. CASE ClaimTask(h)
    BY <1>1, <2>2, ClaimKeeps DEF ClaimTask, Unrelated
  <2>3. CASE CheckInstallation(h) \/ CheckConfig(h) \/ CheckBinding(h)
    BY <1>1, <2>3, ChecksKeep DEF CheckInstallation, CheckConfig, CheckBinding, Unrelated
  <2>4. CASE PrepareCall(h)
    BY <1>1, <2>4, PrepareKeeps DEF PrepareCall, Unrelated
  <2>5. CASE ReadBinding(h)
    BY <1>1, <2>5, ReadKeeps DEF ReadBinding, Unrelated
  <2>6. CASE SendCall(h)
    BY <1>1, <2>6, SendKeeps DEF SendCall, Unrelated
  <2>7. CASE \E cost \in 0..MaxSpend : AcceptAnswer(h, cost)
    BY <1>1, <2>7, AcceptKeeps DEF AcceptAnswer, Unrelated
  <2>8. CASE \E retryable \in BOOLEAN : FailAttempt(h, retryable)
    BY <1>1, <2>8, FailKeeps DEF FailAttempt, Unrelated
  <2> QED
    BY <1>8, <2>1, <2>2, <2>3, <2>4, <2>5, <2>6, <2>7, <2>8 DEF Attempts
<1>9. CASE LoseLease
  BY <1>1, <1>9, LoseKeeps DEF LoseLease, Unrelated
<1>10. CASE UNCHANGED allVars
  BY <1>1, <1>10, ExecutionApart DEF allVars, executionVars, ExecutionInv, ExecutionShape
<1> QED
  BY <1>2, <1>3, <1>4, <1>5, <1>6, <1>7, <1>8, <1>9, <1>10 DEF ExecutionNext

-----------------------------------------------------------------------------
(* Sums over finite sets                                                   *)

\* The sums of the weights of the subsets of a set, as the folds of the community
\* modules define them.
SumStep(w, g, s) ==
    IF s = {} THEN 0 ELSE w[CHOOSE x \in s : TRUE] + g[s \ {CHOOSE x \in s : TRUE}]
SumsAll(w, S, g) == g = [s \in SUBSET S |-> SumStep(w, g, s)]
Sums(w, S, g) == \A s \in SUBSET S : g[s] = SumStep(w, g, s)
WeightOf(w, S) == CHOOSE n : \E g : Sums(w, S, g) /\ n = g[S]

\* Sets of subsets of a finite set have a least member.
LEMMA LeastSubset ==
    ASSUME NEW S, IsFiniteSet(S), NEW Bad \in SUBSET (SUBSET S), Bad # {}
    PROVE  \E m \in Bad : \A t \in SUBSET m : t # m => t \notin Bad
<1>1. Bad \subseteq FiniteSubsetsOf(S)
  BY FS_FiniteSubsetsOfFinite
<1>2. PICK m \in Bad : \A t \in Bad : <<t, m>> \notin StrictSubsetOrdering(S)
  BY <1>1, FS_StrictSubsetOrderingWellFounded, WFMin
<1>3. ASSUME NEW t \in SUBSET m, t # m, t \in Bad
      PROVE  FALSE
  BY <1>2, <1>3 DEF StrictSubsetOrdering
<1> QED
  BY <1>3

\* There are such sums ...
LEMMA SumsExist ==
    ASSUME NEW S, IsFiniteSet(S), NEW w
    PROVE  \E g : SumsAll(w, S, g)
<1> DEFINE Upto(n) == \E g : \A s \in SUBSET S : Cardinality(s) <= n => g[s] = SumStep(w, g, s)
           Bad == {n \in Nat : ~Upto(n)}
<1>1. \A s \in SUBSET S : IsFiniteSet(s) /\ Cardinality(s) \in Nat
  BY FS_Subset, FS_CardinalityType
<1>2. Upto(0)
  <2> DEFINE g == [s \in SUBSET S |-> 0]
  <2>1. ASSUME NEW s \in SUBSET S, Cardinality(s) <= 0
        PROVE  g[s] = SumStep(w, g, s)
    <3>1. s = {}
      BY <1>1, <2>1, FS_EmptySet
    <3> QED
      BY <3>1 DEF SumStep
  <2> HIDE DEF g
  <2> QED
    BY <2>1
<1>3. ASSUME NEW n \in Nat, Upto(n)
      PROVE  Upto(n + 1)
  <2>1. PICK g : \A s \in SUBSET S : Cardinality(s) <= n => g[s] = SumStep(w, g, s)
    BY <1>3
  <2> DEFINE h == [s \in SUBSET S |-> SumStep(w, g, s)]
  <2>2. ASSUME NEW s \in SUBSET S, Cardinality(s) <= n + 1
        PROVE  h[s] = SumStep(w, h, s)
    <3>1. CASE s = {}
      BY <3>1 DEF SumStep
    <3>2. CASE s # {}
      <4> DEFINE x == CHOOSE x \in s : TRUE
                 t == s \ {x}
      <4>1. x \in s /\ t \in SUBSET S
        BY <3>2
      <4> HIDE DEF x
      <4>2. Cardinality(t) <= n
        <5>1. Cardinality(t) = Cardinality(s) - 1
          BY <1>1, <4>1, FS_RemoveElement
        <5> HIDE DEF t
        <5> QED
          BY <1>1, <2>2, <5>1
      <4>3. h[t] = g[t]
        BY <2>1, <4>1, <4>2
      <4>4. h[s] = w[x] + g[t] /\ SumStep(w, h, s) = w[x] + h[t]
        BY <3>2 DEF SumStep, x
      <4> QED
        BY <4>3, <4>4
    <3> QED
      BY <3>1, <3>2
  <2> HIDE DEF h
  <2> QED
    BY <2>2
<1>4. ASSUME NEW n \in Nat
      PROVE  Upto(n)
  <2> HIDE DEF Upto
  <2> SUFFICES ASSUME Bad # {}
               PROVE  FALSE
    BY DEF Bad
  <2>1. PICK m \in Bad : \A i \in Bad : <<i, m>> \notin OpToRel(<, Nat)
    <3>1. Bad \subseteq Nat
      OBVIOUS
    <3> HIDE DEF Bad
    <3> QED
      BY <3>1, NatLessThanWellFounded, WFMin
  <2>2. \A i \in Bad : ~(i < m)
    BY <2>1, Zenon DEF OpToRel
  <2>3. m \in Nat /\ m # 0 /\ m - 1 \in Nat /\ m - 1 < m /\ (m - 1) + 1 = m
    BY <1>2
  <2>4. m - 1 \notin Bad
    BY <2>2, <2>3
  <2> QED
    BY <1>3, <2>3, <2>4
<1>5. Cardinality(S) \in Nat /\ \A s \in SUBSET S : Cardinality(s) <= Cardinality(S)
  BY FS_Subset, FS_CardinalityType
<1>6. PICK g : \A s \in SUBSET S : g[s] = SumStep(w, g, s)
  <2>1. Upto(Cardinality(S))
    BY <1>4, <1>5
  <2> QED
    BY <1>5, <2>1
<1> DEFINE h == [s \in SUBSET S |-> g[s]]
<1>7. h = [s \in SUBSET S |-> SumStep(w, h, s)]
  <2> SUFFICES ASSUME NEW s \in SUBSET S
               PROVE  g[s] = SumStep(w, h, s)
    OBVIOUS
  <2>1. s \ {CHOOSE x \in s : TRUE} \in SUBSET S
    OBVIOUS
  <2>2. h[s \ {CHOOSE x \in s : TRUE}] = g[s \ {CHOOSE x \in s : TRUE}]
    BY <2>1
  <2> QED
    BY <1>6, <2>2 DEF SumStep
<1> QED
  BY <1>7 DEF SumsAll

\* ... that are the same whichever set they belong to ...
LEMMA SumsAgree ==
    ASSUME NEW S, IsFiniteSet(S), NEW T, S \subseteq T, NEW w, NEW g, NEW h, Sums(w, S, g), Sums(w, T, h)
    PROVE  \A s \in SUBSET S : g[s] = h[s]
<1> DEFINE Bad == {s \in SUBSET S : g[s] # h[s]}
<1> SUFFICES ASSUME Bad # {}
             PROVE  FALSE
  OBVIOUS
<1>1. PICK m \in Bad : \A t \in SUBSET m : t # m => t \notin Bad
  <2>1. Bad \in SUBSET (SUBSET S)
    OBVIOUS
  <2> HIDE DEF Bad
  <2> QED
    BY <2>1, LeastSubset
<1>2. m \in SUBSET S /\ m \in SUBSET T
  OBVIOUS
<1>3. g[m] = SumStep(w, g, m) /\ h[m] = SumStep(w, h, m)
  BY <1>2 DEF Sums
<1>4. m # {}
  BY <1>3 DEF SumStep
<1> DEFINE t == m \ {CHOOSE x \in m : TRUE}
<1>5. t \in SUBSET m /\ t # m /\ t \in SUBSET S
  BY <1>2, <1>4
<1>6. g[t] = h[t]
  BY <1>1, <1>5
<1> QED
  BY <1>3, <1>4, <1>6 DEF SumStep

\* ... and do not depend on the order.
LEMMA SumsAdd ==
    ASSUME NEW S, IsFiniteSet(S), NEW w, \A x \in S : w[x] \in Nat, NEW g, Sums(w, S, g)
    PROVE  \A s \in SUBSET S : g[s] \in Nat /\ \A x \in s : g[s] = w[x] + g[s \ {x}]
<1> DEFINE Good(s) == g[s] \in Nat /\ \A x \in s : g[s] = w[x] + g[s \ {x}]
           Bad == {s \in SUBSET S : ~Good(s)}
<1> SUFFICES ASSUME Bad # {}
             PROVE  FALSE
  OBVIOUS
<1>1. PICK m \in Bad : \A t \in SUBSET m : t # m => t \notin Bad
  <2>1. Bad \in SUBSET (SUBSET S)
    OBVIOUS
  <2> HIDE DEF Bad
  <2> QED
    BY <2>1, LeastSubset
<1>2. m \in SUBSET S /\ ~Good(m) /\ \A t \in SUBSET m : t # m => Good(t)
  BY <1>1
<1> HIDE DEF Bad
<1>3. g[m] = SumStep(w, g, m)
  BY <1>2 DEF Sums
<1>4. m # {}
  BY <1>2, <1>3 DEF SumStep
<1> DEFINE y == CHOOSE x \in m : TRUE
<1>5. y \in m /\ g[m] = w[y] + g[m \ {y}]
  BY <1>3, <1>4 DEF SumStep
<1> HIDE DEF y
<1>6. Good(m \ {y})
  BY <1>2, <1>5
<1>7. g[m] \in Nat
  BY <1>2, <1>5, <1>6
<1>8. ASSUME NEW x \in m, x # y
      PROVE  g[m] = w[x] + g[m \ {x}]
  <2>1. Good(m \ {x}) /\ x \in m \ {y} /\ y \in m \ {x} /\ (m \ {x}) \ {y} = (m \ {y}) \ {x}
    BY <1>2, <1>5, <1>8
  <2> DEFINE u == (m \ {y}) \ {x}
  <2>2. u \in SUBSET m /\ u # m
    BY <1>8
  <2>3. g[m \ {y}] = w[x] + g[u]
    BY <1>6, <2>1
  <2>4. g[m \ {x}] = w[y] + g[u]
    BY <2>1
  <2>5. g[u] \in Nat
    <3>1. Good(u)
      BY <1>2, <2>2
    <3> QED
      BY <3>1
  <2> HIDE DEF u
  <2>6. w[x] \in Nat /\ w[y] \in Nat
    BY <1>2, <1>5, <1>8
  <2> HIDE DEF Good
  <2> QED
    BY <1>5, <2>3, <2>4, <2>5, <2>6
<1> QED
  BY <1>2, <1>5, <1>7, <1>8

\* A sum is a number, it is the one of a function that sums up all subsets, and
\* each element adds its weight to the rest.
LEMMA WeightIs ==
    ASSUME NEW S, IsFiniteSet(S), NEW w, NEW g, Sums(w, S, g)
    PROVE  WeightOf(w, S) = g[S]
<1>1. ASSUME NEW h, Sums(w, S, h)
      PROVE  h[S] = g[S]
  BY <1>1, SumsAgree
<1> QED
  BY <1>1 DEF WeightOf

LEMMA WeightLaws ==
    ASSUME NEW S, IsFiniteSet(S), NEW w, \A x \in S : w[x] \in Nat
    PROVE  /\ WeightOf(w, S) \in Nat
           /\ S = {} => WeightOf(w, S) = 0
           /\ \A x \in S : WeightOf(w, S) = w[x] + WeightOf(w, S \ {x})
<1>1. PICK g : SumsAll(w, S, g)
  BY SumsExist
<1>2. Sums(w, S, g)
  BY <1>1 DEF Sums, SumsAll
<1>3. WeightOf(w, S) = g[S]
  BY <1>2, WeightIs
<1>4. S \in SUBSET S
  OBVIOUS
<1>5. g[S] \in Nat /\ \A x \in S : g[S] = w[x] + g[S \ {x}]
  BY ONLY IsFiniteSet(S), <1>2, <1>4, SumsAdd, \A x \in S : w[x] \in Nat
<1>6. ASSUME NEW x \in S
      PROVE  WeightOf(w, S \ {x}) = g[S \ {x}]
  <2>1. IsFiniteSet(S \ {x})
    BY FS_RemoveElement
  <2>2. Sums(w, S \ {x}, g)
    BY <1>2 DEF Sums
  <2> QED
    BY <2>1, <2>2, WeightIs
<1>7. S = {} => g[S] = 0
  BY <1>2 DEF Sums, SumStep
<1> QED
  BY <1>3, <1>5, <1>6, <1>7

\* Weights that agree on a set have the same sum.
LEMMA SameWeight ==
    ASSUME NEW S, NEW w, NEW v, \A x \in S : w[x] = v[x]
    PROVE  WeightOf(w, S) = WeightOf(v, S)
<1>1. ASSUME NEW g, NEW s \in SUBSET S
      PROVE  SumStep(w, g, s) = SumStep(v, g, s)
  BY DEF SumStep
<1>2. ASSUME NEW g
      PROVE  Sums(w, S, g) <=> Sums(v, S, g)
  BY <1>1 DEF Sums
<1> QED
  BY <1>2 DEF WeightOf

\* The fold of the community modules over the costs of calls.
LEMMA CostSum ==
    ASSUME NEW S, IsFiniteSet(S), NEW w, \A c \in S : w[c] = c.cost
    PROVE  MapThenSumSet(LAMBDA c : c.cost, S) = WeightOf(w, S)
<1> DEFINE Part(f, s) == IF s = {} THEN 0 ELSE (CHOOSE c \in s : TRUE).cost + f[s \ {CHOOSE c \in s : TRUE}]
           it == CHOOSE f : f = [s \in SUBSET S |-> Part(f, s)]
<1>1. ASSUME NEW f, NEW s \in SUBSET S
      PROVE  Part(f, s) = SumStep(w, f, s)
  BY DEF SumStep
<1>2. MapThenSumSet(LAMBDA c : c.cost, S) = it[S]
  BY Zenon DEF MapThenSumSet, MapThenFoldSet
<1> HIDE DEF Part
<1>3. ASSUME NEW f
      PROVE  [s \in SUBSET S |-> Part(f, s)] = [s \in SUBSET S |-> SumStep(w, f, s)]
  BY <1>1
<1>4. PICK g : SumsAll(w, S, g)
  BY SumsExist
<1>5. g = [s \in SUBSET S |-> Part(g, s)]
  BY <1>3, <1>4 DEF SumsAll
<1>6. it = [s \in SUBSET S |-> Part(it, s)]
  BY <1>5
<1> HIDE DEF it
<1>7. Sums(w, S, it)
  BY <1>1, <1>6 DEF Sums
<1> QED
  BY <1>2, <1>7, WeightIs

\* The costs of a set of calls.
Cost(S) == MapThenSumSet(LAMBDA c : c.cost, S)

\* A call adds its cost to that of the others.
LEMMA Costs ==
    ASSUME NEW S, IsFiniteSet(S), \A c \in S : c.cost \in Nat
    PROVE  /\ Cost(S) \in Nat
           /\ S = {} => Cost(S) = 0
           /\ \A x \in S : Cost(S) = x.cost + Cost(S \ {x})
<1> DEFINE w == [c \in S |-> c.cost]
<1>1. \A c \in S : w[c] = c.cost /\ w[c] \in Nat
  OBVIOUS
<1> HIDE DEF w
<1>2. Cost(S) = WeightOf(w, S)
  BY <1>1, CostSum DEF Cost
<1>3. ASSUME NEW x \in S
      PROVE  Cost(S \ {x}) = WeightOf(w, S \ {x})
  <2>1. IsFiniteSet(S \ {x}) /\ \A c \in S \ {x} : w[c] = c.cost
    BY <1>1, FS_RemoveElement
  <2> QED
    BY <2>1, CostSum DEF Cost
<1>4. /\ WeightOf(w, S) \in Nat
      /\ S = {} => WeightOf(w, S) = 0
      /\ \A x \in S : WeightOf(w, S) = w[x] + WeightOf(w, S \ {x})
  BY <1>1, WeightLaws
<1> QED
  BY <1>1, <1>2, <1>3, <1>4

\* A set to which a call is added.
LEMMA CostAdds ==
    ASSUME NEW S, IsFiniteSet(S), \A c \in S : c.cost \in Nat, NEW x, x \notin S, x.cost \in Nat
    PROVE  Cost(S \cup {x}) = Cost(S) + x.cost /\ Cost(S) \in Nat
<1> DEFINE T == S \cup {x}
<1>1. IsFiniteSet(T) /\ (\A c \in T : c.cost \in Nat) /\ x \in T /\ T \ {x} = S
  BY FS_AddElement
<1> HIDE DEF T
<1>2. Cost(T) = x.cost + Cost(T \ {x})
  BY <1>1, Costs
<1>3. Cost(S) \in Nat
  BY Costs
<1> QED
  BY <1>1, <1>2, <1>3 DEF T

-----------------------------------------------------------------------------
(* The quota of a user                                                     *)

\* The sizes of the values of some rows.
SizeOf(f, S) == MapThenSumSet(LAMBDA k : f[k].value, S)

LEMMA SizeSum ==
    ASSUME NEW S, IsFiniteSet(S), NEW f, NEW w, \A k \in S : w[k] = f[k].value
    PROVE  SizeOf(f, S) = WeightOf(w, S)
<1> DEFINE Part(g, s) ==
             IF s = {} THEN 0 ELSE f[CHOOSE k \in s : TRUE].value + g[s \ {CHOOSE k \in s : TRUE}]
           it == CHOOSE g : g = [s \in SUBSET S |-> Part(g, s)]
<1>1. ASSUME NEW g, NEW s \in SUBSET S
      PROVE  Part(g, s) = SumStep(w, g, s)
  BY DEF SumStep
<1>2. SizeOf(f, S) = it[S]
  BY Zenon DEF SizeOf, MapThenSumSet, MapThenFoldSet
<1> HIDE DEF Part
<1>3. ASSUME NEW g
      PROVE  [s \in SUBSET S |-> Part(g, s)] = [s \in SUBSET S |-> SumStep(w, g, s)]
  BY <1>1
<1>4. PICK g : SumsAll(w, S, g)
  BY SumsExist
<1>5. g = [s \in SUBSET S |-> Part(g, s)]
  BY <1>3, <1>4 DEF SumsAll
<1>6. it = [s \in SUBSET S |-> Part(it, s)]
  BY <1>5
<1> HIDE DEF it
<1>7. Sums(w, S, it)
  BY <1>1, <1>6 DEF Sums
<1> QED
  BY <1>2, <1>7, WeightIs

\* A pair adds its size to that of the others, and sizes do not depend on the
\* rows that are not summed.
LEMMA SizeLaws ==
    ASSUME NEW S, IsFiniteSet(S), NEW f, \A k \in S : f[k].value \in Nat
    PROVE  /\ SizeOf(f, S) \in Nat
           /\ S = {} => SizeOf(f, S) = 0
           /\ \A x \in S : SizeOf(f, S) = f[x].value + SizeOf(f, S \ {x})
<1> DEFINE w == [k \in S |-> f[k].value]
<1>1. \A k \in S : w[k] = f[k].value /\ w[k] \in Nat
  OBVIOUS
<1> HIDE DEF w
<1>2. SizeOf(f, S) = WeightOf(w, S)
  BY <1>1, SizeSum
<1>3. ASSUME NEW x \in S
      PROVE  SizeOf(f, S \ {x}) = WeightOf(w, S \ {x})
  <2>1. IsFiniteSet(S \ {x}) /\ \A k \in S \ {x} : w[k] = f[k].value
    BY <1>1, FS_RemoveElement
  <2> QED
    BY <2>1, SizeSum
<1>4. /\ WeightOf(w, S) \in Nat
      /\ S = {} => WeightOf(w, S) = 0
      /\ \A x \in S : WeightOf(w, S) = w[x] + WeightOf(w, S \ {x})
  BY <1>1, WeightLaws
<1> QED
  BY <1>1, <1>2, <1>3, <1>4

LEMMA SameSizes ==
    ASSUME NEW S, IsFiniteSet(S), NEW f, NEW g, \A k \in S : f[k] = g[k]
    PROVE  SizeOf(f, S) = SizeOf(g, S)
<1> DEFINE w == [k \in S |-> f[k].value]
<1>1. \A k \in S : w[k] = f[k].value /\ w[k] = g[k].value
  OBVIOUS
<1> HIDE DEF w
<1> QED
  BY <1>1, SizeSum

\* A put that was checked fits into the quota.
Granted(c) ==
    change[c].op = "put" /\ shown[c].name \in PairKeys => WithinQuota(shown[c].name, change[c].value)

QuotaInv ==
    /\ IsFiniteSet(Pairs)
    /\ QuotaHolds
    /\ \A c \in Clients : change[c].at = "checked" => Granted(c)

LEMMA QuotaStart == RegistryInit => QuotaInv
<1> SUFFICES ASSUME RegistryInit
             PROVE  QuotaInv
  OBVIOUS
<1>1. Pairs = {} /\ IsFiniteSet({}) /\ Cardinality({}) = 0
  BY FS_EmptySet DEF RegistryInit, Pairs, Documents
<1>2. Total({}) = 0
  <2>1. Total({}) = SizeOf(document, {})
    BY Zenon DEF Total, SizeOf
  <2> QED
    BY <1>1, <2>1, SizeLaws
<1>3. \A c \in Clients : change[c].at # "checked"
  BY DEF RegistryInit, NoChange
<1>4. MaxPairs \in Nat /\ MaxTotal \in Nat
  BY RegistryAssumption
<1> QED
  BY <1>1, <1>2, <1>3, <1>4 DEF QuotaInv, QuotaHolds

\* Steps that write no document; a transaction that they check fits.
LEMMA QuotaApart ==
    ASSUME QuotaInv, UNCHANGED document,
           \A c \in Clients : change'[c].at = "checked" =>
              \/ shown'[c] = shown[c] /\ change'[c] = change[c]
              \/ shown'[c] = shown[c] /\ change'[c].op = change[c].op /\ change'[c].value = change[c].value
                 /\ Granted(c)
    PROVE  QuotaInv'
<1>1. Pairs' = Pairs
  BY DEF Pairs
<1>2. \A keys : Total(keys)' = Total(keys)
  <2>1. \A keys : Total(keys) = SizeOf(document, keys) /\ Total(keys)' = SizeOf(document', keys)
    BY Zenon DEF Total, SizeOf, MapThenSumSet, MapThenFoldSet
  <2> QED
    BY <2>1
<1>3. \A d, size : WithinQuota(d, size)' = WithinQuota(d, size)
  BY <1>1, <1>2 DEF WithinQuota
<1>4. QuotaHolds' /\ IsFiniteSet(Pairs)'
  BY <1>1, <1>2 DEF QuotaInv, QuotaHolds
<1>5. ASSUME NEW c \in Clients, change'[c].at = "checked"
      PROVE  Granted(c)'
  BY <1>3, <1>5 DEF QuotaInv, Granted
<1> QED
  BY <1>4, <1>5 DEF QuotaInv

\* The pairs have sizes.
LEMMA PairSizes ==
    ASSUME DocumentsInv
    PROVE  Pairs \subseteq PairKeys /\ \A k \in Pairs : document[k].value \in Nat
<1> SUFFICES ASSUME NEW k \in Pairs
             PROVE  document[k].value \in Nat
  BY DEF Pairs
<1>1. k \in Documents /\ k \in PairKeys /\ document[k] # None /\ k # "grant"
  BY RegistryAssumption DEF Pairs, Documents
<1>2. document[k].value \in Values(k)
  BY <1>1 DEF DocumentsInv, DocumentValue
<1> QED
  BY <1>1, <1>2, RegistryAssumption DEF Values

\* A commit writes what its transaction checked, since no other could write.
LEMMA CommitFits ==
    ASSUME DocumentsInv, QuotaInv, NEW c \in Clients, CommitChange(c), RowUnchanged(c)
    PROVE  IsFiniteSet(Pairs)' /\ QuotaHolds'
<1> DEFINE d == shown[c].name
           new == Changed(c)
<1>1. change[c].at = "checked" /\ document' = [document EXCEPT ![d] = new]
  BY DEF CommitChange
<1>2. /\ d \in Documents /\ new \in {None} \cup DocumentRow
  BY <1>1, ChangedRow
<1>3. change[c] # NoChange /\ Requested(c) /\ Granted(c) /\ change[c].op \in Ops
  BY <1>1, ChangeLabels DEF DocumentsInv, DocumentsShape, QuotaInv
<1>4. /\ change[c].op = "put" => new = [value |-> change[c].value,
                                        revision |-> IF change[c].row = None THEN 0 ELSE change[c].row.revision + 1]
      /\ change[c].op = "delete" => new = None
  BY DEF Changed
<1> HIDE DEF new
<1>5. document'[d] = new /\ \A e \in Documents \ {d} : document'[e] = document[e]
  BY <1>1, <1>2 DEF DocumentsInv, DocumentsShape
<1>6. /\ IsFiniteSet(Pairs) /\ Pairs \subseteq PairKeys /\ PairKeys \subseteq Documents
      /\ \A k \in Pairs : document[k].value \in Nat
  BY PairSizes DEF QuotaInv, Documents
<1>7. MaxPairs \in Nat /\ MaxTotal \in Nat
  BY RegistryAssumption
<1>8. \A keys : Total(keys) = SizeOf(document, keys) /\ Total(keys)' = SizeOf(document', keys)
  BY Zenon DEF Total, SizeOf, MapThenSumSet, MapThenFoldSet
<1>9. CASE d \notin PairKeys
  <2>1. Pairs' = Pairs /\ \A k \in Pairs : document'[k] = document[k]
    BY <1>5, <1>6, <1>9 DEF Pairs
  <2>2. SizeOf(document', Pairs) = SizeOf(document, Pairs)
    BY <1>6, <2>1, SameSizes
  <2> QED
    BY <1>6, <1>8, <2>1, <2>2 DEF QuotaInv, QuotaHolds
<1>10. CASE d \in PairKeys
  <2>1. d \notin {"config", "grant"} /\ Values(d) = Sizes
    BY <1>10, RegistryAssumption DEF Values
  <2> DEFINE rest == Pairs \ {d}
  <2>2. /\ IsFiniteSet(rest) /\ \A k \in rest : document'[k] = document[k] /\ document[k].value \in Nat
    BY <1>5, <1>6, FS_RemoveElement
  <2>3. SizeOf(document', rest) = SizeOf(document, rest) /\ SizeOf(document, rest) \in Nat
    BY <2>2, SameSizes, SizeLaws
  <2>4. CASE change[c].op = "put"
    <3> DEFINE size == change[c].value
    <3>1. new.value = size /\ new # None /\ size \in Nat
      <4>1. size \in Nat
        BY <1>3, <2>1, <2>4, RegistryAssumption DEF Requested
      <4>2. new.value = size
        BY <1>4, <2>4
      <4>3. new # None
        <5> DEFINE n == IF change[c].row = None THEN 0 ELSE change[c].row.revision + 1
        <5>1. change[c].row \in {None} \cup DocumentRow
          BY <1>1, ChangeLabels DEF DocumentsInv, DocumentsShape
        <5>2. n \in Nat
          BY <5>1 DEF DocumentRow
        <5>3. size \in Sizes
          BY <1>3, <2>1, <2>4 DEF Requested
        <5>4. new = [value |-> size, revision |-> n]
          BY <1>4, <2>4
        <5> HIDE DEF n, size
        <5> QED
          BY <5>2, <5>3, <5>4, RegistryRowAssumption DEF DocumentRow
      <4> QED
        BY <4>1, <4>2, <4>3
    <3>2. Pairs' = Pairs \cup {d}
      BY <1>5, <1>6, <1>10, <3>1 DEF Pairs
    <3>3. WithinQuota(d, size)
      BY <1>3, <1>10, <2>4 DEF Granted
    <3> DEFINE all == Pairs \cup {d}
    <3>4. IsFiniteSet(all) /\ all \ {d} = rest /\ d \in all
      BY <1>6, FS_AddElement
    <3>5. \A k \in all : document'[k].value \in Nat
      BY <1>5, <2>2, <3>1
    <3> HIDE DEF all, rest
    <3>6. SizeOf(document', all) = document'[d].value + SizeOf(document', all \ {d})
      BY <3>4, <3>5, SizeLaws
    <3>7. SizeOf(document, rest) + size <= MaxTotal /\ Cardinality(all) <= MaxPairs
      BY <1>8, <3>3 DEF WithinQuota, all, rest
    <3>8. SizeOf(document', all) <= MaxTotal
      <4> HIDE DEF size, d
      <4> QED
        BY <1>5, <1>7, <2>3, <3>1, <3>4, <3>6, <3>7
    <3> QED
      BY <1>8, <3>2, <3>4, <3>7, <3>8 DEF QuotaHolds, all
  <2>5. CASE change[c].op # "put"
    <3>1. new = None
      BY <1>3, <1>4, <2>1, <2>5 DEF Requested, Ops
    <3>2. Pairs' = rest
      BY <1>5, <1>6, <1>10, <3>1 DEF Pairs
    <3>3. Cardinality(rest) <= Cardinality(Pairs) /\ Cardinality(rest) \in Nat /\ Cardinality(Pairs) \in Nat
      BY <1>6, <2>2, FS_Subset, FS_CardinalityType
    <3>4. SizeOf(document, rest) <= SizeOf(document, Pairs)
      <4>1. CASE d \in Pairs
        <5>1. SizeOf(document, Pairs) = document[d].value + SizeOf(document, Pairs \ {d})
          BY <1>6, <4>1, SizeLaws
        <5>2. document[d].value \in Nat
          BY <1>6, <4>1
        <5> HIDE DEF d
        <5> QED
          BY <2>3, <5>1, <5>2
      <4>2. CASE d \notin Pairs
        <5>1. rest = Pairs
          BY <4>2
        <5> QED
          BY <2>3, <5>1
      <4> QED
        BY <4>1, <4>2
    <3>5. SizeOf(document, Pairs) \in Nat
      BY <1>6, SizeLaws
    <3>6. Cardinality(Pairs) <= MaxPairs /\ SizeOf(document, Pairs) <= MaxTotal
      BY <1>8 DEF QuotaInv, QuotaHolds
    <3> HIDE DEF rest
    <3>7. Cardinality(rest) <= MaxPairs /\ SizeOf(document', rest) <= MaxTotal
      BY <1>7, <2>3, <3>3, <3>4, <3>5, <3>6
    <3> QED
      BY <1>8, <2>2, <3>2, <3>7 DEF QuotaHolds
  <2> QED
    BY <2>4, <2>5
<1> QED
  BY <1>9, <1>10

\* No order of transactions, of several clients and with rollbacks, lets the
\* pairs of a user exceed their number or their size.
THEOREM QuotaStep == RegistryInv /\ QuotaInv /\ [RegistryNext]_registryVars => QuotaInv'
<1> SUFFICES ASSUME RegistryInv, QuotaInv, [RegistryNext]_registryVars
             PROVE  QuotaInv'
  OBVIOUS
<1>1. DocumentsInv /\ DocumentsShape
  BY DEF RegistryInv, DocumentsInv
<1>2. CASE SyncNext \/ SetAccount \/ UNCHANGED registryVars
  <2>1. UNCHANGED <<document, shown, change>>
    BY <1>2 DEF SyncNext, ReadInstallation, WriteInstallation, StartRelease, SetAccount, registryVars
  <2> QED
    BY <2>1, QuotaApart
<1>3. ASSUME NEW c \in Clients, NEW d \in Documents, ShowDocument(c, d)
      PROVE  QuotaInv'
  <2>1. /\ change[c] = NoChange /\ UNCHANGED <<document, change>>
        /\ \A b \in Clients \ {c} : shown'[b] = shown[b]
    BY <1>1, <1>3 DEF ShowDocument, DocumentsShape
  <2>2. change'[c].at # "checked"
    BY <2>1 DEF NoChange
  <2> QED
    BY <2>1, <2>2, QuotaApart
<1>4. ASSUME NEW c \in Clients, NEW op, NEW v, LockUser(c, op, v)
      PROVE  QuotaInv'
  <2>1. /\ UNCHANGED <<document, shown>> /\ change'[c].at = "locked"
        /\ \A b \in Clients \ {c} : change'[b] = change[b]
    BY <1>1, <1>4 DEF LockUser, DocumentsShape
  <2> QED
    BY <2>1, QuotaApart
<1>5. ASSUME NEW c \in Clients, CheckChange(c)
      PROVE  QuotaInv'
  <2>1. /\ UNCHANGED <<document, shown>>
        /\ \A b \in Clients \ {c} : change'[b] = change[b]
    BY <1>1, <1>5 DEF CheckChange, DocumentsShape
  <2>2. CASE Accepted(c)
    <3>1. change'[c].op = change[c].op /\ change'[c].value = change[c].value
      BY <1>1, <1>5, <2>2 DEF CheckChange, DocumentsShape
    <3>2. Granted(c)
      BY <2>2 DEF Accepted, Granted
    <3> QED
      BY <2>1, <3>1, <3>2, QuotaApart
  <2>3. CASE ~Accepted(c)
    <3>1. change'[c].at # "checked"
      BY <1>1, <1>5, <2>3 DEF CheckChange, DocumentsShape, NoChange
    <3> QED
      BY <2>1, <3>1, QuotaApart
  <2> QED
    BY <2>2, <2>3
<1>6. ASSUME NEW c \in Clients, CommitChange(c)
      PROVE  QuotaInv'
  <2>1. /\ change[c].at = "checked" /\ change' = [change EXCEPT ![c] = NoChange]
    BY <1>6 DEF CommitChange
  <2>2. \A b \in Clients \ {c} : change[b] = NoChange
    BY <1>1, <2>1, ChangeLabels DEF DocumentsInv, LocksUser, DocumentsShape, NoChange
  <2>3. \A b \in Clients : change'[b].at # "checked"
    BY <1>1, <2>1, <2>2 DEF DocumentsShape, NoChange
  <2>4. CASE RowUnchanged(c)
    BY <1>1, <1>6, <2>3, <2>4, CommitFits DEF QuotaInv
  <2>5. CASE ~RowUnchanged(c)
    <3>1. UNCHANGED document
      BY <1>6, <2>5 DEF CommitChange
    <3> QED
      BY <2>3, <3>1, QuotaApart
  <2> QED
    BY <2>4, <2>5
<1>7. ASSUME NEW c \in Clients, DropChange(c)
      PROVE  QuotaInv'
  <2>1. /\ UNCHANGED <<document, shown>> /\ change'[c] = NoChange
        /\ \A b \in Clients \ {c} : change'[b] = change[b]
    BY <1>1, <1>7 DEF DropChange, DocumentsShape
  <2>2. change'[c].at # "checked"
    BY <2>1 DEF NoChange
  <2> QED
    BY <2>1, <2>2, QuotaApart
<1> QED
  BY <1>2, <1>3, <1>4, <1>5, <1>6, <1>7 DEF RegistryNext, Change

-----------------------------------------------------------------------------
(* What an attempt spends                                                  *)

CallsOf(k, try) == {c \in k : c.try = try}
Before(k, s) == {c \in k : c.try = s.try /\ c.key < s.next}
IsOpen(s, c) == s.at = "wait" /\ c.try = s.try /\ c.key = s.next /\ c.cost <= s.spend

\* An attempt has spent what its answered calls cost, and can pay for the one
\* that is open.
Pays(k, s) ==
    /\ Cost(Before(k, s)) + s.spend <= MaxSpend
    /\ \A c \in k : c.try = s.try => c.key < s.next \/ IsOpen(s, c)
    /\ \A c, d \in k : IsOpen(s, c) /\ IsOpen(s, d) => c = d

\* No two processes work on the same attempt.
Spending(k, ss, n) ==
    /\ k \subseteq Call /\ IsFiniteSet(k)
    /\ \A t \in Nat : Cost(CallsOf(k, t)) <= MaxSpend
    /\ \A c \in k : c.try <= n
    /\ \A h \in Hosts : ss[h] # NoSession => ss[h].try <= n /\ Pays(k, ss[h])
    /\ \A g, h \in Hosts : g # h /\ ss[g] # NoSession /\ ss[h] # NoSession => ss[g].try # ss[h].try

Tries == IF task = None THEN 0 ELSE task.tries
SpendInv == Spending(calls, session, Tries)

\* An attempt has these columns.
LEMMA SessionColumns ==
    ASSUME NEW s \in Session, s # NoSession
    PROVE  /\ s.try \in Nat /\ s.next \in Nat /\ s.spend \in Nat /\ MaxSpend \in Nat
           /\ s.spend <= MaxSpend
<1>1. s \in Working \/ s \in Calling
  BY DEF Session
<1>2. MaxSpend \in Nat
  BY ExecutionAssumption
<1> QED
  BY <1>1, <1>2 DEF Working, Calling

\* Some of the calls.
LEMMA SomeCalls ==
    ASSUME NEW k, k \subseteq Call, IsFiniteSet(k), NEW S, S \subseteq k
    PROVE  /\ IsFiniteSet(S) /\ \A c \in S : c.cost \in Nat
           /\ Cost(S) \in Nat
<1>1. IsFiniteSet(S) /\ \A c \in S : c.cost \in Nat
  BY FS_Subset DEF Call
<1> QED
  BY <1>1, Costs

\* What an attempt pays depends on its own calls.
LEMMA PaysOwn ==
    ASSUME NEW k, NEW j, NEW s, CallsOf(k, s.try) = CallsOf(j, s.try), Pays(k, s)
    PROVE  Pays(j, s)
<1>1. \A c : c.try = s.try => (c \in k <=> c \in j)
  BY DEF CallsOf
<1>2. Before(k, s) = Before(j, s)
  BY <1>1 DEF Before
<1>3. \A c : IsOpen(s, c) => c.try = s.try
  BY DEF IsOpen
<1> QED
  BY <1>1, <1>2, <1>3 DEF Pays

\* An attempt that has no call open and sends none.
LEMMA MoveSpends ==
    ASSUME NEW k, NEW ss \in [Hosts -> Session], NEW n \in Nat, Spending(k, ss, n),
           NEW h \in Hosts, NEW x \in Session,
           \/ x = NoSession
           \/ /\ ss[h] # NoSession /\ ss[h].at # "wait"
              /\ x.try = ss[h].try /\ x.next = ss[h].next /\ x.spend = ss[h].spend
    PROVE  Spending(k, [ss EXCEPT ![h] = x], n)
<1> DEFINE zz == [ss EXCEPT ![h] = x]
<1>1. zz[h] = x /\ \A g \in Hosts \ {h} : zz[g] = ss[g]
  OBVIOUS
<1> HIDE DEF zz
<1>2. ASSUME x # NoSession
      PROVE  x.try <= n /\ Pays(k, x)
  <2>1. ss[h].try <= n /\ Pays(k, ss[h])
    BY <1>2 DEF Spending
  <2>2. Before(k, x) = Before(k, ss[h])
    BY <1>2 DEF Before
  <2>3. \A c \in k : c.try = x.try => c.key < x.next
    BY <1>2, <2>1 DEF Pays, IsOpen
  <2>4. \A c \in k : ~IsOpen(x, c)
    <3>1. x.next \in Nat
      BY <1>2, SessionColumns
    <3> QED
      BY <2>3, <3>1 DEF IsOpen
  <2> QED
    BY <1>2, <2>1, <2>2, <2>3, <2>4 DEF Pays
<1>3. \A g \in Hosts : zz[g] # NoSession => zz[g].try <= n /\ Pays(k, zz[g])
  BY <1>1, <1>2 DEF Spending
<1>4. \A g \in Hosts : zz[g] # NoSession => ss[g] # NoSession /\ zz[g].try = ss[g].try
  BY <1>1
<1>5. \A f, g \in Hosts : f # g /\ zz[f] # NoSession /\ zz[g] # NoSession => zz[f].try # zz[g].try
  BY <1>4 DEF Spending
<1> QED
  BY <1>3, <1>5 DEF Spending, zz

\* A claim has a number of its own, and no call yet.
LEMMA ClaimSpends ==
    ASSUME NEW k, NEW ss \in [Hosts -> Session], NEW n \in Nat, Spending(k, ss, n),
           NEW h \in Hosts, NEW x \in Session, x # NoSession, x.try = n + 1, x.spend = MaxSpend
    PROVE  Spending(k, [ss EXCEPT ![h] = x], n + 1)
<1> DEFINE zz == [ss EXCEPT ![h] = x]
<1>1. zz[h] = x /\ \A g \in Hosts \ {h} : zz[g] = ss[g]
  OBVIOUS
<1> HIDE DEF zz
<1>2. \A c \in k : c.try \in Nat /\ c.try <= n
  BY DEF Spending, Call
<1>3. \A c \in k : c.try # x.try
  BY <1>2
<1>4. Pays(k, x)
  <2>1. Before(k, x) = {}
    BY <1>3 DEF Before
  <2>2. Cost({}) = 0
    BY FS_EmptySet, Costs
  <2>3. MaxSpend \in Nat
    BY ExecutionAssumption
  <2>4. Cost(Before(k, x)) + x.spend <= MaxSpend
    BY <2>1, <2>2, <2>3
  <2> QED
    BY <1>3, <2>4 DEF Pays, IsOpen
<1>5. \A g \in Hosts : ss[g] # NoSession => ss[g].try \in Nat /\ ss[g].try <= n /\ Pays(k, ss[g])
  BY SessionColumns DEF Spending
<1>6. \A g \in Hosts : zz[g] # NoSession => zz[g].try <= n + 1 /\ Pays(k, zz[g])
  BY <1>1, <1>4, <1>5
<1>7. ASSUME NEW f \in Hosts, NEW g \in Hosts, f # g, zz[f] # NoSession, zz[g] # NoSession
      PROVE  zz[f].try # zz[g].try
  <2>1. CASE f = h
    BY <1>1, <1>5, <1>7, <2>1
  <2>2. CASE g = h
    BY <1>1, <1>5, <1>7, <2>2
  <2>3. CASE f # h /\ g # h
    BY <1>1, <1>7, <2>3 DEF Spending
  <2> QED
    BY <2>1, <2>2, <2>3
<1>8. \A c \in k : c.try <= n + 1
  BY <1>2
<1> QED
  BY <1>6, <1>7, <1>8 DEF Spending, zz

\* The calls of the other attempts stay as they are, those of this one can be paid.
LEMMA OwnSpends ==
    ASSUME NEW k, NEW ss \in [Hosts -> Session], NEW n \in Nat, Spending(k, ss, n),
           NEW h \in Hosts, ss[h] # NoSession,
           NEW j, j \subseteq Call, IsFiniteSet(j),
           \A t \in Nat : t # ss[h].try => CallsOf(j, t) = CallsOf(k, t),
           Cost(CallsOf(j, ss[h].try)) <= MaxSpend,
           NEW x \in Session, x # NoSession => x.try = ss[h].try /\ Pays(j, x)
    PROVE  Spending(j, [ss EXCEPT ![h] = x], n)
<1> DEFINE zz == [ss EXCEPT ![h] = x]
<1>1. zz[h] = x /\ \A g \in Hosts \ {h} : zz[g] = ss[g]
  OBVIOUS
<1> HIDE DEF zz
<1>2. ss[h].try \in Nat /\ ss[h].try <= n
  BY SessionColumns DEF Spending
<1>3. \A t \in Nat : Cost(CallsOf(j, t)) <= MaxSpend
  BY DEF Spending
<1>4. ASSUME NEW c \in j
      PROVE  c.try <= n
  <2>1. CASE c.try = ss[h].try
    BY <1>2, <2>1
  <2>2. CASE c.try # ss[h].try
    <3>1. c.try \in Nat
      BY DEF Call
    <3>2. c \in CallsOf(k, c.try)
      BY <2>2, <3>1 DEF CallsOf
    <3> QED
      BY <3>2 DEF CallsOf, Spending
  <2> QED
    BY <2>1, <2>2
<1>5. ASSUME NEW g \in Hosts, zz[g] # NoSession
      PROVE  zz[g].try <= n /\ Pays(j, zz[g])
  <2>1. CASE g = h
    BY <1>1, <1>2, <1>5, <2>1
  <2>2. CASE g # h
    <3>1. zz[g] = ss[g] /\ ss[g] # NoSession
      BY <1>1, <1>5, <2>2
    <3>2. ss[g].try \in Nat /\ ss[g].try # ss[h].try /\ ss[g].try <= n /\ Pays(k, ss[g])
      BY <2>2, <3>1, SessionColumns DEF Spending
    <3>3. CallsOf(k, ss[g].try) = CallsOf(j, ss[g].try)
      BY <3>2
    <3>4. Pays(j, ss[g])
      BY ONLY <3>2, <3>3, PaysOwn
    <3> QED
      BY <3>1, <3>2, <3>4
  <2> QED
    BY <2>1, <2>2
<1>6. \A g \in Hosts : zz[g] # NoSession => ss[g] # NoSession /\ zz[g].try = ss[g].try
  BY <1>1
<1>7. \A f, g \in Hosts : f # g /\ zz[f] # NoSession /\ zz[g] # NoSession => zz[f].try # zz[g].try
  BY <1>6 DEF Spending
<1> QED
  BY <1>3, <1>4, <1>5, <1>7 DEF Spending, zz

\* A call is sent only when it can be paid for.
LEMMA SendSpends ==
    ASSUME NEW k, NEW ss \in [Hosts -> Session], NEW n \in Nat, Spending(k, ss, n),
           NEW h \in Hosts, ss[h].at = "send", NEW call \in Call,
           call.key = ss[h].next, call.try = ss[h].try, call.cost <= ss[h].spend,
           NEW x \in Session, x.at = "wait",
           x.try = ss[h].try, x.next = ss[h].next, x.spend = ss[h].spend
    PROVE  Spending(k \cup {call}, [ss EXCEPT ![h] = x], n)
<1> DEFINE s == ss[h]
           j == k \cup {call}
<1>1. s \in Session /\ s # NoSession /\ x # NoSession
  BY DEF NoSession
<1>2. /\ s.try \in Nat /\ s.next \in Nat /\ s.spend \in Nat /\ MaxSpend \in Nat /\ call.cost \in Nat
  BY <1>1, SessionColumns DEF Call
<1>3. Pays(k, s) /\ k \subseteq Call /\ IsFiniteSet(k)
  BY <1>1 DEF Spending
<1>4. \A c \in k : c.try = s.try => c.key < s.next
  BY <1>3 DEF Pays, IsOpen
<1>5. j \subseteq Call /\ IsFiniteSet(j)
  BY <1>3, FS_AddElement
<1>6. \A t \in Nat : t # s.try => CallsOf(j, t) = CallsOf(k, t)
  BY DEF CallsOf
<1>7. call \notin Before(k, s) /\ CallsOf(j, s.try) = Before(k, s) \cup {call} /\ Before(j, x) = Before(k, s)
  <2>1. ~(call.key < s.next)
    BY <1>2
  <2> QED
    BY <1>4, <2>1 DEF CallsOf, Before
<1>8. Before(k, s) \subseteq k
  BY DEF Before
<1>9. IsFiniteSet(Before(k, s)) /\ (\A c \in Before(k, s) : c.cost \in Nat) /\ Cost(Before(k, s)) \in Nat
  BY <1>3, <1>8, SomeCalls
<1>10. Cost(CallsOf(j, s.try)) = Cost(Before(k, s)) + call.cost
  BY <1>2, <1>7, <1>9, CostAdds
<1>11. Cost(Before(k, s)) + s.spend <= MaxSpend
  BY <1>3 DEF Pays
<1>12. Cost(CallsOf(j, s.try)) <= MaxSpend
  BY <1>2, <1>9, <1>10, <1>11
<1>13. Pays(j, x)
  <2>1. Cost(Before(j, x)) + x.spend <= MaxSpend
    BY <1>7, <1>11
  <2>2. IsOpen(x, call)
    BY DEF IsOpen
  <2>3. \A c \in k : ~IsOpen(x, c)
    BY <1>2, <1>4 DEF IsOpen
  <2>4. \A c \in j : c.try = x.try => c.key < x.next \/ IsOpen(x, c)
    BY <1>4, <2>2
  <2> QED
    BY <2>1, <2>3, <2>4 DEF Pays
<1> HIDE DEF j, s
<1> QED
  BY <1>1, <1>5, <1>6, <1>12, <1>13, OwnSpends DEF j, s

\* The answer replaces the open call by one that costs what is charged for it.
LEMMA AnswerSpends ==
    ASSUME NEW k, NEW ss \in [Hosts -> Session], NEW n \in Nat, Spending(k, ss, n),
           NEW h \in Hosts, ss[h].at = "wait", NEW cost \in Nat, cost <= ss[h].spend,
           NEW j, j = {IF c.key = ss[h].next /\ c.try = ss[h].try THEN [c EXCEPT !.cost = cost] ELSE c : c \in k},
           NEW x \in Session,
           x # NoSession => x.try = ss[h].try /\ x.next = ss[h].next + 1 /\ x.spend = ss[h].spend - cost
    PROVE  Spending(j, [ss EXCEPT ![h] = x], n)
<1> DEFINE s == ss[h]
           past == Before(k, s)
<1>1. s \in Session /\ s # NoSession
  BY DEF NoSession
<1>2. s.try \in Nat /\ s.next \in Nat /\ s.spend \in Nat /\ MaxSpend \in Nat
  BY <1>1, SessionColumns
<1>3. Pays(k, s) /\ k \subseteq Call /\ IsFiniteSet(k)
  BY <1>1 DEF Spending
<1>4. past \subseteq k /\ IsFiniteSet(past) /\ (\A c \in past : c.cost \in Nat) /\ Cost(past) \in Nat
  <2>1. past \subseteq k
    BY DEF Before
  <2> QED
    BY <1>3, <2>1, SomeCalls
<1>5. \A c \in k : c.key \in Nat /\ c.try \in Nat /\ (c.try = s.try => c.key < s.next \/ c.key = s.next)
  BY <1>3 DEF Pays, IsOpen, Call
<1>6. \A c, d \in k : c.key = s.next /\ c.try = s.try /\ d.key = s.next /\ d.try = s.try => c = d
  <2>1. \A c \in k : c.key = s.next /\ c.try = s.try => IsOpen(s, c)
    BY <1>2, <1>3 DEF Pays
  <2> QED
    BY <1>3, <2>1 DEF Pays
<1>7. Cost(past) + s.spend <= MaxSpend
  BY <1>3 DEF Pays
<1>8. \E add : /\ add \in Nat /\ add <= cost
               /\ j \subseteq Call /\ IsFiniteSet(j)
               /\ \A t \in Nat : t # s.try => CallsOf(j, t) = CallsOf(k, t)
               /\ \A c \in j : c.try = s.try => c.key <= s.next /\ c.key \in Nat
               /\ Cost(CallsOf(j, s.try)) = Cost(past) + add
  <2>1. CASE \A c \in k : ~(c.key = s.next /\ c.try = s.try)
    <3>1. j = k
      BY <2>1
    <3>2. CallsOf(j, s.try) = past
      BY <1>5, <2>1, <3>1 DEF CallsOf, Before
    <3>3. \A c \in j : c.try = s.try => c.key <= s.next /\ c.key \in Nat
      BY <1>2, <1>5, <3>1
    <3> HIDE DEF past
    <3>4. 0 \in Nat /\ 0 <= cost /\ Cost(past) = Cost(past) + 0
      BY <1>4
    <3> QED
      BY <1>3, <3>1, <3>2, <3>3, <3>4
  <2>2. ASSUME NEW o \in k, o.key = s.next, o.try = s.try
        PROVE  /\ cost \in Nat /\ cost <= cost
               /\ j \subseteq Call /\ IsFiniteSet(j)
               /\ \A t \in Nat : t # s.try => CallsOf(j, t) = CallsOf(k, t)
               /\ \A c \in j : c.try = s.try => c.key <= s.next /\ c.key \in Nat
               /\ Cost(CallsOf(j, s.try)) = Cost(past) + cost
    <3> DEFINE z == [o EXCEPT !.cost = cost]
               rest == k \ {o}
    <3>1. z \in Call /\ z.key = s.next /\ z.try = s.try /\ z.cost = cost
      BY <1>3, <2>2 DEF Call
    <3>2. \A c \in k : c.key = s.next /\ c.try = s.try <=> c = o
      BY <1>6, <2>2
    <3>3. j = rest \cup {z}
      <4>1. j = {IF c = o THEN z ELSE c : c \in k}
        BY <3>2
      <4> HIDE DEF z
      <4> QED
        BY <4>1
    <3> HIDE DEF z
    <3>4. j \subseteq Call /\ IsFiniteSet(j)
      <4> HIDE DEF rest
      <4>1. IsFiniteSet(rest)
        BY <1>3, FS_RemoveElement DEF rest
      <4>2. IsFiniteSet(rest \cup {z})
        BY <4>1, FS_AddElement
      <4>3. rest \cup {z} \subseteq Call
        BY <1>3, <3>1 DEF rest
      <4> QED
        BY ONLY <3>3, <4>2, <4>3
    <3>5. \A t \in Nat : t # s.try => CallsOf(j, t) = CallsOf(k, t)
      BY <2>2, <3>1, <3>3 DEF CallsOf
    <3>6. \A c \in rest : c.try = s.try => c.key < s.next
      BY <1>5, <3>2
    <3>7. \A c \in j : c.try = s.try => c.key <= s.next /\ c.key \in Nat
      BY <1>2, <1>5, <3>1, <3>3, <3>6
    <3>8. \A c \in past : c.key # s.next
      BY <1>2, <1>5 DEF Before
    <3>9. z \notin past /\ o \notin past
      BY <2>2, <3>1, <3>8
    <3>10. CallsOf(j, s.try) = past \cup {z}
      BY <3>1, <3>3, <3>6, <3>9 DEF CallsOf, Before
    <3> HIDE DEF past
    <3>11. Cost(past \cup {z}) = Cost(past) + z.cost
      BY <1>4, <3>1, <3>9, CostAdds
    <3>12. cost <= cost
      OBVIOUS
    <3>13. Cost(CallsOf(j, s.try)) = Cost(past) + cost
      BY <3>1, <3>10, <3>11
    <3> QED
      BY <3>4, <3>5, <3>7, <3>12, <3>13
  <2> HIDE DEF past
  <2> QED
    BY <2>1, <2>2
<1> HIDE DEF past
<1>9. PICK add : /\ add \in Nat /\ add <= cost
                 /\ j \subseteq Call /\ IsFiniteSet(j)
                 /\ \A t \in Nat : t # s.try => CallsOf(j, t) = CallsOf(k, t)
                 /\ \A c \in j : c.try = s.try => c.key <= s.next /\ c.key \in Nat
                 /\ Cost(CallsOf(j, s.try)) = Cost(past) + add
  BY <1>8
<1>10. Cost(CallsOf(j, s.try)) <= MaxSpend
  BY <1>2, <1>4, <1>7, <1>9
<1>11. ASSUME x # NoSession
       PROVE  Pays(j, x)
  <2>1. x.try = s.try /\ x.next = s.next + 1 /\ x.spend = s.spend - cost
    BY <1>11
  <2>2. \A c \in j : c.try = x.try => c.key < x.next /\ c.key # x.next
    BY <1>2, <1>9, <2>1
  <2>3. Before(j, x) = CallsOf(j, s.try)
    BY <2>1, <2>2 DEF Before, CallsOf
  <2>4. Cost(Before(j, x)) + x.spend <= MaxSpend
    BY <1>2, <1>4, <1>7, <1>9, <2>1, <2>3
  <2>5. \A c \in j : ~IsOpen(x, c)
    BY <2>2 DEF IsOpen
  <2> QED
    BY <2>2, <2>4, <2>5 DEF Pays
<1> QED
  BY <1>1, <1>9, <1>10, <1>11, OwnSpends

\* No attempt has spent anything at first.
LEMMA SpendStart == ExecutionInit => SpendInv
<1> SUFFICES ASSUME ExecutionInit
             PROVE  SpendInv
  OBVIOUS
<1>1. calls = {} /\ \A h \in Hosts : session[h] = NoSession
  BY DEF ExecutionInit
<1>2. IsFiniteSet({}) /\ Cost({}) = 0 /\ MaxSpend \in Nat
  BY FS_EmptySet, Costs, ExecutionAssumption
<1>3. \A t : CallsOf({}, t) = {}
  BY DEF CallsOf
<1> QED
  BY <1>1, <1>2, <1>3 DEF SpendInv, Spending

\* The job gets another state, or there is one where there was none.
LEMMA SpendApart ==
    ASSUME SpendInv, ExecutionInv, UNCHANGED <<calls, session>>,
           task # None => task' # None /\ task'.tries = task.tries
    PROVE  SpendInv'
<1>1. CASE task = None
  <2>1. calls = {} /\ \A h \in Hosts : session[h] = NoSession
    BY <1>1 DEF ExecutionInv
  <2> QED
    BY <2>1 DEF SpendInv, Spending
<1>2. CASE task # None
  <2>1. Tries' = Tries
    BY <1>2 DEF Tries
  <2> QED
    BY <2>1 DEF SpendInv
<1> QED
  BY <1>1, <1>2

\* The verdict on an attempt counts no further one.
LEMMA OutcomeTries ==
    ASSUME task \in Task, NEW h \in Hosts, NEW retryable \in BOOLEAN
    PROVE  Outcome(h, retryable) # None /\ Outcome(h, retryable).tries = task.tries
<1> DEFINE x1 == [task EXCEPT !.state = "queued"]
           x2 == [task EXCEPT !.state = "failed"]
<1>1. x1.tries = task.tries /\ x2.tries = task.tries
  BY DEF Task
<1>2. Outcome(h, retryable) \in {task, x1, x2}
  BY DEF Outcome
<1>3. Outcome(h, retryable) \in Task
  BY OutcomeKeeps
<1> QED
  BY <1>1, <1>2, <1>3, TaskAssumption

\* The steps of an attempt spend only what the attempt may.
LEMMA AttemptSpends ==
    ASSUME SpendInv, ExecutionInv, ProvidersInv, NEW h \in Hosts, Attempts(h)
    PROVE  SpendInv'
<1>1. /\ session \in [Hosts -> Session] /\ NoSession \in Session
      /\ task # None => /\ task \in Task /\ Tries = task.tries
      /\ Tries \in Nat
  BY TaskColumns DEF ExecutionInv, ExecutionShape, Session, Tries
<1>2. session[h].at # "none" => task # None /\ session[h] # NoSession /\ task \in Task
  BY <1>1 DEF ExecutionInv, NoSession
<1>3. ASSUME session[h].at # "none", NEW x \in Session,
             session' = [session EXCEPT ![h] = x], UNCHANGED calls, Tries' = Tries,
             \/ x = NoSession
             \/ /\ session[h].at # "wait"
                /\ x.try = session[h].try /\ x.next = session[h].next /\ x.spend = session[h].spend
      PROVE  SpendInv'
  BY <1>1, <1>2, <1>3, MoveSpends DEF SpendInv
<1>4. ASSUME session[h].at # "none", NEW retryable \in BOOLEAN, EndAttempt(h, retryable)
      PROVE  SpendInv'
  <2>1. Tries' = Tries
    BY <1>1, <1>2, <1>4, OutcomeTries DEF EndAttempt, Tries
  <2> QED
    BY <1>1, <1>3, <1>4, <2>1 DEF EndAttempt
<1>5. ASSUME NEW at \in {"config", "binding", "prepare"}, session[h] \in Working, Step(h, at), UNCHANGED <<task, calls>>
      PROVE  SpendInv'
  <2> DEFINE x == [session[h] EXCEPT !.at = at]
  <2>1. /\ x \in Working /\ x.try = session[h].try /\ x.next = session[h].next /\ x.spend = session[h].spend
        /\ session[h].at \notin {"none", "wait"}
    BY <1>5 DEF Working
  <2>2. session' = [session EXCEPT ![h] = x] /\ Tries' = Tries
    BY <1>5 DEF Step, Tries
  <2> HIDE DEF x
  <2>3. x \in Session
    BY <2>1 DEF Session
  <2> QED
    BY <1>3, <1>5, <2>1, <2>2, <2>3
<1>6. CASE ClaimTask(h)
  <2> DEFINE x == [at |-> "installation", try |-> task.tries + 1, next |-> 1, left |-> MaxCalls, spend |-> MaxSpend]
  <2>1. /\ task # None /\ task' = [task EXCEPT !.state = "running", !.tries = @ + 1]
        /\ session' = [session EXCEPT ![h] = x] /\ UNCHANGED calls
    BY <1>6 DEF ClaimTask
  <2>2. task'.tries = task.tries + 1 /\ task.tries \in Nat /\ task' \in Task
    <3>1. task'.tries = task.tries + 1 /\ task.tries \in Nat
      BY <1>1, <2>1, TaskColumns DEF ExecutionInv, Task
    <3>2. ExecutionInv'
      BY <1>6, ClaimKeeps
    <3>3. task' # None
      <4>1. session'[h] = x /\ x # NoSession
        BY <1>1, <2>1 DEF NoSession
      <4> QED
        BY <3>2, <4>1 DEF ExecutionInv
    <3> QED
      BY <3>1, <3>2, <3>3 DEF ExecutionInv, ExecutionShape
  <2>3. Tries' = Tries + 1
    BY <1>1, <2>1, <2>2, TaskAssumption DEF Tries
  <2>4. x \in Working /\ x # NoSession /\ x.try = Tries + 1 /\ x.spend = MaxSpend
    BY <1>1, <2>1, <2>2, ExecutionAssumption DEF Working, NoSession
  <2> HIDE DEF x
  <2>5. x \in Session
    BY <2>4 DEF Session
  <2>6. Spending(calls, [session EXCEPT ![h] = x], Tries + 1)
    BY <1>1, <2>4, <2>5, ClaimSpends DEF SpendInv
  <2> QED
    BY <2>1, <2>3, <2>6 DEF SpendInv
<1>7. CASE CheckInstallation(h) \/ CheckConfig(h) \/ CheckBinding(h)
  <2>1. /\ session[h].at \in {"installation", "config", "binding"}
        /\ \/ EndAttempt(h, FALSE)
           \/ \E at \in {"config", "binding", "prepare"} : Step(h, at) /\ UNCHANGED <<task, calls>>
    BY <1>7 DEF CheckInstallation, CheckConfig, CheckBinding
  <2>2. session[h] \in Working
    BY <1>1, <2>1, SessionLabels
  <2> QED
    BY <1>4, <1>5, <2>1, <2>2
<1>8. CASE PrepareCall(h)
  <2>1. session[h].at = "prepare" /\ session[h] \in Working
    BY <1>1, <1>8, SessionLabels DEF PrepareCall
  <2>2. CASE session[h].left > 0
    <3> DEFINE m == session[h].left - 1
               x == [session[h] EXCEPT !.at = "broker", !.left = m]
    <3>1. session' = [session EXCEPT ![h] = x] /\ UNCHANGED <<task, calls>>
      <4>1. session' = [session EXCEPT ![h].at = "broker", ![h].left = @ - 1] /\ UNCHANGED <<task, calls>>
        BY <1>8, <2>2 DEF PrepareCall
      <4> QED
        BY <1>1, <2>1, <4>1 DEF Working
    <3>2. m \in 0..MaxCalls
      BY <2>1, <2>2, ExecutionAssumption DEF Working
    <3> HIDE DEF m
    <3>3. x \in Working /\ x.try = session[h].try /\ x.next = session[h].next /\ x.spend = session[h].spend
      BY <2>1, <3>2 DEF Working
    <3> HIDE DEF x
    <3>4. x \in Session /\ Tries' = Tries
      BY <3>1, <3>3 DEF Session, Tries
    <3> QED
      BY <1>3, <2>1, <3>1, <3>3, <3>4
  <2>3. CASE ~(session[h].left > 0)
    BY <1>4, <1>8, <2>1, <2>3 DEF PrepareCall
  <2> QED
    BY <2>2, <2>3
<1>9. CASE ReadBinding(h)
  <2>1. session[h].at = "broker"
    BY <1>9 DEF ReadBinding
  <2>2. CASE EndAttempt(h, FALSE)
    BY <1>4, <2>1, <2>2
  <2>3. CASE ~EndAttempt(h, FALSE)
    <3> DEFINE s == session[h]
               x == [at |-> "send", try |-> s.try, next |-> s.next, left |-> s.left, spend |-> s.spend,
                     row |-> provider[task.provider]]
    <3>1. session' = [session EXCEPT ![h] = x] /\ UNCHANGED <<task, calls>>
      BY <1>9, <2>3 DEF ReadBinding
    <3>2. ExecutionInv'
      BY <1>9, ReadKeeps
    <3>3. x \in Session
      <4>1. session'[h] = x /\ session'[h] \in Session
        BY <1>1, <3>1, <3>2 DEF ExecutionInv, ExecutionShape
      <4> QED
        BY <4>1
    <3>4. x.try = s.try /\ x.next = s.next /\ x.spend = s.spend
      OBVIOUS
    <3>5. Tries' = Tries
      BY <3>1 DEF Tries
    <3> HIDE DEF x
    <3> QED
      BY <1>3, <2>1, <3>1, <3>3, <3>4, <3>5
  <2> QED
    BY <2>2, <2>3
<1>10. CASE SendCall(h)
  <2> DEFINE s == session[h]
             call == [key |-> s.next, try |-> s.try, content |-> Content(s.row, task.settings, s.next),
                      cost |-> Price[s.row.model]]
             x == [s EXCEPT !.at = "wait"]
  <2>1. s.at = "send" /\ calls' = calls \cup {call} /\ session' = [session EXCEPT ![h] = x] /\ UNCHANGED task
    BY <1>10 DEF SendCall, Step, Unrelated
  <2>2. s \in Calling /\ Pinned(s)
    BY <1>1, <2>1, SessionLabels DEF ExecutionInv
  <2>3. x \in Calling /\ x.at = "wait" /\ x.try = s.try /\ x.next = s.next /\ x.spend = s.spend
    BY <2>2 DEF Calling
  <2>4. call.key = s.next /\ call.try = s.try /\ call.cost <= s.spend
    BY <2>2 DEF Pinned
  <2>5. ExecutionInv'
    BY <1>10, SendKeeps
  <2>6. call \in Call
    BY <2>1, <2>5 DEF ExecutionInv, ExecutionShape
  <2> HIDE DEF x, call
  <2>7. x \in Session
    BY <2>3 DEF Session
  <2>8. Spending(calls \cup {call}, [session EXCEPT ![h] = x], Tries)
    BY <1>1, <2>1, <2>3, <2>4, <2>6, <2>7, SendSpends DEF SpendInv
  <2>9. Tries' = Tries
    BY <2>1 DEF Tries
  <2> QED
    BY <2>1, <2>8, <2>9 DEF SpendInv
<1>11. ASSUME NEW cost \in 0..MaxSpend, AcceptAnswer(h, cost)
       PROVE  SpendInv'
  <2> DEFINE s == session[h]
             last == s.next = task.parts
             x == IF last THEN NoSession
                  ELSE [at |-> "prepare", try |-> s.try, next |-> s.next + 1, left |-> s.left, spend |-> s.spend - cost]
  <2>1. /\ s.at = "wait" /\ cost <= Price[s.row.model] /\ calls' = Answered(h, cost)
        /\ session' = [session EXCEPT ![h] = x] /\ task' \in {task, [task EXCEPT !.state = "succeeded"]}
    BY <1>11 DEF AcceptAnswer, Charge
  <2>2. s \in Calling /\ Pinned(s)
    BY <1>1, <2>1, SessionLabels DEF ExecutionInv
  <2>3. cost \in Nat /\ cost <= s.spend
    <3>1. s.row.model \in Models /\ s.spend \in Nat
      BY <2>2, ExecutionAssumption DEF Calling, Row
    <3>2. Price[s.row.model] \in Nat
      BY <3>1, ExecutionAssumption
    <3>3. MaxSpend \in Nat
      BY ExecutionAssumption
    <3> QED
      BY <2>1, <2>2, <3>1, <3>2, <3>3 DEF Pinned
  <2>4. ExecutionInv'
    BY <1>11, AcceptKeeps
  <2>5. x \in Session
    <3>1. session'[h] = x /\ session'[h] \in Session
      BY <1>1, <2>1, <2>4 DEF ExecutionInv, ExecutionShape
    <3> QED
      BY <3>1
  <2>6. x # NoSession => x.try = s.try /\ x.next = s.next + 1 /\ x.spend = s.spend - cost
    OBVIOUS
  <2>7. Tries' = Tries
    <3>1. task \in Task /\ [task EXCEPT !.state = "succeeded"] \in Task
      BY <1>2, <2>1, OutcomeKeeps
    <3>2. [task EXCEPT !.state = "succeeded"].tries = task.tries
      BY <3>1 DEF Task
    <3> QED
      BY <2>1, <3>1, <3>2, TaskAssumption DEF Tries
  <2> HIDE DEF x
  <2>8. Spending(Answered(h, cost), [session EXCEPT ![h] = x], Tries)
    BY <1>1, <2>1, <2>3, <2>5, <2>6, AnswerSpends DEF SpendInv, Answered
  <2> QED
    BY <2>1, <2>7, <2>8 DEF SpendInv
<1>12. ASSUME NEW retryable \in BOOLEAN, FailAttempt(h, retryable)
       PROVE  SpendInv'
  <2>1. session[h] # NoSession /\ EndAttempt(h, retryable)
    BY <1>12 DEF FailAttempt
  <2>2. session[h].at # "none"
    BY <1>1, <2>1, SessionLabels
  <2> QED
    BY <1>4, <2>1, <2>2
<1>13. ASSUME NEW v \in Bundles, RestartHost(h, v)
       PROVE  SpendInv'
  <2>1. session' = [session EXCEPT ![h] = NoSession] /\ UNCHANGED <<calls, task>>
    BY <1>13 DEF RestartHost
  <2>2. Tries' = Tries
    BY <2>1 DEF Tries
  <2> QED
    BY <1>1, <2>1, <2>2, MoveSpends DEF SpendInv
<1> QED
  BY <1>6, <1>7, <1>8, <1>9, <1>10, <1>11, <1>12, <1>13 DEF Attempts

\* No step of any actor lets an attempt spend more than it may.
THEOREM SpendStep == ContentInv /\ SpendInv /\ [ExecutionNext]_allVars => SpendInv'
<1> SUFFICES ASSUME ContentInv, SpendInv, [ExecutionNext]_allVars
             PROVE  SpendInv'
  OBVIOUS
<1>1. ExecutionInv /\ ProvidersInv
  BY DEF ContentInv
<1>2. ASSUME UNCHANGED <<calls, session, task>>
      PROVE  SpendInv'
  BY <1>2 DEF SpendInv, Spending, Tries
<1>3. ASSUME NEW parts \in 1..MaxParts, EnqueueJob(parts)
      PROVE  SpendInv'
  <2>1. asking # NoAsk
    BY <1>3 DEF EnqueueJob, NoAsk
  <2>2. task = None /\ UNCHANGED <<calls, session>>
    BY <1>1, <1>3, <2>1 DEF EnqueueJob, ExecutionInv
  <2> QED
    BY <1>1, <2>2, SpendApart
<1>4. CASE LoseLease
  <2>1. /\ task # None /\ UNCHANGED <<session, calls>>
        /\ task' \in {[task EXCEPT !.state = "queued"], [task EXCEPT !.state = "failed"]}
    BY <1>4 DEF LoseLease
  <2>2. task \in Task
    BY <1>1, <2>1, TaskColumns DEF ExecutionInv
  <2>3. task' \in Task /\ task'.tries = task.tries
    BY <2>1, <2>2 DEF Task
  <2> QED
    BY <1>1, <2>1, <2>3, SpendApart, TaskAssumption
<1>5. ASSUME NEW h \in Hosts, Attempts(h)
      PROVE  SpendInv'
  BY <1>1, <1>5, AttemptSpends
<1>6. CASE \/ \E c \in Clients, v \in Settings : VetSettings(c, v) \/ PutConfig(c, v)
           \/ UNCHANGED executionVars \/ OpenRequest \/ UNCHANGED allVars
  BY <1>2, <1>6 DEF VetSettings, PutConfig, executionVars, OpenRequest, allVars
<1> QED
  BY <1>3, <1>4, <1>5, <1>6 DEF ExecutionNext, executionVars

-----------------------------------------------------------------------------
(* Theorems                                                                *)

\* The documents, the providers, the request, the job and its attempts agree
\* with each other in every reachable state.
THEOREM ContentSafe == ExecutionSpec => []ContentInv
<1>1. ExecutionInit => ContentInv
  BY ExecutionStart
<1>2. ContentInv /\ [ExecutionNext]_allVars => ContentInv'
  BY ExecutionStep, RegistryStep, ProvidersStep DEF ContentInv
<1> QED
  BY <1>1, <1>2, PTL DEF ExecutionSpec

\* The rows of users, providers and jobs keep their types.
THEOREM ContentTyped == ExecutionSpec => []ContentTypeOK
<1>1. ContentInv => ContentTypeOK
  <2> SUFFICES ASSUME ContentInv
               PROVE  ContentTypeOK
    OBVIOUS
  <2>1. RegistryTypeOK
    <3>1. \A h \in Hosts : syncing[h].at \in {"start", "write", "synced"} /\ syncing[h].version \in Bundles
      BY DEF ContentInv, RegistryInv, InstallationShape, Sync
    <3>2. ASSUME NEW d \in Documents
          PROVE  document[d] \in {None} \cup [value : {None} \cup Values(d), revision : Nat]
      <4>1. document[d] \in {None} \cup DocumentRow /\ DocumentValue(d)
        BY DEF ContentInv, RegistryInv, DocumentsInv, DocumentsShape
      <4> QED
        BY <4>1 DEF DocumentValue, DocumentRow
    <3> QED
      BY <3>1, <3>2 DEF ContentInv, RegistryInv, InstallationShape, DocumentsInv, DocumentsShape, LocksUser,
                        RegistryTypeOK
  <2>2. ProvidersTypeOK
    BY EditLabels DEF ContentInv, ProvidersInv, ProvidersShape, ProvidersTypeOK
  <2>3. ExecutionTypeOK
    <3>1. ExecutionShape
      BY DEF ContentInv, ExecutionInv
    <3>2. asking.at \in {"none", "provider"}
      BY <3>1 DEF ExecutionShape, Request, NoAsk
    <3>3. ASSUME NEW h \in Hosts
          PROVE  /\ session[h].at \in
                       {"none", "installation", "config", "binding", "prepare", "broker", "send", "wait"}
                 /\ session[h] # NoSession => session[h].left \in 0..MaxCalls /\ session[h].spend \in 0..MaxSpend
      <4>1. session[h] \in Session
        BY <3>1 DEF ExecutionShape
      <4>2. session[h] # NoSession => session[h] \in Working \/ session[h] \in Calling
        BY <4>1 DEF Session
      <4> QED
        BY <4>1, <4>2, SessionLabels DEF Working, Calling
    <3> QED
      BY <3>1, <3>2, <3>3 DEF ExecutionShape, ExecutionTypeOK
  <2> QED
    BY <2>1, <2>2, <2>3 DEF ContentTypeOK
<1> QED
  BY <1>1, ContentSafe, PTL

\* Every call of a job is made of the provider row, the settings and the part
\* that its identity and its key name, for any number of processes, attempts,
\* editors and clients, and whatever they edit meanwhile.
THEOREM CallsKeepIdentity == ExecutionSpec => []CallsFollowIdentity
<1>1. ContentInv => CallsFollowIdentity
  BY DEF ContentInv, ExecutionInv
<1> QED
  BY <1>1, ContentSafe, PTL

\* The credential of every provider can be opened with the kind of its row.
THEOREM CredentialsReadable == ExecutionSpec => []CredentialsOpen
<1>1. ContentInv => CredentialsOpen
  BY DEF ContentInv, ProvidersInv
<1> QED
  BY <1>1, ContentSafe, PTL

\* No edit of a configuration, a grant or a provider overwrites a row that its
\* author has not seen.
THEOREM EditsBuild == ExecutionSpec => NoEditIsLost
<1>1. ContentInv /\ [ExecutionNext]_allVars =>
         [\A d \in {"config", "grant"} :
             document[d] # None /\ document'[d] # document[d] =>
                 \E c \in Clients : shown[c] = [name |-> d, row |-> document[d]]]_registryVars
  BY ExecutionStep, DocumentBuildsStep DEF ContentInv
<1>2. ContentInv /\ [ExecutionNext]_allVars =>
         [\A p \in Owned : provider'[p] # provider[p] =>
             \E e \in Editors : screen[e] = [id |-> p, row |-> provider[p]]]_providerVars
  BY ExecutionStep, EditsBuildStep DEF ContentInv
<1> QED
  BY <1>1, <1>2, ContentSafe, PTL DEF ExecutionSpec, NoEditIsLost, DocumentEditsBuild, ProviderEditsBuild

\* The pairs of a user never exceed their number or their total size, whichever
\* of any number of clients put and delete pairs at once.
THEOREM QuotaKept == RegistryInit /\ [][RegistryNext]_registryVars => []QuotaHolds
<1>1. RegistryInit => RegistryInv /\ QuotaInv
  BY RegistryStart, QuotaStart
<1>2. RegistryInv /\ QuotaInv /\ [RegistryNext]_registryVars => RegistryInv' /\ QuotaInv'
  BY RegistryStep, QuotaStep
<1>3. QuotaInv => QuotaHolds
  BY DEF QuotaInv
<1> QED
  BY <1>1, <1>2, <1>3, PTL

\* Around a configuration or a grant that is edited at the same time as pairs,
\* no edit overwrites what its author has not seen.
THEOREM DocumentsBuild == RegistryInit /\ [][RegistryNext]_registryVars => DocumentEditsBuild
<1>1. RegistryInit => RegistryInv
  BY RegistryStart
<1>2. RegistryInv /\ [RegistryNext]_registryVars =>
         /\ RegistryInv'
         /\ [\A d \in {"config", "grant"} :
                document[d] # None /\ document'[d] # document[d] =>
                    \E c \in Clients : shown[c] = [name |-> d, row |-> document[d]]]_registryVars
  BY RegistryStep, DocumentBuildsStep
<1> QED
  BY <1>1, <1>2, PTL DEF DocumentEditsBuild

\* Next to the agreement of the rows, the quota and what every attempt spends.
THEOREM LimitsSafe == ExecutionSpec => [](QuotaInv /\ SpendInv)
<1>1. ExecutionInit => QuotaInv /\ SpendInv
  BY QuotaStart, SpendStart DEF ExecutionInit
<1>2. ContentInv /\ QuotaInv /\ SpendInv /\ [ExecutionNext]_allVars => QuotaInv' /\ SpendInv'
  BY ExecutionStep, QuotaStep, SpendStep DEF ContentInv
<1> QED
  BY <1>1, <1>2, ContentSafe, PTL DEF ExecutionSpec

\* The calls of an attempt, with what those still open may cost, never cost more
\* than the attempt may spend, however many processes take the job in turn.
THEOREM SpendingKept == ExecutionSpec => []SpendBounded
<1>1. SpendInv => SpendBounded
  <2> SUFFICES ASSUME SpendInv, NEW try \in 1..MaxTries
               PROVE  MapThenSumSet(LAMBDA c : c.cost, {c \in calls : c.try = try}) <= MaxSpend
    BY Zenon DEF SpendBounded
  <2>1. try \in Nat
    BY ExecutionAssumption
  <2>2. Cost(CallsOf(calls, try)) <= MaxSpend
    BY <2>1 DEF SpendInv, Spending
  <2> QED
    BY <2>2, Zenon DEF Cost, CallsOf
<1> QED
  BY <1>1, LimitsSafe, PTL

\* Types, quota, spending and credentials: what a user may keep and an attempt
\* may spend stays in its limits, and every credential stays readable.
THEOREM ContentSound == ExecutionSpec => []ContentHolds
<1>1. QuotaInv => QuotaHolds
  BY DEF QuotaInv
<1>2. ContentTypeOK /\ QuotaHolds /\ SpendBounded /\ CredentialsOpen => ContentHolds
  BY DEF ContentHolds
<1> QED
  BY <1>1, <1>2, ContentTyped, LimitsSafe, SpendingKept, CredentialsReadable, PTL

=============================================================================
