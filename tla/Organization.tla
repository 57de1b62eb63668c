----------------------------- MODULE Organization -----------------------------
(***************************************************************************)
(* Subscriptions and categories as several pages change them at once.      *)
(* feeds/subscription.rs, feeds/opml.rs and organization/category.         *)
(*                                                                         *)
(* Every change is one transaction that locks its user, and no other user. *)
(* Feeds are shared: a request looks for them first and locks the rows it  *)
(* found afterwards, by when they may be gone or others may have appeared. *)
(***************************************************************************)
EXTENDS Integers, Sequences, FiniteSets, SequencesExt, Absence

CONSTANTS
    Owners,           \* users
    Tabs, OwnerOf,    \* pages, and the user of each
    Sources,          \* addresses of feeds
    Shelves,          \* titles of categories, without regard to case
    OpmlFiles,        \* what a file may hold: feeds in order, each with a category or none
    Breakable,      \* feeds an operator may disable
    MaxSubscriptions, \* 1000
    MaxCategories,    \* 250
    MaxTries,         \* 3
    MaxRows, MaxIds,  \* bounds: feeds and subscriptions ever stored
    Snapshots         \* MySQL: the reads of a transaction show the moment of the first

ASSUME OrganizationAssumption ==
    /\ OwnerOf \in [Tabs -> Owners] /\ Breakable \subseteq Sources
    /\ {MaxSubscriptions, MaxCategories, MaxRows, MaxIds} \subseteq Nat /\ MaxTries \in Nat \ {0}
    /\ \A doc \in OpmlFiles :
          /\ doc \in Seq([source : Sources, category : Shelves \cup {None}])
          /\ IsInjective([i \in 1..Len(doc) |-> doc[i].source])
    /\ Snapshots \in BOOLEAN

VARIABLES
    channel,  \* the row of each feed
    follows,  \* the subscriptions
    shelf,    \* the categories of each user
    stored,   \* how many rows and subscriptions there have been
    tab       \* what each page is doing

organizationVars == <<channel, follows, shelf, stored, tab>>

-------------------------------------------------------------------------------
Followers(feeds, row) == {s \in feeds : s.row = row}
Mine(feeds, u) == {s \in feeds : s.owner = u}
Follows(feeds, u, row) == \E s \in feeds : s.owner = u /\ s.row = row
RowOf(source) == IF channel[source] = None THEN None ELSE channel[source].row
Lives(row) == \E source \in Sources : RowOf(source) = row

\* lock_active_user waits for the transaction that holds the row of the user.
Unlocked(u) == \A t \in Tabs : OwnerOf[t] = u /\ tab[t] # None => ~tab[t].locks

At(t, kind, at) == IF tab[t] = None THEN FALSE ELSE tab[t].kind = kind /\ tab[t].at = at
End(t) == tab' = [tab EXCEPT ![t] = None]

\* A request at its first place, which has found nothing yet.
Asked(kind, at, tries, want) ==
    [kind |-> kind, at |-> at, locks |-> FALSE, tries |-> tries, want |-> want,
     found |-> None, from |-> None, shared |-> FALSE]

\* A row that is gone, or one that somebody else inserted meanwhile, ends the
\* transaction; another one starts from the beginning, twice at most.
TryAgain(t, at) ==
    tab' = [tab EXCEPT ![t] =
        IF @.tries = MaxTries THEN None ELSE Asked(@.kind, at, @.tries + 1, @.want)]

Start(t, kind, at, want) ==
    /\ tab[t] = None
    /\ tab' = [tab EXCEPT ![t] = Asked(kind, at, 1, want)]
    /\ UNCHANGED <<channel, follows, shelf, stored>>

Channel == [row : Nat, orphaned : BOOLEAN, disabled : BOOLEAN]

\* What is absent is neither a row, nor the number of one, nor a category.
ASSUME ChannelAssumption == None \notin Channel \cup Nat \cup Shelves

NewChannel(row) == [row |-> row, orphaned |-> FALSE, disabled |-> FALSE]
\* The feed somebody subscribes to, which may have been orphaned.
Taken(feeds, source, row) ==
    IF feeds[source] = None THEN [feeds EXCEPT ![source] = NewChannel(row)]
    ELSE [feeds EXCEPT ![source].orphaned = FALSE]

NextRow(source) == IF channel[source] = None THEN stored.rows + 1 ELSE stored.rows

-------------------------------------------------------------------------------
(* Categories, and the category of a subscription.                         *)

CreateCategory(u, title) ==
    /\ Unlocked(u)
    /\ title \notin shelf[u] /\ Cardinality(shelf[u]) < MaxCategories
    /\ shelf' = [shelf EXCEPT ![u] = @ \cup {title}]
    /\ UNCHANGED <<channel, follows, stored, tab>>

Refiled(u, old, new) ==
    {IF s.owner = u /\ s.category = old THEN [s EXCEPT !.category = new] ELSE s : s \in follows}

RenameCategory(u, old, new) ==
    /\ Unlocked(u)
    /\ old \in shelf[u] /\ new \notin shelf[u]
    /\ shelf' = [shelf EXCEPT ![u] = (@ \ {old}) \cup {new}]
    /\ follows' = Refiled(u, old, new)
    /\ UNCHANGED <<channel, stored, tab>>

\* Its subscriptions stay, without a category.
DeleteCategory(u, title) ==
    /\ Unlocked(u)
    /\ title \in shelf[u]
    /\ shelf' = [shelf EXCEPT ![u] = @ \ {title}]
    /\ follows' = Refiled(u, title, None)
    /\ UNCHANGED <<channel, stored, tab>>

FileUnder(s, category) ==
    /\ Unlocked(s.owner)
    /\ category \in shelf[s.owner] \cup {None}
    /\ follows' = (follows \ {s}) \cup {[s EXCEPT !.category = category]}
    /\ UNCHANGED <<channel, shelf, stored, tab>>

-------------------------------------------------------------------------------
(* Subscribing: the feed is looked for before the transaction.             *)

FindSource(t) ==
    /\ At(t, "subscribe", "find")
    /\ tab' = [tab EXCEPT ![t].at = "write", ![t].found = RowOf(tab[t].want)]
    /\ UNCHANGED <<channel, follows, shelf, stored>>

SubscribeTo(t) ==
    /\ At(t, "subscribe", "write") /\ Unlocked(OwnerOf[t])
    /\ LET u == OwnerOf[t] source == tab[t].want row == NextRow(source) IN
       IF tab[t].found # RowOf(source)
       THEN TryAgain(t, "find") /\ UNCHANGED <<channel, follows, stored>>
       ELSE IF /\ channel[source] # None => ~channel[source].disabled /\ ~Follows(follows, u, RowOf(source))
               /\ Cardinality(Mine(follows, u)) < MaxSubscriptions
       THEN /\ row <= MaxRows /\ stored.ids < MaxIds
            /\ channel' = Taken(channel, source, row)
            /\ follows' = follows \cup
                   {[id |-> stored.ids + 1, owner |-> u, row |-> channel'[source].row, category |-> None]}
            /\ stored' = [rows |-> row, ids |-> stored.ids + 1]
            /\ End(t)
       ELSE End(t) /\ UNCHANGED <<channel, follows, stored>>
    /\ UNCHANGED shelf

\* The subscription is looked for before the transaction, which locks the feed
\* it had then.
FindFollow(t) ==
    /\ At(t, "leave", "find")
    /\ LET found == {s \in Mine(follows, OwnerOf[t]) : s.id = tab[t].want} IN
       IF found = {} THEN End(t)
       ELSE tab' = [tab EXCEPT ![t].at = "write", ![t].found = (CHOOSE s \in found : TRUE).row]
    /\ UNCHANGED <<channel, follows, shelf, stored>>

Orphaned(feeds, row) ==
    [source \in Sources |-> IF feeds[source] = None THEN None
                            ELSE IF feeds[source].row = row THEN [feeds[source] EXCEPT !.orphaned = TRUE]
                            ELSE feeds[source]]

LeaveFeed(t) ==
    /\ At(t, "leave", "write") /\ Unlocked(OwnerOf[t])
    /\ LET row == tab[t].found
           left == {s \in Followers(follows, row) : s.id # tab[t].want}
       IN IF Lives(row) /\ left # Followers(follows, row)
          THEN /\ follows' = {s \in follows : s.id # tab[t].want}
               /\ channel' = IF left = {} THEN Orphaned(channel, row) ELSE channel
          ELSE UNCHANGED <<channel, follows>>
    /\ End(t)
    /\ UNCHANGED <<shelf, stored>>

-------------------------------------------------------------------------------
(* Moving a subscription to another feed.                                  *)

\* The transaction locks its user and reads the subscription: on MySQL this is
\* the moment that its other plain reads show.
OpenMove(t) ==
    /\ At(t, "move", "begin") /\ Unlocked(OwnerOf[t])
    /\ LET found == {s \in Mine(follows, OwnerOf[t]) : s.id = tab[t].want.id} IN
       IF found = {} THEN End(t)
       ELSE LET s == CHOOSE s \in found : TRUE IN
            tab' = [tab EXCEPT ![t].at = "scan", ![t].locks = TRUE, ![t].from = s.row,
                               ![t].shared = (Followers(follows, s.row) # {s}),
                               ![t].found = RowOf(tab[t].want.source)]
    /\ UNCHANGED <<channel, follows, shelf, stored>>

FindTarget(t) ==
    /\ At(t, "move", "scan")
    /\ tab' = [tab EXCEPT ![t].at = "write",
                          ![t].found = IF Snapshots THEN @ ELSE RowOf(tab[t].want.source)]
    /\ UNCHANGED <<channel, follows, shelf, stored>>

\* Mutant: the old feed is orphaned without counting those who stay.
CountsNobody(t) == TRUE
\* count_feed_subscriptions, after the feeds are locked.
NobodyStays(t) ==
    IF Snapshots THEN ~tab[t].shared
    ELSE \A s \in Followers(follows, tab[t].from) : s.id = tab[t].want.id

\* Both feeds are locked, in the order of their ids, and read as they are.
MoveFollow(t) ==
    /\ At(t, "move", "write")
    /\ LET u == OwnerOf[t] source == tab[t].want.source row == NextRow(source) IN
       IF tab[t].found # RowOf(source)
       THEN TryAgain(t, "begin") /\ UNCHANGED <<channel, follows, stored>>
       ELSE IF channel[source] # None => ~channel[source].disabled /\ ~Follows(follows, u, RowOf(source))
       THEN /\ row <= MaxRows
            /\ LET taken == Taken(channel, source, row) IN
               /\ channel' = IF NobodyStays(t) THEN Orphaned(taken, tab[t].from) ELSE taken
               /\ follows' = {IF s.id = tab[t].want.id THEN [s EXCEPT !.row = taken[source].row] ELSE s : s \in follows}
            /\ stored' = [stored EXCEPT !.rows = row]
            /\ End(t)
       ELSE End(t) /\ UNCHANGED <<channel, follows, stored>>
    /\ UNCHANGED shelf

-------------------------------------------------------------------------------
(* Imports and exports.                                                    *)

OpenImport(t) ==
    /\ At(t, "import", "begin") /\ Unlocked(OwnerOf[t])
    /\ tab' = [tab EXCEPT ![t].at = "scan", ![t].locks = TRUE]
    /\ UNCHANGED <<channel, follows, shelf, stored>>

SourcesOf(doc) == {doc[i].source : i \in 1..Len(doc)}

ScanSources(t) ==
    /\ At(t, "import", "scan")
    /\ tab' = [tab EXCEPT ![t].at = "write",
                          ![t].found = [source \in SourcesOf(tab[t].want) |-> RowOf(source)]]
    /\ UNCHANGED <<channel, follows, shelf, stored>>

\* One feed of the document, after those before it.
ImportFeed(u, found, done, item) ==
    LET feed == done.channel[item.source]
        row == IF feed = None THEN done.rows + 1 ELSE feed.row
        new == item.category # None /\ item.category \notin done.shelf
    IN IF done.verdict # "ok" THEN done
       ELSE IF feed # None /\ found[item.source] # row THEN [done EXCEPT !.verdict = "again"]
       ELSE IF feed # None /\ feed.disabled THEN [done EXCEPT !.verdict = "refused"]
       ELSE IF Follows(done.follows, u, row) THEN done
       ELSE IF \/ Cardinality(Mine(done.follows, u)) >= MaxSubscriptions
               \/ (new /\ Cardinality(done.shelf) >= MaxCategories)
       THEN [done EXCEPT !.verdict = "refused"]
       ELSE [verdict |-> "ok",
             channel |-> Taken(done.channel, item.source, row),
             rows |-> IF feed = None THEN row ELSE done.rows,
             ids |-> done.ids + 1,
             shelf |-> IF new THEN done.shelf \cup {item.category} ELSE done.shelf,
             follows |-> done.follows \cup
                 {[id |-> done.ids + 1, owner |-> u, row |-> row, category |-> item.category]}]

\* Mutant: every feed is committed on its own.
ImportedSoFar(u, found, doc) ==
    LET done == FoldLeft(LAMBDA d, item : ImportFeed(u, found, d, item),
            [verdict |-> "ok", channel |-> channel, rows |-> stored.rows, ids |-> stored.ids,
             shelf |-> shelf[u], follows |-> follows], doc)
    IN [done EXCEPT !.verdict = "ok"]
\* import_document, from the locked rows.
Imported(u, found, doc) ==
    FoldLeft(LAMBDA done, item : ImportFeed(u, found, done, item),
        [verdict |-> "ok", channel |-> channel, rows |-> stored.rows, ids |-> stored.ids,
         shelf |-> shelf[u], follows |-> follows], doc)

ImportDocument(t) ==
    /\ At(t, "import", "write")
    /\ LET u == OwnerOf[t] done == Imported(u, tab[t].found, tab[t].want) IN
       CASE done.verdict = "ok" ->
              /\ done.rows <= MaxRows /\ done.ids <= MaxIds
              /\ channel' = done.channel /\ follows' = done.follows
              /\ shelf' = [shelf EXCEPT ![u] = done.shelf]
              /\ stored' = [rows |-> done.rows, ids |-> done.ids]
              /\ End(t)
         [] done.verdict = "again" -> TryAgain(t, "begin") /\ UNCHANGED <<channel, follows, shelf, stored>>
         [] done.verdict = "refused" -> End(t) /\ UNCHANGED <<channel, follows, shelf, stored>>

\* render_opml: the feeds without a category, then category by category; one
\* that holds nothing is left out.
Exported(u) ==
    LET Group(category) == {s \in Mine(follows, u) : s.category = category}
        Items(group) == [i \in 1..Len(group) |->
            [source |-> CHOOSE source \in Sources : RowOf(source) = group[i].row, category |-> group[i].category]]
    IN FlattenSeq([i \in 1..(Cardinality(shelf[u]) + 1) |->
           Items(SetToSeq(Group(IF i = 1 THEN None ELSE SetToSeq(shelf[u])[i - 1])))])

-------------------------------------------------------------------------------
(* Around them: retention deletes what is orphaned, an operator disables.  *)

PurgeOrphan(source) ==
    /\ channel[source] # None
    /\ channel[source].orphaned /\ Followers(follows, channel[source].row) = {}
    /\ channel' = [channel EXCEPT ![source] = None]
    /\ UNCHANGED <<follows, shelf, stored, tab>>

DisableFeed(source) ==
    /\ source \in Breakable /\ channel[source] # None
    /\ channel' = [channel EXCEPT ![source].disabled = TRUE]
    /\ UNCHANGED <<follows, shelf, stored, tab>>

\* A request is dropped, and its transaction rolled back.
DropRequest(t) ==
    /\ tab[t] # None /\ End(t)
    /\ UNCHANGED <<channel, follows, shelf, stored>>

OrganizationInit ==
    /\ channel = [source \in Sources |-> None] /\ follows = {}
    /\ shelf = [u \in Owners |-> {}] /\ stored = [rows |-> 0, ids |-> 0]
    /\ tab = [t \in Tabs |-> None]

Ask(t) ==
    \/ \E source \in Sources : Start(t, "subscribe", "find", source)
    \/ \E s \in Mine(follows, OwnerOf[t]) : Start(t, "leave", "find", s.id)
    \/ \E s \in Mine(follows, OwnerOf[t]), source \in Sources :
           Start(t, "move", "begin", [id |-> s.id, source |-> source])
    \/ \E doc \in OpmlFiles : Start(t, "import", "begin", doc)

OrganizationNext ==
    \/ \E u \in Owners, title \in Shelves :
          \/ CreateCategory(u, title) \/ DeleteCategory(u, title)
          \/ \E new \in Shelves : RenameCategory(u, title, new)
    \/ \E s \in follows, category \in Shelves \cup {None} : FileUnder(s, category)
    \/ \E t \in Tabs :
          \/ Ask(t)
          \/ FindSource(t) \/ SubscribeTo(t) \/ FindFollow(t) \/ LeaveFeed(t)
          \/ OpenMove(t) \/ FindTarget(t) \/ MoveFollow(t)
          \/ OpenImport(t) \/ ScanSources(t) \/ ImportDocument(t)
          \/ DropRequest(t)
    \/ \E source \in Sources : PurgeOrphan(source) \/ DisableFeed(source)

OrganizationSpec == OrganizationInit /\ [][OrganizationNext]_organizationVars

(***************************************************************************)
(* Properties                                                              *)
(***************************************************************************)

Follow == [id : 1..MaxIds, owner : Owners, row : 1..MaxRows, category : Shelves \cup {None}]

OrganizationTypeOK ==
    /\ channel \in [Sources -> Channel \cup {None}]
    /\ follows \subseteq Follow
    /\ shelf \in [Owners -> SUBSET Shelves]
    /\ stored \in [rows : 0..MaxRows, ids : 0..MaxIds]

\* A feed is orphaned when and only when nobody subscribes to it, and nobody
\* subscribes to a feed that is gone.
OrphansHaveNoReaders ==
    /\ \A source \in Sources : channel[source] # None =>
           (channel[source].orphaned <=> Followers(follows, channel[source].row) = {})
    /\ \A s \in follows : Lives(s.row)

\* Whatever a user does at once, the limits hold, no feed is subscribed to
\* twice, and every subscription is in a category that exists.
ShelvesAreSound ==
    \A u \in Owners :
        /\ Cardinality(Mine(follows, u)) <= MaxSubscriptions /\ Cardinality(shelf[u]) <= MaxCategories
        /\ \A s \in Mine(follows, u) :
              /\ s.category \in shelf[u] \cup {None}
              /\ \A other \in Mine(follows, u) : other.row = s.row => other = s

\* Whatever pages change at once, feeds, subscriptions and categories agree.
OrganizationHolds == OrphansHaveNoReaders /\ ShelvesAreSound

\* What one user exports another may import: it has the same feeds in the same
\* categories, unless a feed was disabled since.  (Requests in progress change
\* nothing of this, so that it is enough to look when there are none.)
ExportsImport ==
    \A u, v \in Owners :
        (\A t \in Tabs : tab[t] = None) /\ Mine(follows, v) = {} /\ shelf[v] = {} =>
            LET doc == Exported(u)
                done == Imported(v, [source \in SourcesOf(doc) |-> RowOf(source)], doc)
                Places(w, feeds) == {<<s.row, s.category>> : s \in Mine(feeds, w)}
            IN \/ done.verdict = "refused" /\ \E source \in SourcesOf(doc) : channel[source].disabled
               \/ done.verdict = "ok" /\ Places(v, done.follows) = Places(u, follows)

\* An import is one change: afterwards its user subscribes to all of its feeds,
\* keeps every subscription as it was, and has the new ones where it says.
ImportsAreWhole ==
    [][\A t \in Tabs :
          tab[t] # None /\ tab'[t] = None /\ follows' # follows =>
              (tab[t].kind = "import" =>
                  LET u == OwnerOf[t] doc == tab[t].want new == follows' \ follows IN
                  /\ follows \subseteq follows'
                  /\ \A i \in 1..Len(doc) : channel'[doc[i].source] # None
                                            /\ Follows(follows', u, channel'[doc[i].source].row)
                  /\ \A s \in new : \E i \in 1..Len(doc) :
                        s.owner = u /\ s.row = channel'[doc[i].source].row /\ s.category = doc[i].category)]_organizationVars
===============================================================================
