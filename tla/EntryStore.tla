------------------------------ MODULE EntryStore ------------------------------
(***************************************************************************)
(* The articles of the feeds, what each user has read of them, and the     *)
(* retention of read articles: feeds/persistence.rs, state.rs,             *)
(* bulk_read.rs, article_retention.rs and the frontiers that               *)
(* subscription.rs sets.                                                   *)
(*                                                                         *)
(* An article is what one identity names (a GUID, a URL or a fingerprint), *)
(* whether it is stored or not; its number stands for the random id of its *)
(* row.  A transaction locks the feed, the user or the subscription and is *)
(* one action.  Who may store (the lease) is the concern of FeedRefresh.   *)
(***************************************************************************)
EXTENDS Integers, FiniteSets, Functions

CONSTANTS Users, Feeds,
          Articles,      \* the identities that the feeds list
          FeedOf,        \* the feed of each
          Dates,         \* instants a publication or a commit may have
          InitialVisible,\* INITIAL_VISIBLE_ENTRY_COUNT
          PurgeBatch,    \* rows purged by a pass
          MaxGeneration, \* the last value of the generation counter
          NULL

ASSUME StoreAssumption ==
    /\ Articles \subseteq Nat /\ IsFiniteSet(Articles)
    /\ FeedOf \in [Articles -> Feeds]
    /\ Dates \subseteq Nat /\ Dates # {}
    /\ InitialVisible \in Nat /\ PurgeBatch \in Nat \ {0} /\ MaxGeneration \in Nat
    /\ NULL \notin Nat /\ NULL \notin BOOLEAN

VARIABLES
    generation, \* rss_counters: INGEST_GENERATION
    head,       \* feeds.entry_sequence_head
    entry,      \* the row of an article in entries, or NULL
    retired,    \* retired_entry_identities
    sub,        \* the frontiers of a subscription, or NULL
    state       \* the row of entry_states for a user and an article, or NULL

store == <<generation, head, entry, retired>>
storeVars == <<generation, head, entry, retired, sub, state>>

\* feed_sequence, ingest_generation, sort_at_us; texts and dates are left out.
Row == [seq: Nat \ {0}, gen: Nat, sort: Dates]
Frontier == [start: Nat, through: Nat]
EntryState == [read: BOOLEAN \cup {NULL}, starred: BOOLEAN]

\* A missing row is not a row.
ASSUME RowAssumption == NULL \notin Row \cup Frontier \cup EntryState

EntriesOf(f) == {a \in Articles : FeedOf[a] = f /\ entry[a] # NULL}
Subscribed(u, f) == sub[<<u, f>>] # NULL

\* What the joins of subscriptions and entries select.
Visible(u, a) ==
    /\ entry[a] # NULL
    /\ sub[<<u, FeedOf[a]>>] # NULL
    /\ entry[a].seq > sub[<<u, FeedOf[a]>>].start

\* Read by the frontier, and read once the override of the state row counts.
BaseRead(u, a) == entry[a].seq <= sub[<<u, FeedOf[a]>>].through
OverrideOf(u, a) == IF state[<<u, a>>] = NULL THEN NULL ELSE state[<<u, a>>].read
Starred(u, a) == state[<<u, a>>] # NULL /\ state[<<u, a>>].starred
IsRead(u, a) == IF OverrideOf(u, a) = NULL THEN BaseRead(u, a) ELSE OverrideOf(u, a)

-------------------------------------------------------------------------------
(* The commit of a fetched document: a set of articles with their dates.   *)

\* Identities of the document that are stored, and those that are neither
\* stored nor retired.
Known(doc) == {a \in DOMAIN doc : entry[a] # NULL}
IncomingUnretired(doc) == DOMAIN doc \ Known(doc)
Incoming(doc) == DOMAIN doc \ (Known(doc) \cup retired)

\* The sequence numbers after the head, one for each new article.
Numberings(f, new) ==
    {o \in [new -> head[f] + 1 .. head[f] + Cardinality(new)] :
        \A a, b \in new : o[a] = o[b] => a = b}

NextGeneration(new) == IF new = {} THEN generation ELSE generation + 1

\* A new row sorts by its date, or by the time of the commit.
NewRow(a, doc, seq, gen, time) ==
    [seq |-> seq, gen |-> gen,
     sort |-> IF doc[a] = NULL THEN time ELSE doc[a]]

\* An update replaces texts, hashes and published_at_us, never what gives the
\* row its place.
UpdatedPlace(a, doc) == [entry[a] EXCEPT !.sort = IF doc[a] = NULL THEN @ ELSE doc[a]]
UpdatedRow(a, doc) == entry[a]

\* A counter that is used up fails the commit as a whole.
PersistFeed(f, doc, time) ==
    LET new == Incoming(doc) IN
    /\ NextGeneration(new) <= MaxGeneration
    /\ \E o \in Numberings(f, new) :
         entry' = [a \in Articles |->
             CASE a \in new -> NewRow(a, doc, o[a], NextGeneration(new), time)
               [] a \in Known(doc) -> UpdatedRow(a, doc)
               [] OTHER -> entry[a]]
    /\ generation' = NextGeneration(new)
    /\ head' = [head EXCEPT ![f] = @ + Cardinality(new)]
    /\ UNCHANGED <<retired, sub, state>>

-------------------------------------------------------------------------------
(* Subscriptions, as far as readers see them.                              *)

\* A subscription starts a number of entries before the head of its feed.
FrontierBelow(f) == [start |-> head[f] - InitialVisible, through |-> head[f] - InitialVisible]
InitialFrontier(f) ==
    LET first == IF head[f] > InitialVisible THEN head[f] - InitialVisible ELSE 0
    IN  [start |-> first, through |-> first]

WithoutStates(u, f) ==
    [p \in Users \X Articles |-> IF p[1] = u /\ FeedOf[p[2]] = f THEN NULL ELSE state[p]]

\* By a request or by the import of an OPML document.
Subscribe(u, f) ==
    /\ ~Subscribed(u, f)
    /\ sub' = [sub EXCEPT ![<<u, f>>] = InitialFrontier(f)]
    /\ UNCHANGED <<store, state>>

\* The states refer to the subscription and go with it.
Unsubscribe(u, f) ==
    /\ Subscribed(u, f)
    /\ sub' = [sub EXCEPT ![<<u, f>>] = NULL]
    /\ state' = WithoutStates(u, f)
    /\ UNCHANGED store

\* A new URL keeps the subscription but starts it again on another feed.
MoveSubscription(u, f, g) ==
    /\ f # g
    /\ Subscribed(u, f)
    /\ ~Subscribed(u, g)
    /\ state' = WithoutStates(u, f)
    /\ sub' = [sub EXCEPT ![<<u, f>>] = NULL, ![<<u, g>>] = InitialFrontier(g)]
    /\ UNCHANGED store

-------------------------------------------------------------------------------
(* The state of one entry.                                                 *)

AppliedBlind(u, a, read, starred) ==
    LET override == IF read = NULL THEN OverrideOf(u, a) ELSE read
        star == IF starred = NULL THEN Starred(u, a) ELSE starred
    IN  [read |-> override, starred |-> star]

\* CurrentState::apply: an override is kept only where it differs from the
\* frontier, a row only where it says something.
Applied(u, a, read, starred) ==
    LET override == CASE read = NULL -> OverrideOf(u, a)
                      [] read = BaseRead(u, a) -> NULL
                      [] OTHER -> read
        star == IF starred = NULL THEN Starred(u, a) ELSE starred
    IN  IF override = NULL /\ ~star THEN NULL ELSE [read |-> override, starred |-> star]

UpdateState(u, a, read, starred) ==
    /\ read # NULL \/ starred # NULL
    /\ Visible(u, a)
    /\ state' = [state EXCEPT ![<<u, a>>] = Applied(u, a, read, starred)]
    /\ UNCHANGED <<store, sub>>

-------------------------------------------------------------------------------
(* Mark all as read, up to the generation that the page was loaded at.     *)

\* The entries of a subscription that the page could show.
InFeed(u, f, g) == {a \in EntriesOf(f) : Visible(u, a)}
OnPage(u, f, g) == {a \in EntriesOf(f) : Visible(u, a) /\ entry[a].gen <= g}

MaxSeq(S) == CHOOSE s \in {entry[a].seq : a \in S} : \A a \in S : entry[a].seq <= s

\* The last sequence number on the page: all before it becomes read.
Target(u, f, g) == MaxSeq(OnPage(u, f, g))
Marked(u, scope, g) == {f \in scope : Subscribed(u, f) /\ OnPage(u, f, g) # {}}

\* Overrides up to the target go; a star keeps the row.
Cleared(u, a, target) ==
    LET s == state[<<u, a>>] IN
    IF s = NULL \/ s.read = NULL \/ ~Visible(u, a) \/ entry[a].seq > target THEN s
    ELSE IF s.starred THEN [s EXCEPT !.read = NULL] ELSE NULL

Advanced(u, f, target) ==
    [sub[<<u, f>>] EXCEPT !.through = IF @ < target THEN target ELSE @]

\* "scope" is all feeds, one feed, or those of a category.
MarkRead(u, scope, g) ==
    LET target == [f \in Marked(u, scope, g) |-> Target(u, f, g)] IN
    /\ g <= generation
    /\ UNCHANGED store
    /\ sub' = [p \in Users \X Feeds |->
           IF p[1] = u /\ p[2] \in DOMAIN target
           THEN Advanced(u, p[2], target[p[2]]) ELSE sub[p]]
    /\ state' = [p \in Users \X Articles |->
           IF p[1] = u /\ FeedOf[p[2]] \in DOMAIN target
           THEN Cleared(u, p[2], target[FeedOf[p[2]]]) ELSE state[p]]

-------------------------------------------------------------------------------
(* Retention of read articles.                                             *)

\* The WHERE clause of the purge.  Entries are as old as their generation:
\* "cutoff" tells which are old enough; content_jobs refers to "worked".
Purgeable(cutoff, worked) ==
    {a \in Articles :
        /\ entry[a] # NULL /\ entry[a].gen < cutoff
        /\ \A u \in Users : ~Starred(u, a) /\ OverrideOf(u, a) # FALSE
        /\ \E u \in Users : Visible(u, a)
        /\ \A u \in Users : Visible(u, a) => IsRead(u, a)
        /\ a \notin worked}

\* The states of a deleted entry go with it; its identity stays retired.
PurgeReadArticles(S, cutoff, worked) ==
    /\ S # {} /\ S \subseteq Purgeable(cutoff, worked)
    /\ Cardinality(S) = PurgeBatch \/ (Cardinality(S) < PurgeBatch /\ S = Purgeable(cutoff, worked))
    /\ retired' = retired \cup S
    /\ entry' = [a \in Articles |-> IF a \in S THEN NULL ELSE entry[a]]
    /\ state' = [p \in Users \X Articles |-> IF p[2] \in S THEN NULL ELSE state[p]]
    /\ UNCHANGED <<generation, head, sub>>

-------------------------------------------------------------------------------
StoreInit ==
    /\ generation = 0
    /\ head = [f \in Feeds |-> 0]
    /\ entry = [a \in Articles |-> NULL]
    /\ retired = {}
    /\ sub = [p \in Users \X Feeds |-> NULL]
    /\ state = [p \in Users \X Articles |-> NULL]

Documents(f) == UNION {[S -> Dates \cup {NULL}] : S \in SUBSET {a \in Articles : FeedOf[a] = f}}

\* The time only matters to new entries without a date.
Refresh ==
    \E f \in Feeds : \E doc \in Documents(f) :
        \E time \in (IF \E a \in Incoming(doc) : doc[a] = NULL THEN Dates
                      ELSE {CHOOSE d \in Dates : TRUE}) :
            PersistFeed(f, doc, time)

Organize ==
    \E u \in Users, f \in Feeds :
        \/ Subscribe(u, f)
        \/ Unsubscribe(u, f)
        \/ \E g \in Feeds : MoveSubscription(u, f, g)

Read ==
    \E u \in Users :
        \/ \E a \in Articles : \/ \E read \in BOOLEAN : UpdateState(u, a, read, NULL)
                             \/ \E starred \in BOOLEAN : UpdateState(u, a, NULL, starred)
                             \/ UpdateState(u, a, TRUE, TRUE)
        \/ \E scope \in SUBSET {f \in Feeds : Subscribed(u, f)}, g \in 0..generation :
              MarkRead(u, scope, g)

Retain ==
    \E cutoff \in 1..generation + 1 :
        \E worked \in SUBSET Purgeable(cutoff, {}) :
            \E S \in SUBSET Purgeable(cutoff, worked) : PurgeReadArticles(S, cutoff, worked)

StoreNext == Refresh \/ Organize \/ Read \/ Retain

StoreSpec == StoreInit /\ [][StoreNext]_storeVars

-------------------------------------------------------------------------------
(* Every column keeps its type.                                            *)
StoreTypeOK ==
    /\ generation \in 0..MaxGeneration
    /\ head \in [Feeds -> Nat]
    /\ entry \in [Articles -> Row \cup {NULL}]
    /\ retired \subseteq Articles
    /\ sub \in [Users \X Feeds -> Frontier \cup {NULL}]
    /\ state \in [Users \X Articles -> EntryState \cup {NULL}]

(* A state row exists only for an entry its user can see; it says          *)
(* something; and an override always contradicts the frontier, however     *)
(* edits of one entry, marks of all, purges and moves follow each other    *)
(* (state.rs, bulk_read.rs).  An override that agrees would hide the entry *)
(* from a later mark or keep it from retention.                            *)
OverridesDiffer ==
    \A u \in Users, a \in Articles :
        state[<<u, a>>] # NULL =>
            /\ Visible(u, a)
            /\ state[<<u, a>>].read # NULL \/ state[<<u, a>>].starred
            /\ state[<<u, a>>].read # NULL => state[<<u, a>>].read # BaseRead(u, a)

(* Sequence numbers of a feed run with the generations, which is what lets *)
(* a page with a generation be marked read by one number per feed          *)
(* (persistence.rs, bulk_read.rs).                                         *)
SequencesFollowGenerations ==
    \A a \in Articles : entry[a] # NULL =>
        /\ a \notin retired
        /\ entry[a].seq <= head[FeedOf[a]]
        /\ entry[a].gen <= generation
        /\ \A b \in Articles : entry[b] # NULL /\ FeedOf[a] = FeedOf[b] =>
               /\ entry[a].seq = entry[b].seq => a = b
               /\ entry[a].gen < entry[b].gen => entry[a].seq < entry[b].seq

(* Marking a page read reads every entry the page could show, and no entry *)
(* that a refresh stored after the page was loaded, of this user or        *)
(* another (bulk_read.rs).                                                 *)
ReadsPage(u, scope, g) ==
    \A v \in Users, a \in Articles : Visible(v, a) =>
        IF v = u /\ FeedOf[a] \in scope /\ entry[a].gen <= g
        THEN IsRead(v, a)'
        ELSE IsRead(v, a)' = IsRead(v, a)

MarkIsExact ==
    UNCHANGED store /\ <<sub, state>>' # <<sub, state>>
    /\ (\A p \in Users \X Feeds : sub[p] = NULL <=> sub'[p] = NULL) =>
    \A u \in {v \in Users : \E p \in {v} \X Feeds, q \in {v} \X Articles :
                 sub'[p] # sub[p] \/ state'[q] # state[q]}, g \in 0..generation :
    \A scope \in SUBSET {f \in Feeds : Subscribed(u, f)} :
        MarkRead(u, scope, g) => ReadsPage(u, scope, g)

MarkReadBounded == [][MarkIsExact]_storeVars

(* An entry is newer than every page loaded before it; it keeps the        *)
(* number, generation and place it was stored with; it is deleted only     *)
(* once every subscriber who can see it has read it; and an identity that  *)
(* was deleted is never stored again, though the feed lists it for ever    *)
(* (article_retention.rs, persistence.rs).                                 *)
Lasts(a) ==
    /\ entry[a] = NULL /\ entry'[a] # NULL => entry'[a].gen > generation
    /\ entry[a] # NULL /\ entry'[a] # NULL =>
          /\ entry'[a].seq = entry[a].seq
          /\ entry'[a].gen = entry[a].gen
          /\ entry'[a].sort = entry[a].sort
    /\ entry[a] # NULL /\ entry'[a] = NULL =>
          /\ \A u \in Users : Visible(u, a) => IsRead(u, a) /\ ~Starred(u, a)
          /\ a \in retired'
    /\ a \in retired => a \in retired' /\ entry'[a] = NULL

EntriesLast == [][\A a \in Articles : Lasts(a)]_storeVars

(* Marks read what their page shows and nothing else, and what is stored,  *)
(* kept and retired stays so (bulk_read.rs, persistence.rs).               *)
ReadingIsKept == MarkReadBounded /\ EntriesLast
===============================================================================
