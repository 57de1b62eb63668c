------------------------------- MODULE EntryList -------------------------------
(***************************************************************************)
(* The list of entries a reader walks through page by page, while feeds    *)
(* are refreshed, entries are read and retention deletes: feeds/query.rs   *)
(* and api/entries.rs over the store of EntryStore.                        *)
(*                                                                         *)
(* A request without a cursor reads the generation and then, in another    *)
(* statement, the rows; the cursor it returns holds the generation and the *)
(* place of the last row, and is all that the next request knows.          *)
(***************************************************************************)
EXTENDS EntryStore, Sequences, SequencesExt

CONSTANTS Readers,  \* users whose walks are modelled
          PageLimit \* ListEntriesQuery.limit

ASSUME ListAssumption == Readers \subseteq Users /\ PageLimit \in Nat \ {0}

VARIABLE walk

listVars == <<generation, head, entry, retired, sub, state, walk>>

Filters == {"ALL", "UNREAD", "STARRED"}

\* The cursor, the rows shown so far, and the rows that matched the filter
\* from the first request on.
Walk == [pc: {"none", "first", "more", "done"}, filter: Filters, gen: Nat,
         last: Articles \cup {NULL}, at: Dates \cup {NULL},
         shown: Seq(Articles), due: SUBSET Articles]
NoWalk == [pc |-> "none", filter |-> "ALL", gen |-> 0, last |-> NULL, at |-> NULL,
           shown |-> <<>>, due |-> {}]

Matches(u, a, filter) ==
    /\ Visible(u, a)
    /\ filter = "UNREAD" => ~IsRead(u, a)
    /\ filter = "STARRED" => Starred(u, a)

\* ORDER BY sort_at_us DESC, id DESC
Before(sortA, a, sortB, b) == sortA > sortB \/ (sortA = sortB /\ a > b)

\* The rows of the statement: in the snapshot, matching, after the cursor.
ListRows(u) ==
    LET w == walk[u] IN
    {a \in Articles :
        /\ Matches(u, a, w.filter)
        /\ entry[a].gen <= w.gen
        /\ w.last # NULL => Before(w.at, w.last, entry[a].sort, a)}

InOrder(S) == CHOOSE rows \in [1..Cardinality(S) -> S] :
    \A i, j \in 1..Cardinality(S) :
        i < j => Before(entry[rows[i]].sort, rows[i], entry[rows[j]].sort, rows[j])

\* LIMIT limit + 1: one row more tells whether there is another page.
HasMore(u) == Cardinality(ListRows(u)) > PageLimit
Page(u) ==
    LET rows == InOrder(ListRows(u)) IN
    IF HasMore(u) THEN SubSeq(rows, 1, PageLimit) ELSE rows

StartWalk(u, filter) ==
    /\ walk' = [walk EXCEPT ![u] =
           [NoWalk EXCEPT !.pc = "first", !.filter = filter, !.gen = generation,
               !.due = {a \in Articles : Matches(u, a, filter)}]]
    /\ UNCHANGED storeVars

\* The next cursor exists only if there is more; without it the walk ends.
FetchPage(u) ==
    LET rows == Page(u)
        shown == walk[u].shown \o rows IN
    /\ walk[u].pc \in {"first", "more"}
    /\ walk' = [walk EXCEPT
           ![u].pc = IF HasMore(u) THEN "more" ELSE "done",
           ![u].shown = shown,
           ![u].last = IF HasMore(u) THEN Last(rows) ELSE NULL,
           ![u].at = IF HasMore(u) THEN entry[Last(rows)].sort ELSE NULL]
    /\ UNCHANGED storeVars

\* What a step of the store leaves of the rows that matched all the time; a
\* walk at its end is forgotten.
StillDue(u) ==
    IF walk[u].pc \in {"none", "done"} THEN NoWalk
    ELSE [walk[u] EXCEPT !.due =
             {a \in @ : \A filter \in Filters :
                            walk[u].filter = filter => Matches(u, a, filter)'}]

StoreStep ==
    /\ StoreNext
    /\ walk' = [u \in Readers |-> StillDue(u)]

ListInit == StoreInit /\ walk = [u \in Readers |-> NoWalk]

ListNext ==
    \/ StoreStep
    \/ \E u \in Readers : FetchPage(u) \/ \E filter \in Filters : StartWalk(u, filter)

ListSpec == ListInit /\ [][ListNext]_listVars

-------------------------------------------------------------------------------
(* The store and every walk keep their types.                              *)
TypeOK == StoreTypeOK /\ walk \in [Readers -> Walk]

(* No entry is shown twice in a walk, and a walk that reached its end has  *)
(* shown every entry that was there when it began and matched its filter   *)
(* all the while, whatever was stored, updated, read, purged or subscribed *)
(* between its pages (query.rs).                                           *)
WalkShowsAll ==
    \A u \in Readers :
        /\ IsInjective(walk[u].shown)
        /\ walk[u].pc = "done" => walk[u].due \subseteq ToSet(walk[u].shown)
===============================================================================
