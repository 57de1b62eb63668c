------------------------------- MODULE Realtime -------------------------------
(***************************************************************************)
(* Events to the open pages of one user: the hub of broadcast channels     *)
(* (realtime.rs), the event stream (api/events.rs), and the page that      *)
(* reloads when it is told that something changed                          *)
(* (web/src/features/reader/model/useReaderRealtimeSync.ts).               *)
(*                                                                         *)
(* "version" counts the committed changes that a page would show.  A       *)
(* change reaches the hub only by a call made after its commit, in the     *)
(* process that made it: the hub is memory of one process, and what other  *)
(* processes commit is committed quietly here.  "told" is the newest state *)
(* that the hub was told of.                                               *)
(*                                                                         *)
(* The timers of the page have no length: one that is set may fire at once.*)
(* A reload that waits for other requests of the page keeps its timer.     *)
(***************************************************************************)
EXTENDS Integers, FiniteSets, FiniteSetsExt, Absence

CONSTANTS Pages,         \* pages of the user
          Connections,   \* event streams that exist at one time
          EventCapacity, \* USER_EVENT_CAPACITY
          MaxChanges,    \* bound on changes
          MaxBreaks      \* bound on lost connections, failed reloads and hidden pages

ASSUME RealtimeAssumption ==
    /\ IsFiniteSet(Connections) /\ EventCapacity \in Nat \ {0}
    /\ MaxChanges \in Nat /\ MaxBreaks \in Nat /\ None \notin Int \cup Connections

VARIABLES
    version,   \* changes committed
    toPublish, \* committed changes whose request or lane is about to publish them
    told,      \* what was committed when the hub was last told of a change
    users,     \* the hub's channel of the user, or None
    sub,       \* the subscription behind each connection, or None
    page,      \* the state of each page
    breaks     \* how many breaks happened

realtimeVars == <<version, toPublish, told, users, sub, page, breaks>>

\* Channels are numbered; one that nobody refers to may be created again.
Channels == 1..Cardinality(Connections) + 1
Subscription == [phase: {"first", "open", "dropping", "dropped"}, channel: Channels,
                 unread: 0..EventCapacity + 1]
ASSUME SubscriptionAssumption == None \notin Subscription

Asked == -1 \* a reload whose answer is still to come
Page == [link: Connections \cup {None}, visible: BOOLEAN, timer: BOOLEAN, pending: BOOLEAN,
         flight: Asked..MaxChanges \cup {None}, failed: BOOLEAN, seen: 0..MaxChanges]

Receivers(c) == {k \in Connections : sub[k] # None /\ sub[k].channel = c}
Used == users # None /\ Receivers(users) # {}
FreshChannel == Min({c \in Channels : c # users /\ Receivers(c) = {}})

SetPage(p, rec) == page' = [page EXCEPT ![p] = rec]
Scheduled(rec) == [rec EXCEPT !.pending = TRUE, !.timer = TRUE]
Break == breaks < MaxBreaks /\ breaks' = breaks + 1

-------------------------------------------------------------------------------
(* The hub.                                                                *)

Commit ==
    /\ version < MaxChanges
    /\ version' = version + 1
    /\ toPublish' = toPublish + 1
    /\ UNCHANGED <<told, users, sub, page, breaks>>

\* A commit that nobody publishes here: its answer was lost, a purge made it, or
\* another process.
CommitQuietly ==
    /\ version < MaxChanges
    /\ version' = version + 1
    /\ UNCHANGED <<toPublish, told, users, sub, page, breaks>>

\* The subscribers cannot be read, or the request is given up after its commit.
LosePublication ==
    /\ toPublish > 0
    /\ toPublish' = toPublish - 1
    /\ UNCHANGED <<version, told, users, sub, page, breaks>>

\* A receiver that is more than the capacity behind has lost events.
Publish ==
    /\ toPublish > 0
    /\ toPublish' = toPublish - 1
    /\ told' = version
    /\ users' = IF Used THEN users ELSE None
    /\ sub' = [k \in Connections |->
           IF users # None /\ k \in Receivers(users)
           THEN [sub[k] EXCEPT !.unread = Min({@ + 1, EventCapacity + 1})] ELSE sub[k]]
    /\ UNCHANGED <<version, page, breaks>>

\* subscribe prunes a channel without receivers, and joins or creates one.
Connect(p, k) ==
    /\ page[p].link = None /\ sub[k] = None
    /\ users' = IF Used THEN users ELSE FreshChannel
    /\ sub' = [sub EXCEPT ![k] = [phase |-> "first", channel |-> users', unread |-> 0]]
    /\ SetPage(p, [page[p] EXCEPT !.link = k])
    /\ UNCHANGED <<version, toPublish, told, breaks>>

\* Mutant: whoever leaves removes the channel.
LastEver == TRUE
LastReceiver == users # None => Cardinality(Receivers(users)) <= 1

\* Drop: the last receiver removes the channel, unless another request holds
\* the lock of the hub; the receiver itself goes after that.
Drop(k) ==
    /\ sub[k] # None
    /\ \/ /\ sub[k].phase = "dropping"
          /\ sub' = [sub EXCEPT ![k].phase = "dropped"]
          /\ users' \in {users, IF LastReceiver THEN None ELSE users}
       \/ /\ sub[k].phase = "dropped"
          /\ sub' = [sub EXCEPT ![k] = None]
          /\ UNCHANGED users
    /\ UNCHANGED <<version, toPublish, told, page, breaks>>

\* The stream begins with a request to synchronize; one that lagged behind
\* gets another and goes on with the events that are left.
Deliver(p) ==
    LET k == page[p].link IN
    /\ k # None
    /\ \/ sub[k].phase = "first" /\ sub' = [sub EXCEPT ![k].phase = "open"]
       \/ sub[k].phase = "open" /\ sub[k].unread > 0 /\ sub' = [sub EXCEPT ![k].unread = @ - 1]
    /\ SetPage(p, Scheduled(page[p]))
    /\ UNCHANGED <<version, toPublish, told, users, breaks>>

\* The connection breaks; the page will ask again.
Disconnect(p) ==
    /\ page[p].link # None
    /\ Break
    /\ sub' = [sub EXCEPT ![page[p].link].phase = "dropping"]
    /\ SetPage(p, Scheduled([page[p] EXCEPT !.link = None]))
    /\ UNCHANGED <<version, toPublish, told, users>>

-------------------------------------------------------------------------------
(* The page.                                                               *)

Hide(p) ==
    /\ page[p].visible
    /\ Break
    /\ SetPage(p, [page[p] EXCEPT !.visible = FALSE])
    /\ UNCHANGED <<version, toPublish, told, users, sub>>

Show(p) ==
    /\ ~page[p].visible
    /\ SetPage(p, Scheduled([page[p] EXCEPT !.visible = TRUE]))
    /\ UNCHANGED <<version, toPublish, told, users, sub, breaks>>

\* sync: nothing while the page is hidden, later while a reload is under way.
Synced(rec) ==
    IF ~rec.visible THEN rec
    ELSE IF rec.flight # None THEN Scheduled(rec)
    ELSE [rec EXCEPT !.pending = FALSE, !.flight = Asked]

TimerFires(p) ==
    /\ page[p].timer
    /\ SetPage(p, Synced([page[p] EXCEPT !.timer = FALSE]))
    /\ UNCHANGED <<version, toPublish, told, users, sub, breaks>>

\* The interval of a minute, for a page without a stream or with a failure.
IntervalFires(p) ==
    /\ page[p].link = None \/ page[p].failed
    /\ SetPage(p, Synced(page[p]))
    /\ UNCHANGED <<version, toPublish, told, users, sub, breaks>>

ServerAnswers(p) ==
    /\ page[p].flight = Asked
    /\ SetPage(p, [page[p] EXCEPT !.flight = version])
    /\ UNCHANGED <<version, toPublish, told, users, sub, breaks>>

\* A reload that was asked for in the meantime is scheduled.
Again(rec) == IF rec.pending THEN Scheduled(rec) ELSE rec

SyncEnds(p) ==
    /\ page[p].flight # None
    /\ \/ /\ page[p].flight # Asked
          /\ SetPage(p, Again([page[p] EXCEPT !.flight = None, !.failed = FALSE, !.seen = page[p].flight]))
          /\ UNCHANGED breaks
       \/ /\ Break
          /\ SetPage(p, Again([page[p] EXCEPT !.flight = None, !.failed = TRUE]))
    /\ UNCHANGED <<version, toPublish, told, users, sub>>

-------------------------------------------------------------------------------
RealtimeInit ==
    /\ version = 0 /\ toPublish = 0 /\ told = 0 /\ users = None
    /\ sub = [k \in Connections |-> None]
    /\ page = [p \in Pages |-> [link |-> None, visible |-> TRUE, timer |-> FALSE,
           pending |-> FALSE, flight |-> None, failed |-> FALSE, seen |-> 0]]
    /\ breaks = 0

PageStep(p) ==
    \/ Deliver(p) \/ TimerFires(p) \/ IntervalFires(p) \/ ServerAnswers(p) \/ SyncEnds(p)

RealtimeNext ==
    \/ Commit \/ CommitQuietly \/ Publish \/ LosePublication
    \/ \E k \in Connections : Drop(k)
    \/ \E p \in Pages :
          PageStep(p) \/ Disconnect(p) \/ Hide(p) \/ Show(p) \/ \E k \in Connections : Connect(p, k)

\* Timers fire, streams and requests are answered.  Nobody needs to publish what
\* was committed, to change anything, to show a page or to reconnect.
RealtimeFairness ==
    /\ \A k \in Connections : WF_realtimeVars(Drop(k))
    /\ \A p \in Pages :
         /\ WF_realtimeVars(Deliver(p))
         /\ WF_realtimeVars(TimerFires(p))
         /\ WF_realtimeVars(IntervalFires(p))
         /\ WF_realtimeVars(ServerAnswers(p))
         /\ WF_realtimeVars(UNCHANGED breaks /\ SyncEnds(p))

RealtimeSpec == RealtimeInit /\ [][RealtimeNext]_realtimeVars /\ RealtimeFairness

-------------------------------------------------------------------------------
(* Every subscription and every page keeps its type.                       *)
RealtimeTypeOK ==
    /\ version \in 0..MaxChanges /\ toPublish \in 0..MaxChanges /\ told \in 0..MaxChanges
    /\ users \in Channels \cup {None}
    /\ sub \in [Connections -> Subscription \cup {None}]
    /\ page \in [Pages -> Page]
    /\ breaks \in 0..MaxBreaks

(* Whatever breaks in between, lost connections and channels, events that  *)
(* were dropped, reloads that fail, changes that come during a reload or   *)
(* while the page is hidden: a page that stays in sight shows in the end   *)
(* everything the hub was told of, and, once it has no stream and asks     *)
(* every minute instead, everything that was committed (realtime.rs;       *)
(* useReaderRealtimeSync.ts).  A change that no hub was told of            *)
(* (feeds/runtime.rs:592-600) may stay unseen on a page whose stream is    *)
(* healthy, until the next event, connection or return to the page.        *)
PagesCatchUp ==
    \A p \in Pages : <>[](page[p].visible) =>
        /\ <>[](page[p].seen >= told)
        /\ <>[](page[p].link = None) => <>[](page[p].seen = version)
===============================================================================
