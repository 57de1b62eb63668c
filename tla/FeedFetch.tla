------------------------------ MODULE FeedFetch ------------------------------
(***************************************************************************)
(* Fetching a feed document over HTTP: HttpFeedTransport and the NAT64     *)
(* snapshots its fetches share.  A fetch resolves the host, approves the   *)
(* addresses under a snapshot of the address policy, reads the snapshot    *)
(* twice more, and requests only from the approved addresses; it follows   *)
(* redirects, and every wait is cut by the deadlines of its stage, of the  *)
(* hop and of the whole fetch.  A snapshot expires; the fetch that finds   *)
(* it so discovers the prefixes again, one fetch at a time.                *)
(*                                                                         *)
(* A moment is a number.  A policy is a set of NAT64 prefixes; CONSTANT  *)
(* Hides says which addresses embed a forbidden one under each.            *)
(***************************************************************************)
EXTENDS Absence, Integers, FiniteSets

CONSTANTS Fetches, Urls, Secure, AllowHttp, Addresses, Public, Nat64Prefixes, Hides,
          MaxDnsResults, MaxRedirects, MaxReplays, MaxBytes, Ttls,
          DnsTimeout, FirstByteTimeout, BodyIdleTimeout, HopTimeout,
          TotalTimeout, MaxMoment

\* An answer that is no longer valid when it comes is refused (resolver.rs, current).
ASSUME FetchAssumption ==
    /\ Ttls \subseteq Nat \ {0}
    /\ {MaxRedirects, MaxReplays, MaxBytes, DnsTimeout, FirstByteTimeout, BodyIdleTimeout,
        HopTimeout, TotalTimeout, MaxMoment} \subseteq Nat

VARIABLES
    moment,    \* the monotonic clock
    policyNow,  \* the shared snapshot, or None before the first discovery
    refreshing, \* the fetches that hold the refresh lock
    fetch,      \* per fetch: its position, URL, deadlines and result
    vetted      \* history: the approved addresses of a fetch that a policy in
                \* force at or after their resolution allows

fetchVars == <<moment, policyNow, refreshing, fetch, vetted>>

WellKnown == {170, 171}
Never == MaxMoment + 1

Snapshot == [generation : Nat, validUntil : Nat, policy : SUBSET Nat64Prefixes]

ASSUME SnapshotAssumption == None \notin Snapshot

\* A fetch that has not begun, and one that has ended.
FetchEnded(result) ==
    [at |-> "ended", back |-> None, url |-> None, first |-> None, secured |-> FALSE,
     redirects |-> 0, replays |-> 0, held |-> None, next |-> None, approved |-> {},
     conditional |-> FALSE, bytes |-> 0, total |-> 0, hop |-> 0, dns |-> 0, wait |-> 0,
     result |-> result]

Unbegun == [FetchEnded(None) EXCEPT !.at = "unbegun"]

Fetching(f) == fetch[f].at \notin {"unbegun", "ended"}

Least(S) == CHOOSE x \in S : \A y \in S : x <= y

SnapshotExpired(snapshot) == moment >= snapshot.validUntil

SameVersion(a, b) == a.generation = b.generation /\ a.validUntil = b.validUntil

Classify(policy, address) ==
    address \in Public /\ \A p \in policy : address \notin Hides[p]

(* The stage a timeout names: the deadline that cut the wait.              *)
TimeoutStage(f, deadline, default) ==
    IF deadline = fetch[f].total THEN "total"
    ELSE IF deadline = fetch[f].hop THEN "hop" ELSE default

\* What cuts every wait of a hop.
CutAtTotal(f) == fetch[f].total
CutAt(f) == Least({fetch[f].hop, fetch[f].total})

(* A fetch ends; its lock on the refresh goes with it.                     *)
EndFetch(f, result) ==
    /\ fetch' = [fetch EXCEPT ![f] = FetchEnded(result)]
    /\ refreshing' = refreshing \ {f}
    /\ vetted' = [vetted EXCEPT ![f] = {}]
    /\ UNCHANGED <<moment, policyNow>>

Continue(f, r) ==
    /\ fetch' = [fetch EXCEPT ![f] = r]
    /\ UNCHANGED <<moment, policyNow, refreshing, vetted>>

\* A fetch that gives its approved addresses up starts their history anew.
Vetted == [g \in Fetches |-> vetted[g] \intersect fetch'[g].approved]

\* A plain URL is normalized only where the deployment allows it.
Acceptable(url) == url \in Secure \/ AllowHttp

-----------------------------------------------------------------------------
(* A hop begins: its deadline, then the first reading of the snapshot.     *)
Hop(r) == [r EXCEPT !.at = "read", !.back = "resolve", !.hop = moment + HopTimeout,
                    !.replays = 0, !.approved = {}, !.conditional = FALSE, !.bytes = 0,
                    !.wait = 0, !.held = None]

BeginFetch(f, url) ==
    /\ fetch[f].at = "unbegun"
    /\ Acceptable(url)
    /\ Continue(f, Hop([Unbegun EXCEPT !.url = url, !.first = url, !.secured = url \in Secure,
                                   !.total = moment + TotalTimeout]))

\* The snapshot is no longer the one the fetch resolved under.
ChangedUnnoticed(f, snapshot) == FALSE
Changed(f, snapshot) == ~SameVersion(fetch[f].held, snapshot)

\* A reading of the snapshot is over, and what it was for goes on.
Reads(f, snapshot) ==
    LET r == fetch[f] IN
    IF r.back = "resolve" THEN
        [r EXCEPT !.at = "resolve", !.back = None, !.held = snapshot, !.next = None,
                  !.dns = Least({moment + DnsTimeout, r.hop, r.total})]
    ELSE IF ~Changed(f, snapshot) THEN
        [r EXCEPT !.at = IF r.back = "confirm" THEN "read" ELSE "execute",
                  !.back = IF r.back = "confirm" THEN "execute" ELSE None, !.next = None]
    ELSE [r EXCEPT !.at = "resolve", !.back = None, !.held = snapshot, !.next = None,
                   !.replays = @ + 1, !.approved = {}]

\* The readings that find a third version give up.
Exhausted(f, snapshot) ==
    /\ fetch[f].back # "resolve"
    /\ Changed(f, snapshot)
    /\ fetch[f].replays >= MaxReplays

AfterReading(f, snapshot) ==
    IF Exhausted(f, snapshot) THEN FetchEnded("replays") ELSE Reads(f, snapshot)

FreshRead(f) ==
    /\ fetch[f].at = "read"
    /\ IF moment >= fetch[f].total THEN EndFetch(f, "total")
       ELSE /\ IF policyNow # None /\ ~SnapshotExpired(policyNow)
               THEN fetch' = [fetch EXCEPT ![f] = AfterReading(f, policyNow)]
               ELSE fetch' = [fetch EXCEPT ![f].at = "lock"]
            /\ vetted' = Vetted
            /\ UNCHANGED <<moment, policyNow, refreshing>>

\* The lock is free: the snapshot is read again, for another may have
\* refreshed it, and discovery begins only if it is still stale.
RefreshUnlocked(f) == f \notin refreshing
NobodyRefreshes(f) == refreshing = {}

LockRefresh(f) ==
    /\ fetch[f].at = "lock"
    /\ NobodyRefreshes(f)
    /\ moment < fetch[f].total
    /\ IF policyNow # None /\ ~SnapshotExpired(policyNow)
       THEN fetch' = [fetch EXCEPT ![f] = AfterReading(f, policyNow)] /\ UNCHANGED refreshing
       ELSE /\ fetch' = [fetch EXCEPT ![f].at = "discover",
                            ![f].wait = Least({fetch[f].total, moment + DnsTimeout})]
            /\ refreshing' = refreshing \union {f}
    /\ vetted' = Vetted
    /\ UNCHANGED <<moment, policyNow>>

LockTimesOut(f) ==
    /\ fetch[f].at = "lock"
    /\ moment >= fetch[f].total
    /\ EndFetch(f, "total")

(* An AAAA answer matches, under each prefix length, at most one prefix    *)
(* that embeds a well-known address.  A prefix counts when both of them    *)
(* were seen under it, and every answer must have exactly one such.        *)
CompletePrefixes(answers) ==
    {p \in Nat64Prefixes : \A w \in WellKnown : \E a \in answers : <<p, w>> \in a}

Unambiguous(answers) ==
    /\ CompletePrefixes(answers) # {}
    /\ \A a \in answers : Cardinality({p \in CompletePrefixes(answers) : \E w \in WellKnown : <<p, w>> \in a}) = 1

\* What discovery may return: no prefixes, or those the answers agree on.
Discovered == {{}} \union
    {CompletePrefixes(answers) : answers \in
        {s \in SUBSET (SUBSET (Nat64Prefixes \X WellKnown)) : Cardinality(s) <= 2 /\ Unambiguous(s)}}

Generation(policy) ==
    IF policyNow = None THEN 1
    ELSE IF policyNow.policy = policy THEN policyNow.generation
    ELSE policyNow.generation + 1

DiscoveryAnswers(f, policy, ttl) ==
    /\ fetch[f].at = "discover"
    /\ moment < fetch[f].wait
    /\ Continue(f, [fetch[f] EXCEPT !.at = "store", !.wait = 0,
                  !.next = [generation |-> Generation(policy), validUntil |-> moment + ttl,
                            policy |-> policy]])

\* Discovery is refused, malformed or late.
DiscoveryFails(f) ==
    /\ fetch[f].at = "discover"
    /\ EndFetch(f, IF moment >= fetch[f].total THEN "total" ELSE "discovery")

StoreSnapshot(f) ==
    /\ fetch[f].at = "store"
    /\ LET s == fetch[f].next IN
       /\ policyNow' = s
       /\ fetch' = [fetch EXCEPT ![f] = AfterReading(f, s)]
       /\ vetted' = [g \in Fetches |->
              {a \in fetch'[g].approved : a \in vetted[g] \/ Classify(s.policy, a)}]
    /\ refreshing' = refreshing \ {f}
    /\ UNCHANGED moment

-----------------------------------------------------------------------------
(* The host is resolved within its deadline, and every address it has must *)
(* be allowed.                                                             *)
ResolveHost(f, answer) ==
    LET r == fetch[f] IN
    /\ r.at = "resolve"
    /\ IF moment >= r.dns THEN EndFetch(f, TimeoutStage(f, r.dns, "dns"))
       ELSE IF answer = {} \/ Cardinality(answer) > MaxDnsResults THEN EndFetch(f, "addresses")
       ELSE IF \E a \in answer : ~Classify(r.held.policy, a) THEN EndFetch(f, "denied")
       ELSE /\ fetch' = [fetch EXCEPT ![f] = [r EXCEPT !.at = "read", !.back = "confirm",
                                                       !.approved = answer]]
            /\ vetted' = [vetted EXCEPT ![f] =
                   IF SnapshotExpired(policyNow) THEN {} ELSE {a \in answer : Classify(policyNow.policy, a)}]
            /\ UNCHANGED <<moment, policyNow, refreshing>>

ResolveFails(f) == fetch[f].at = "resolve" /\ EndFetch(f, "dns-failed")

(* The request: validators go only to the URL they came from.              *)
Reusable(f) == fetch[f].url = fetch[f].first

Execute(f) ==
    LET r == fetch[f] IN
    /\ r.at = "execute"
    /\ IF moment >= CutAt(f) THEN EndFetch(f, TimeoutStage(f, CutAt(f), "hop"))
       ELSE Continue(f, [r EXCEPT !.at = "request", !.conditional = Reusable(f),
                        !.wait = Least({moment + FirstByteTimeout, CutAt(f)})])

\* No answer: the connection fails, or a deadline of the client or of the
\* fetch passes first.
RequestFails(f) ==
    LET r == fetch[f] IN
    /\ r.at = "request"
    /\ EndFetch(f, IF moment >= r.wait THEN TimeoutStage(f, r.wait, "first-byte") ELSE "network")

Answered(f, peer) ==
    /\ fetch[f].at = "request"
    /\ moment < fetch[f].wait
    /\ peer \in fetch[f].approved

WrongPeer(f, peer) ==
    /\ fetch[f].at = "request"
    /\ moment < fetch[f].wait
    /\ peer \notin fetch[f].approved
    /\ EndFetch(f, "peer")

AnswersOk(f, peer) ==
    /\ Answered(f, peer)
    /\ Continue(f, [fetch[f] EXCEPT !.at = "body", !.wait = moment + BodyIdleTimeout])

AnswersNotModified(f, peer) == Answered(f, peer) /\ EndFetch(f, "not-modified")

\* Headers that repeat or cannot be read, and every other status.
AnswersOtherwise(f, peer) == Answered(f, peer) /\ EndFetch(f, "status")

Downgrade(f, location) == fetch[f].url \in Secure /\ location \notin Secure

AnswersRedirect(f, peer, location) ==
    LET r == fetch[f] IN
    /\ Answered(f, peer)
    /\ IF r.redirects + 1 > MaxRedirects THEN EndFetch(f, "redirect-limit")
       ELSE IF ~Acceptable(location) \/ Downgrade(f, location)
       THEN EndFetch(f, "redirect")
       ELSE /\ fetch' = [fetch EXCEPT ![f] = Hop([r EXCEPT !.url = location,
                            !.redirects = @ + 1, !.secured = @ \/ location \in Secure])]
            /\ vetted' = [vetted EXCEPT ![f] = {}]
            /\ UNCHANGED <<moment, policyNow, refreshing>>

(* The body: each chunk moves the idle deadline, never the others.         *)
BodyDeadline(f) == Least({fetch[f].wait, CutAt(f)})

Chunk(f) ==
    /\ fetch[f].at = "body"
    /\ moment < BodyDeadline(f)
    /\ IF fetch[f].bytes = MaxBytes THEN EndFetch(f, "too-large")
       ELSE Continue(f, [fetch[f] EXCEPT !.bytes = @ + 1, !.wait = moment + BodyIdleTimeout])

BodyEnds(f) ==
    /\ fetch[f].at = "body"
    /\ moment < BodyDeadline(f)
    /\ Continue(f, [fetch[f] EXCEPT !.at = "decode", !.wait = 0])

BodyFails(f) ==
    /\ fetch[f].at = "body"
    /\ EndFetch(f, IF moment >= BodyDeadline(f) THEN TimeoutStage(f, BodyDeadline(f), "body-idle")
              ELSE "network")

(* Decoding yields a document within the size and ratio limits, or fails.  *)
Decode(f, decoded) ==
    /\ fetch[f].at = "decode"
    /\ EndFetch(f, IF moment >= CutAt(f) THEN TimeoutStage(f, CutAt(f), "hop")
              ELSE IF decoded THEN "document" ELSE "decode")

MomentPasses ==
    /\ moment < MaxMoment
    /\ moment' = moment + 1
    /\ UNCHANGED <<policyNow, refreshing, fetch, vetted>>

-----------------------------------------------------------------------------
\* NAT64 discovery is automatic, or the prefixes are fixed and never expire.
FetchInit ==
    /\ moment = 0
    /\ policyNow \in {None} \union
           {[generation |-> 0, validUntil |-> Never, policy |-> p] : p \in SUBSET Nat64Prefixes}
    /\ refreshing = {}
    /\ fetch = [f \in Fetches |-> Unbegun]
    /\ vetted = [f \in Fetches |-> {}]

Waits(f) ==
    \/ FreshRead(f) \/ LockRefresh(f) \/ LockTimesOut(f)
    \/ \E policy \in Discovered, ttl \in Ttls : DiscoveryAnswers(f, policy, ttl)
    \/ DiscoveryFails(f) \/ StoreSnapshot(f)
    \/ \E answer \in SUBSET Addresses : ResolveHost(f, answer)
    \/ ResolveFails(f)

Talks(f) ==
    \/ Execute(f) \/ RequestFails(f)
    \/ \E peer \in Addresses :
          \/ WrongPeer(f, peer) \/ AnswersOk(f, peer) \/ AnswersNotModified(f, peer)
          \/ AnswersOtherwise(f, peer)
          \/ \E location \in Urls : AnswersRedirect(f, peer, location)
    \/ Chunk(f) \/ BodyEnds(f) \/ BodyFails(f)
    \/ \E decoded \in BOOLEAN : Decode(f, decoded)

FetchNext ==
    \/ \E f \in Fetches : (\E url \in Urls : BeginFetch(f, url)) \/ Waits(f) \/ Talks(f)
    \/ MomentPasses

FetchSpec == FetchInit /\ [][FetchNext]_fetchVars

-----------------------------------------------------------------------------
FetchTypeOK ==
    /\ moment \in 0..MaxMoment
    /\ policyNow \in Snapshot \union {None}
    /\ refreshing \subseteq Fetches
    /\ \A f \in Fetches :
          /\ fetch[f].redirects \in 0..MaxRedirects
          /\ fetch[f].replays \in 0..MaxReplays
          /\ fetch[f].bytes \in 0..MaxBytes
          /\ fetch[f].approved \subseteq Addresses
          /\ vetted[f] \subseteq fetch[f].approved

(* What a fetch asks for is safe, whatever happened to the policy while it *)
(* waited: every address it may connect to is allowed by a policy in force *)
(* since the name was resolved, no request is plain after a secure one,    *)
(* and validators reach only the URL they belong to.                       *)
RequestsAreSafe ==
    \A f \in Fetches : fetch[f].at \in {"request", "body", "decode"} =>
        /\ fetch[f].approved \subseteq vetted[f]
        /\ fetch[f].secured => fetch[f].url \in Secure
        /\ fetch[f].conditional => fetch[f].url = fetch[f].first

(* A version names a policy: a fetch that sees the version it holds again  *)
(* sees the policy it approved its addresses under, even when two fetches  *)
(* found the snapshot stale at the same time.                              *)
VersionNamesPolicy ==
    \A f \in Fetches :
        fetch[f].held # None /\ policyNow # None /\ SameVersion(fetch[f].held, policyNow)
            => fetch[f].held.policy = policyNow.policy

(* Whatever is refreshed or redirected meanwhile, requests go to addresses *)
(* that the policy in use allows, and a version names one policy.          *)
PolicyHolds == RequestsAreSafe /\ VersionNamesPolicy

(* A fetch that answers does so before the deadlines of its last hop and   *)
(* of the whole, however slowly the peer sends; and the deadline that a    *)
(* timeout names has passed.                                               *)
EndsInTime ==
    [][\A f \in Fetches : Fetching(f) /\ ~Fetching(f)' =>
          LET r == fetch[f] ended == fetch'[f].result IN
          /\ ended \in {"document", "not-modified"} => moment < r.hop /\ moment < r.total
          /\ ended = "total" => moment >= r.total
          /\ ended = "hop" => moment >= r.hop]_fetchVars
===============================================================================
