--------------------------- MODULE FeedFetchProofs ---------------------------
(***************************************************************************)
(* What a fetch may ask for, and when it ends, for any number of fetches,  *)
(* addresses, prefixes, redirects and moments.                             *)
(***************************************************************************)
EXTENDS FeedFetch, TLAPS

Reading == {"read", "lock", "discover", "store"}
Discovering == {"discover", "store"}
Talking == {"execute", "request", "body", "decode"}

FetchResult ==
    {"total", "hop", "dns", "first-byte", "body-idle", "replays", "discovery", "addresses",
     "denied", "dns-failed", "network", "peer", "not-modified", "status", "redirect-limit",
     "redirect", "too-large", "document", "decode"}

FetchState ==
    [at : {"unbegun", "resolve", "ended"} \cup Reading \cup Talking,
     back : {None, "resolve", "confirm", "execute"}, url : Urls \cup {None},
     first : Urls \cup {None}, secured : BOOLEAN, redirects : 0..MaxRedirects,
     replays : 0..MaxReplays, held : Snapshot \cup {None}, next : Snapshot \cup {None},
     approved : SUBSET Addresses, conditional : BOOLEAN, bytes : 0..MaxBytes,
     total : Int, hop : Int, dns : Int, wait : Int, result : FetchResult \cup {None}]

FetchShape ==
    /\ moment \in 0..MaxMoment
    /\ policyNow \in Snapshot \cup {None}
    /\ refreshing \subseteq Fetches
    /\ fetch \in [Fetches -> FetchState]
    /\ vetted \in [Fetches -> SUBSET Addresses]

\* A snapshot that was in force: it is p, or p is a later one.
SeenBefore(snapshot, p) ==
    p # None /\ (snapshot = p \/ snapshot.validUntil < p.validUntil)

\* The addresses of a fetch are vetted when it may use them: after a reading
\* that found the snapshot they were resolved under still in force.
Confirmed(r, p, t) ==
    \/ r.at \in Reading /\ r.back = "confirm" /\ r.held = p /\ p # None /\ t < p.validUntil
    \/ r.at \in Reading /\ r.back = "execute"
    \/ r.at \in Talking

\* A fetch r with the vetted addresses v, under the policy p at the moment t.
Sound(r, v, p, t) ==
    /\ v \subseteq r.approved
    /\ Confirmed(r, p, t) => r.approved \subseteq v
    /\ r.at = "unbegun" => r.approved = {}
    /\ r.held # None => SeenBefore(r.held, p)
    /\ r.at \in Reading => r.back \in {"resolve", "confirm", "execute"}
    /\ r.at = "resolve" \/ (r.at \in Reading /\ r.back # "resolve") => r.held # None
    /\ r.at \in Discovering => p = None \/ t >= p.validUntil
    /\ r.at = "store" => r.next # None /\ (p # None => p.validUntil < r.next.validUntil)
    /\ r.secured => r.url \in Secure
    /\ r.conditional => r.url = r.first
    /\ r.at = "request" => r.wait <= r.hop /\ r.wait <= r.total

\* Whoever holds the lock discovers or stores.
OneRefreshes ==
    /\ \A f \in Fetches : f \in refreshing <=> fetch[f].at \in Discovering
    /\ \A f, g \in refreshing : f = g

FetchInv ==
    /\ FetchShape
    /\ \A f \in Fetches : Sound(fetch[f], vetted[f], policyNow, moment)
    /\ OneRefreshes

-----------------------------------------------------------------------------
(* One fetch at a time *)

\* A fetch that has ended, for any reason, asks for nothing.
LEMMA EndedState ==
    ASSUME NEW result \in FetchResult \cup {None}
    PROVE  /\ FetchEnded(result) \in FetchState
           /\ \A p, t : Sound(FetchEnded(result), {}, p, t)
           /\ FetchEnded(result).at = "ended"
<1> DEFINE r == FetchEnded(result)
<1>1. /\ r.at = "ended" /\ r.approved = {} /\ r.held = None /\ ~r.secured /\ ~r.conditional
  BY DEF FetchEnded
<1>2. r \in FetchState
  BY FetchAssumption DEF FetchEnded, FetchState
<1> HIDE DEF r
<1>3. \A p, t : Sound(r, {}, p, t)
  BY <1>1 DEF Sound, Confirmed, Reading, Talking, Discovering
<1> QED
  BY <1>1, <1>2, <1>3 DEF r

\* A step of one fetch: it changes to x, with the vetted addresses v.  The
\* others keep their addresses vetted.
Moves(f, x, v) ==
    /\ FetchInv
    /\ f \in Fetches /\ x \in FetchState /\ v \in SUBSET Addresses
    /\ fetch' = [fetch EXCEPT ![f] = x]
    /\ vetted' \in [Fetches -> SUBSET Addresses] /\ vetted'[f] = v
    /\ \A g \in Fetches \ {f} :
          vetted'[g] \subseteq fetch[g].approved /\ (fetch[g].approved \subseteq vetted[g] => fetch[g].approved \subseteq vetted'[g])
    /\ refreshing' = IF x.at \in Discovering THEN refreshing \cup {f} ELSE refreshing \ {f}
    /\ x.at \in Discovering => refreshing \subseteq {f}

\* The fetches after a step of one of them.
LEMMA Moved ==
    ASSUME NEW f, NEW x, NEW v, Moves(f, x, v)
    PROVE  /\ fetch'[f] = x /\ \A g \in Fetches \ {f} : fetch'[g] = fetch[g]
           /\ fetch' \in [Fetches -> FetchState] /\ refreshing' \subseteq Fetches
           /\ OneRefreshes'
<1>1. /\ fetch'[f] = x /\ \A g \in Fetches \ {f} : fetch'[g] = fetch[g]
      /\ fetch' \in [Fetches -> FetchState] /\ refreshing' \subseteq Fetches
  BY DEF Moves, FetchInv, FetchShape
<1>2. OneRefreshes'
  BY <1>1 DEF Moves, FetchInv, OneRefreshes
<1> QED
  BY <1>1, <1>2

\* The snapshot stays as it is.
LEMMA MoveKeeps ==
    ASSUME NEW f, NEW x, NEW v, Moves(f, x, v), Sound(x, v, policyNow, moment),
           UNCHANGED <<moment, policyNow>>
    PROVE  FetchInv'
<1>1. /\ fetch'[f] = x /\ \A g \in Fetches \ {f} : fetch'[g] = fetch[g]
      /\ fetch' \in [Fetches -> FetchState] /\ refreshing' \subseteq Fetches
      /\ OneRefreshes'
  BY Moved
<1>2. FetchShape'
  BY <1>1 DEF Moves, FetchInv, FetchShape
<1>3. PICK p, t : p = policyNow /\ t = moment
  OBVIOUS
<1>4. ASSUME NEW g \in Fetches
      PROVE  Sound(fetch'[g], vetted'[g], p, t)
  <2>1. CASE g = f
    BY <1>1, <1>3, <2>1 DEF Moves
  <2>2. CASE g # f
    <3>1. Sound(fetch[g], vetted[g], p, t)
      BY <1>3 DEF Moves, FetchInv
    <3>2. /\ vetted'[g] \subseteq fetch[g].approved
          /\ fetch[g].approved \subseteq vetted[g] => fetch[g].approved \subseteq vetted'[g]
      BY <2>2 DEF Moves
    <3> QED
      BY <1>1, <2>2, <3>1, <3>2 DEF Sound
  <2> QED
    BY <2>1, <2>2
<1>5. \A g \in Fetches : Sound(fetch'[g], vetted'[g], policyNow', moment')
  BY <1>3, <1>4
<1> QED
  BY <1>1, <1>2, <1>5 DEF FetchInv, Sound, Confirmed, SeenBefore

\* A fetch ends.
LEMMA EndKeeps ==
    ASSUME FetchInv, NEW f \in Fetches, NEW result \in FetchResult, EndFetch(f, result)
    PROVE  FetchInv'
<1>1. PICK x : x = FetchEnded(result)
  OBVIOUS
<1>2. x \in FetchState /\ Sound(x, {}, policyNow, moment) /\ x.at = "ended"
  BY <1>1, EndedState
<1>3. /\ fetch' = [fetch EXCEPT ![f] = x] /\ refreshing' = refreshing \ {f}
      /\ vetted' = [vetted EXCEPT ![f] = {}] /\ UNCHANGED <<moment, policyNow>>
  BY <1>1 DEF EndFetch
<1>4. \A g \in Fetches \ {f} : vetted'[g] = vetted[g] /\ vetted[g] \subseteq fetch[g].approved
  BY <1>3 DEF FetchInv, FetchShape, Sound
<1>5. vetted' \in [Fetches -> SUBSET Addresses] /\ vetted'[f] = {}
  BY <1>3 DEF FetchInv, FetchShape
<1>6. Moves(f, x, {})
  BY <1>2, <1>3, <1>4, <1>5 DEF Moves, Discovering
<1> QED
  BY <1>2, <1>3, <1>6, MoveKeeps

\* A fetch goes on, with the addresses it has.
LEMMA ContinueKeeps ==
    ASSUME FetchInv, NEW f \in Fetches, NEW x \in FetchState, Continue(f, x),
           Sound(x, vetted[f], policyNow, moment),
           x.at \in Discovering <=> fetch[f].at \in Discovering
    PROVE  FetchInv'
<1>1. fetch' = [fetch EXCEPT ![f] = x] /\ UNCHANGED <<moment, policyNow, refreshing, vetted>>
  BY DEF Continue
<1>2. refreshing' = IF x.at \in Discovering THEN refreshing \cup {f} ELSE refreshing \ {f}
  BY <1>1 DEF FetchInv, OneRefreshes
<1>3. x.at \in Discovering => refreshing \subseteq {f}
  BY DEF FetchInv, OneRefreshes
<1>4. \A g \in Fetches \ {f} : vetted'[g] = vetted[g] /\ vetted[g] \subseteq fetch[g].approved
  BY <1>1 DEF FetchInv, Sound
<1>5. vetted' \in [Fetches -> SUBSET Addresses] /\ vetted[f] \in SUBSET Addresses
  BY <1>1 DEF FetchInv, FetchShape
<1>6. Moves(f, x, vetted[f])
  BY <1>1, <1>2, <1>3, <1>4, <1>5 DEF Moves
<1> QED
  BY <1>1, <1>6, MoveKeeps

-----------------------------------------------------------------------------
(* Readings of the snapshot *)

\* A deadline is a number.
LEMMA LeastOfTwo ==
    ASSUME NEW a \in Int, NEW b \in Int
    PROVE  /\ Least({a, b}) \in {a, b} /\ Least({a, b}) <= a /\ Least({a, b}) <= b
<1>1. \E x \in {a, b} : \A y \in {a, b} : x <= y
  <2>1. CASE a <= b
    BY <2>1
  <2>2. CASE b < a
    BY <2>2
  <2> QED
    BY <2>1, <2>2
<1> QED
  BY <1>1 DEF Least

\* The least of three deadlines is one of them.
LEMMA LeastOfThree ==
    ASSUME NEW a \in Int, NEW b \in Int, NEW c \in Int
    PROVE  Least({a, b, c}) \in {a, b, c}
<1>1. \E x \in {a, b, c} : \A y \in {a, b, c} : x <= y
  <2>1. CASE a <= b /\ a <= c
    BY <2>1
  <2>2. CASE b <= a /\ b <= c
    BY <2>2
  <2>3. CASE c <= a /\ c <= b
    BY <2>3
  <2> QED
    BY <2>1, <2>2, <2>3
<1> QED
  BY <1>1 DEF Least

\* What a reading that finds the snapshot s leaves of a fetch.  It goes on to
\* use its addresses only if s is the version they were resolved under.
LEMMA ReadingSound ==
    ASSUME FetchInv, NEW f \in Fetches, fetch[f].at \in Reading, NEW s \in Snapshot,
           NEW v \in SUBSET Addresses, v \subseteq AfterReading(f, s).approved,
           fetch[f].held # None => SeenBefore(fetch[f].held, s),
           fetch[f].back # "resolve" /\ ~Changed(f, s) => fetch[f].approved \subseteq v
    PROVE  /\ AfterReading(f, s) \in FetchState
           /\ Sound(AfterReading(f, s), v, s, moment)
           /\ AfterReading(f, s).at \notin Discovering
<1>1. PICK r : r = fetch[f]
  OBVIOUS
<1>2. PICK x : x = AfterReading(f, s)
  OBVIOUS
<1>3. /\ r \in FetchState /\ r.back \in {"resolve", "confirm", "execute"}
      /\ r.secured => r.url \in Secure
      /\ r.conditional => r.url = r.first
  BY <1>1 DEF FetchInv, FetchShape, Sound
<1>4. s # None /\ SeenBefore(s, s)
  BY SnapshotAssumption DEF SeenBefore
<1>5. CASE Exhausted(f, s)
  <2>1. x = FetchEnded("replays")
    BY <1>2, <1>5 DEF AfterReading
  <2>2. v = {}
    BY <1>2, <2>1 DEF FetchEnded
  <2> QED
    <3>1. "replays" \in FetchResult \cup {None}
      BY DEF FetchResult
    <3>2. x \in FetchState /\ Sound(x, {}, s, moment) /\ x.at = "ended"
      BY <2>1, <3>1, EndedState
    <3> QED
      BY <1>2, <2>2, <3>2 DEF Discovering
<1>6. CASE ~Exhausted(f, s)
  <2>1. x = Reads(f, s)
    BY <1>2, <1>6 DEF AfterReading
  <2>2. CASE r.back = "resolve"
    <3>1. PICK d : d = Least({moment + DnsTimeout, r.hop, r.total})
      OBVIOUS
    <3>2. d \in Int
      <4>1. moment + DnsTimeout \in Int /\ r.hop \in Int /\ r.total \in Int
        BY <1>3, FetchAssumption DEF FetchInv, FetchShape, FetchState
      <4> QED
        BY <3>1, <4>1, LeastOfThree
    <3>3. x = [r EXCEPT !.at = "resolve", !.back = None, !.held = s, !.next = None, !.dns = d]
      BY <1>1, <2>1, <2>2, <3>1 DEF Reads
    <3>4. x \in FetchState
      BY <1>3, <3>2, <3>3 DEF FetchState
    <3>5. /\ x.at = "resolve" /\ x.held = s /\ x.secured = r.secured /\ x.url = r.url
          /\ x.conditional = r.conditional /\ x.first = r.first
      BY <1>3, <3>3 DEF FetchState
    <3> QED
      BY <1>2, <1>3, <1>4, <3>4, <3>5 DEF Sound, Confirmed, Reading, Talking, Discovering
  <2>3. CASE r.back # "resolve" /\ ~Changed(f, s)
    <3>1. \/ x = [r EXCEPT !.at = "read", !.back = "execute", !.next = None]
          \/ x = [r EXCEPT !.at = "execute", !.back = None, !.next = None]
      BY <1>1, <2>1, <2>3 DEF Reads
    <3>2. x \in FetchState
      <4>1. CASE x = [r EXCEPT !.at = "read", !.back = "execute", !.next = None]
        BY <1>3, <4>1 DEF FetchState, Reading
      <4>2. CASE x = [r EXCEPT !.at = "execute", !.back = None, !.next = None]
        BY <1>3, <4>2 DEF FetchState, Talking
      <4> QED
        BY <3>1, <4>1, <4>2
    <3>3. /\ x.held = r.held /\ x.secured = r.secured /\ x.url = r.url
          /\ x.conditional = r.conditional /\ x.first = r.first /\ x.approved = r.approved
          /\ (x.at = "read" /\ x.back = "execute") \/ x.at = "execute"
      BY <1>3, <3>1, ZenonT(60) DEF FetchState
    <3>4. r.approved \subseteq v /\ r.held # None
      BY <1>1, <2>3 DEF FetchInv, Sound
    <3>5. SeenBefore(r.held, s)
      BY <1>1, <3>4
    <3> QED
      BY <1>2, <1>3, <1>4, <3>2, <3>3, <3>4, <3>5 DEF Sound, Confirmed, Reading, Talking, Discovering
  <2>4. CASE r.back # "resolve" /\ Changed(f, s)
    <3>1. x = [r EXCEPT !.at = "resolve", !.back = None, !.held = s, !.next = None,
                        !.replays = r.replays + 1, !.approved = {}]
      BY <1>1, <2>1, <2>4 DEF Reads
    <3>2. r.replays + 1 \in 0..MaxReplays
      BY <1>1, <1>3, <1>6, <2>4, FetchAssumption DEF Exhausted, FetchState
    <3>3. x \in FetchState
      BY <1>3, <3>1, <3>2 DEF FetchState
    <3>4. /\ x.at = "resolve" /\ x.held = s /\ x.secured = r.secured /\ x.url = r.url
          /\ x.conditional = r.conditional /\ x.first = r.first
      BY <1>3, <3>1 DEF FetchState
    <3> QED
      BY <1>2, <1>3, <1>4, <3>3, <3>4 DEF Sound, Confirmed, Reading, Talking, Discovering
  <2> QED
    BY <2>2, <2>3, <2>4
<1> QED
  BY <1>5, <1>6

\* A step of one fetch that gives up the addresses x has not.
LEMMA VettedMoves ==
    ASSUME FetchInv, NEW f \in Fetches, NEW x \in FetchState,
           fetch' = [fetch EXCEPT ![f] = x], vetted' = Vetted,
           refreshing' = IF x.at \in Discovering THEN refreshing \cup {f} ELSE refreshing \ {f},
           x.at \in Discovering => refreshing \subseteq {f}
    PROVE  Moves(f, x, vetted[f] \cap x.approved)
<1>1. fetch'[f] = x /\ \A g \in Fetches \ {f} : fetch'[g] = fetch[g]
  BY DEF FetchInv, FetchShape
<1>2. vetted' = [g \in Fetches |-> vetted[g] \intersect fetch'[g].approved]
  BY DEF Vetted
<1>3. \A g \in Fetches : vetted[g] \in SUBSET Addresses
  BY DEF FetchInv, FetchShape
<1>4. /\ vetted' \in [Fetches -> SUBSET Addresses] /\ vetted'[f] = vetted[f] \cap x.approved
      /\ \A g \in Fetches \ {f} : vetted'[g] = vetted[g] \cap fetch[g].approved
  BY <1>1, <1>2, <1>3
<1>5. vetted[f] \cap x.approved \in SUBSET Addresses
  BY <1>3
<1> QED
  BY <1>4, <1>5 DEF Moves

\* A reading that finds the snapshot in force.
LEMMA UsesKeeps ==
    ASSUME FetchInv, NEW f \in Fetches, fetch[f].at \in {"read", "lock"},
           policyNow # None, ~SnapshotExpired(policyNow),
           fetch' = [fetch EXCEPT ![f] = AfterReading(f, policyNow)], vetted' = Vetted,
           UNCHANGED <<moment, policyNow, refreshing>>
    PROVE  FetchInv'
<1>1. PICK x : x = AfterReading(f, policyNow)
  OBVIOUS
<1>2. PICK v : v = vetted[f] \cap x.approved
  OBVIOUS
<1>3. policyNow \in Snapshot /\ fetch[f].at \in Reading /\ v \in SUBSET Addresses /\ v \subseteq x.approved
  BY <1>2 DEF FetchInv, FetchShape, Reading
<1>4. Sound(fetch[f], vetted[f], policyNow, moment)
  BY DEF FetchInv
<1>5. ASSUME fetch[f].back # "resolve", ~Changed(f, policyNow)
      PROVE  fetch[f].approved \subseteq v
  <2>1. fetch[f].held # None /\ fetch[f].back \in {"confirm", "execute"}
    BY <1>3, <1>4, <1>5 DEF Sound
  <2>2. fetch[f].held = policyNow
    <3>1. fetch[f].held.validUntil = policyNow.validUntil /\ policyNow.validUntil \in Nat
      BY <1>3, <1>5 DEF Changed, SameVersion, Snapshot
    <3>2. SeenBefore(fetch[f].held, policyNow)
      BY <1>4, <2>1 DEF Sound
    <3> QED
      BY <3>1, <3>2 DEF SeenBefore
  <2>3. moment < policyNow.validUntil
    BY <1>3 DEF SnapshotExpired, Snapshot, FetchInv, FetchShape
  <2>4. fetch[f].approved \subseteq vetted[f]
    BY <1>3, <1>4, <2>1, <2>2, <2>3 DEF Sound, Confirmed
  <2>5. x.approved = fetch[f].approved
    <3>1. ~Exhausted(f, policyNow) /\ x = Reads(f, policyNow)
      BY <1>1, <1>5 DEF Exhausted, AfterReading
    <3>2. fetch[f] \in FetchState
      BY DEF FetchInv, FetchShape
    <3> QED
      BY <1>5, <3>1, <3>2 DEF Reads, FetchState
  <2> QED
    BY <1>2, <2>4, <2>5
<1>6. fetch[f].held # None => SeenBefore(fetch[f].held, policyNow)
  BY <1>4 DEF Sound
<1>7. x \in FetchState /\ Sound(x, v, policyNow, moment) /\ x.at \notin Discovering
  BY <1>1, <1>3, <1>5, <1>6, ReadingSound
<1>8. f \notin refreshing
  BY DEF FetchInv, OneRefreshes, Discovering
<1>9. refreshing' = refreshing \ {f}
  BY <1>8
<1>10. Moves(f, x, v)
  BY <1>1, <1>2, <1>7, <1>9, VettedMoves
<1> QED
  BY <1>7, <1>10, MoveKeeps

\* A fetch that goes to another place of its reading.
LEMMA PlaceKeeps ==
    ASSUME FetchInv, NEW f \in Fetches, NEW x \in FetchState,
           fetch[f].at \in {"read", "lock"}, x.at \in Reading \ {"store"},
           x.at = "discover" => refreshing = {} /\ (policyNow = None \/ SnapshotExpired(policyNow)),
           x.back = fetch[f].back, x.held = fetch[f].held, x.approved = fetch[f].approved,
           x.secured = fetch[f].secured, x.url = fetch[f].url, x.conditional = fetch[f].conditional,
           x.first = fetch[f].first,
           fetch' = [fetch EXCEPT ![f] = x], vetted' = Vetted, UNCHANGED <<moment, policyNow>>,
           refreshing' = IF x.at = "discover" THEN refreshing \cup {f} ELSE refreshing
    PROVE  FetchInv'
<1>1. Sound(fetch[f], vetted[f], policyNow, moment)
  BY DEF FetchInv
<1>2. PICK v : v = vetted[f] \cap x.approved
  OBVIOUS
<1>3. v = vetted[f]
  BY <1>1, <1>2 DEF Sound
<1>4. Sound(x, v, policyNow, moment)
  BY <1>1, <1>3 DEF Sound, Confirmed, Reading, Talking, Discovering, SnapshotExpired
<1>5. f \notin refreshing
  BY DEF FetchInv, OneRefreshes, Discovering
<1>6. refreshing' = IF x.at \in Discovering THEN refreshing \cup {f} ELSE refreshing \ {f}
  BY <1>5 DEF Discovering, Reading
<1>7. Moves(f, x, v)
  BY <1>2, <1>6, VettedMoves DEF Discovering
<1> QED
  BY <1>4, <1>7, MoveKeeps

\* A reading that starts anew, or ends in a resolution, keeps the others sound.
LEMMA FreshReadKeeps ==
    ASSUME FetchInv, NEW f \in Fetches, FreshRead(f)
    PROVE  FetchInv'
<1>1. CASE EndFetch(f, "total")
  BY <1>1, EndKeeps DEF FetchResult
<1>2. CASE ~EndFetch(f, "total") /\ policyNow # None /\ ~SnapshotExpired(policyNow)
  BY <1>2, UsesKeeps DEF FreshRead
<1>3. CASE ~EndFetch(f, "total") /\ ~(policyNow # None /\ ~SnapshotExpired(policyNow))
  <2>1. PICK x : x = [fetch[f] EXCEPT !.at = "lock"]
    OBVIOUS
  <2>2. /\ fetch[f].at = "read" /\ fetch' = [fetch EXCEPT ![f] = x] /\ vetted' = Vetted
        /\ UNCHANGED <<moment, policyNow, refreshing>>
    BY <1>3, <2>1 DEF FreshRead
  <2>3. fetch[f] \in FetchState
    BY DEF FetchInv, FetchShape
  <2>4. x \in FetchState
    BY <2>1, <2>3 DEF FetchState, Reading
  <2>5. /\ x.at = "lock" /\ x.back = fetch[f].back /\ x.held = fetch[f].held
        /\ x.approved = fetch[f].approved /\ x.secured = fetch[f].secured /\ x.url = fetch[f].url
        /\ x.conditional = fetch[f].conditional /\ x.first = fetch[f].first
    BY <2>1, <2>3 DEF FetchState
  <2> QED
    BY <2>2, <2>4, <2>5, PlaceKeeps DEF Reading
<1> QED
  BY <1>1, <1>2, <1>3

\* Whoever holds the lock publishes the next snapshot or finds a fresh one.
LEMMA LockKeeps ==
    ASSUME FetchInv, NEW f \in Fetches, LockRefresh(f)
    PROVE  FetchInv'
<1>1. CASE policyNow # None /\ ~SnapshotExpired(policyNow)
  BY <1>1, UsesKeeps DEF LockRefresh
<1>2. CASE ~(policyNow # None /\ ~SnapshotExpired(policyNow))
  <2>0. PICK d : d = Least({fetch[f].total, moment + DnsTimeout})
    OBVIOUS
  <2>1. PICK x : x = [fetch[f] EXCEPT !.at = "discover", !.wait = d]
    OBVIOUS
  <2>2. /\ fetch[f].at = "lock" /\ vetted' = Vetted
        /\ UNCHANGED <<moment, policyNow>> /\ refreshing = {} /\ refreshing' = refreshing \cup {f}
    BY <1>2 DEF LockRefresh, NobodyRefreshes
  <2>3. fetch[f] \in FetchState
    BY DEF FetchInv, FetchShape
  <2>a. fetch' = [fetch EXCEPT ![f] = x]
    BY <1>2, <2>0, <2>1, <2>3 DEF LockRefresh, FetchInv, FetchShape
  <2>b. d \in Int
    <3>1. fetch[f].total \in Int /\ moment + DnsTimeout \in Int
      BY <2>3, FetchAssumption DEF FetchState, FetchInv, FetchShape
    <3> QED
      BY <2>0, <3>1, LeastOfTwo
  <2>4. x \in FetchState
    BY <2>1, <2>3, <2>b DEF FetchState, Reading
  <2>5. /\ x.at = "discover" /\ x.back = fetch[f].back /\ x.held = fetch[f].held
        /\ x.approved = fetch[f].approved /\ x.secured = fetch[f].secured /\ x.url = fetch[f].url
        /\ x.conditional = fetch[f].conditional /\ x.first = fetch[f].first
    BY <2>1, <2>3 DEF FetchState
  <2> QED
    BY <1>2, <2>2, <2>4, <2>5, <2>a, PlaceKeeps DEF Reading
<1> QED
  BY <1>1, <1>2

\* The answer to a discovery is a snapshot that is valid after the one it replaces.
LEMMA AnswersKeeps ==
    ASSUME FetchInv, NEW f \in Fetches, NEW policy \in Discovered, NEW ttl \in Ttls,
           DiscoveryAnswers(f, policy, ttl)
    PROVE  FetchInv'
<1>1. PICK s : s = [generation |-> Generation(policy), validUntil |-> moment + ttl, policy |-> policy]
  OBVIOUS
<1>2. PICK x : x = [fetch[f] EXCEPT !.at = "store", !.wait = 0, !.next = s]
  OBVIOUS
<1>3. fetch[f].at = "discover" /\ Continue(f, x)
  BY <1>1, <1>2 DEF DiscoveryAnswers
<1>4. moment \in Nat /\ ttl \in Nat \ {0} /\ moment + ttl \in Nat
  BY FetchAssumption DEF FetchInv, FetchShape
<1>5. s \in Snapshot /\ s.validUntil = moment + ttl
  <2>1. Generation(policy) \in Nat
    BY DEF Generation, FetchInv, FetchShape, Snapshot
  <2>2. policy \subseteq Nat64Prefixes
    BY DEF Discovered, CompletePrefixes
  <2> QED
    BY <1>1, <1>4, <2>1, <2>2 DEF Snapshot
<1>6. fetch[f] \in FetchState /\ Sound(fetch[f], vetted[f], policyNow, moment)
  BY DEF FetchInv, FetchShape
<1>7. x \in FetchState
  <2>1. PICK r : r = fetch[f]
    OBVIOUS
  <2>2. r \in FetchState /\ s \in Snapshot \cup {None} /\ "store" \in Reading
    BY <1>5, <1>6, <2>1 DEF Reading
  <2>3. PICK n \in Int : n = 0
    OBVIOUS
  <2>4. x = [r EXCEPT !.at = "store", !.wait = n, !.next = s]
    BY <1>2, <2>1, <2>3
  <2> QED
    BY <2>2, <2>4 DEF FetchState
<1>8. /\ x.at = "store" /\ x.back = fetch[f].back /\ x.held = fetch[f].held /\ x.next = s
      /\ x.approved = fetch[f].approved /\ x.secured = fetch[f].secured /\ x.url = fetch[f].url
      /\ x.conditional = fetch[f].conditional /\ x.first = fetch[f].first
  BY <1>2, <1>6 DEF FetchState
<1>9. policyNow # None => policyNow.validUntil < s.validUntil
  <2> SUFFICES ASSUME policyNow # None
               PROVE  policyNow.validUntil < s.validUntil
    OBVIOUS
  <2>1. policyNow.validUntil \in Nat
    BY DEF FetchInv, FetchShape, Snapshot
  <2>2. moment >= policyNow.validUntil
    BY <1>3, <1>6 DEF Sound, Discovering
  <2> QED
    BY <1>4, <1>5, <2>1, <2>2
<1>10. Sound(x, vetted[f], policyNow, moment)
  BY <1>3, <1>5, <1>6, <1>8, <1>9, SnapshotAssumption DEF Sound, Confirmed, Reading, Talking, Discovering
<1> QED
  BY <1>3, <1>7, <1>8, <1>10, ContinueKeeps DEF Discovering

\* A snapshot is published: nobody was resolved under it before.
LEMMA StoreKeeps ==
    ASSUME FetchInv, NEW f \in Fetches, StoreSnapshot(f)
    PROVE  FetchInv'
<1>1. PICK s : s = fetch[f].next
  OBVIOUS
<1>2. PICK x : x = AfterReading(f, s)
  OBVIOUS
<1>3. PICK v : v = {a \in x.approved : a \in vetted[f] \/ Classify(s.policy, a)}
  OBVIOUS
<1>4. /\ fetch[f].at = "store" /\ policyNow' = s /\ fetch' = [fetch EXCEPT ![f] = x]
      /\ vetted' = [g \in Fetches |->
             {a \in fetch'[g].approved : a \in vetted[g] \/ Classify(s.policy, a)}]
      /\ refreshing' = refreshing \ {f} /\ moment' = moment
  BY <1>1, <1>2 DEF StoreSnapshot
<1>5. fetch[f] \in FetchState /\ Sound(fetch[f], vetted[f], policyNow, moment)
  BY DEF FetchInv, FetchShape
<1>6. s \in Snapshot /\ s # None
  BY <1>1, <1>4, <1>5 DEF Sound, FetchState
<1>7. ASSUME policyNow # None
      PROVE  /\ policyNow.validUntil < s.validUntil
             /\ policyNow.validUntil \in Nat /\ s.validUntil \in Nat
  <2>1. policyNow.validUntil < s.validUntil
    BY <1>1, <1>4, <1>5, <1>7 DEF Sound
  <2> QED
    BY <1>6, <1>7, <2>1 DEF FetchInv, FetchShape, Snapshot
<1>8. ASSUME NEW g \in Fetches, fetch[g].held # None
      PROVE  SeenBefore(fetch[g].held, s) /\ fetch[g].held # s /\ fetch[g].held.validUntil < s.validUntil
  <2>1. SeenBefore(fetch[g].held, policyNow)
    BY <1>8 DEF FetchInv, Sound
  <2>2. fetch[g].held \in Snapshot
    BY <1>8 DEF FetchInv, FetchShape, FetchState
  <2>3. policyNow # None /\ fetch[g].held.validUntil <= policyNow.validUntil
    <3>1. policyNow # None
      BY <2>1 DEF SeenBefore
    <3>2. fetch[g].held.validUntil \in Nat
      BY <2>2 DEF Snapshot
    <3> QED
      BY <1>7, <2>1, <3>1, <3>2 DEF SeenBefore
  <2>4. fetch[g].held.validUntil < s.validUntil
    BY <1>7, <2>2, <2>3 DEF Snapshot
  <2> QED
    BY <1>6, <1>7, <2>3, <2>4 DEF SeenBefore
<1>9. fetch[f].at \in Reading
  BY <1>4 DEF Reading
<1>10. ASSUME fetch[f].back # "resolve", ~Changed(f, s)
       PROVE  FALSE
  <2>1. fetch[f].held # None
    BY <1>5, <1>9, <1>10 DEF Sound
  <2>2. fetch[f].held.validUntil < s.validUntil /\ fetch[f].held.validUntil = s.validUntil
    BY <1>8, <1>10, <2>1 DEF Changed, SameVersion
  <2> QED
    BY <1>6, <2>2 DEF Snapshot
<1>11. vetted[f] \in SUBSET Addresses /\ x.approved \subseteq Addresses
  <2>1. vetted[f] \in SUBSET Addresses /\ fetch[f].approved \subseteq Addresses
    BY <1>5 DEF FetchInv, FetchShape, FetchState
  <2>2. x.approved = {} \/ x.approved = fetch[f].approved
    <3>1. CASE Exhausted(f, s)
      BY <1>2, <3>1 DEF AfterReading, FetchEnded
    <3>2. CASE ~Exhausted(f, s)
      BY <1>2, <1>5, <3>2 DEF AfterReading, Reads, FetchState
    <3> QED
      BY <3>1, <3>2
  <2> QED
    BY <2>1, <2>2
<1>12. v \in SUBSET Addresses /\ v \subseteq x.approved
  BY <1>3, <1>11
<1>13. x \in FetchState /\ Sound(x, v, s, moment) /\ x.at \notin Discovering
  BY <1>2, <1>6, <1>8, <1>9, <1>10, <1>12, ReadingSound
<1>14. fetch'[f] = x /\ \A g \in Fetches \ {f} : fetch'[g] = fetch[g]
  BY <1>4 DEF FetchInv, FetchShape
<1>15. /\ vetted'[f] = v
       /\ \A g \in Fetches \ {f} :
             vetted'[g] = {a \in fetch[g].approved : a \in vetted[g] \/ Classify(s.policy, a)}
  BY <1>3, <1>4, <1>14
<1>16. vetted' \in [Fetches -> SUBSET Addresses]
  <2>1. \A g \in Fetches : vetted'[g] \in SUBSET Addresses
    BY <1>12, <1>15 DEF FetchInv, FetchShape, FetchState
  <2> QED
    BY <1>4, <2>1
<1>17. f \in refreshing /\ \A g \in refreshing : g = f
  BY <1>4 DEF FetchInv, OneRefreshes, Discovering
<1>18. Moves(f, x, v)
  BY <1>4, <1>12, <1>13, <1>15, <1>16 DEF Moves
<1>19. FetchShape' /\ OneRefreshes'
  BY <1>4, <1>6, <1>16, <1>18, Moved DEF FetchInv, FetchShape
<1>20. PICK t : t = moment
  OBVIOUS
<1>21. ASSUME NEW g \in Fetches
       PROVE  Sound(fetch'[g], vetted'[g], s, t)
  <2>1. CASE g = f
    BY <1>13, <1>14, <1>15, <1>20, <2>1
  <2>2. CASE g # f
    <3>1. PICK r : r = fetch[g]
      OBVIOUS
    <3>2. PICK y : y = vetted'[g]
      OBVIOUS
    <3>3. Sound(r, vetted[g], policyNow, t) /\ r.at \notin Discovering
      BY <1>17, <1>20, <2>2, <3>1 DEF FetchInv, OneRefreshes
    <3>4. y \subseteq r.approved /\ (r.approved \subseteq vetted[g] => r.approved \subseteq y)
      BY <1>15, <2>2, <3>1, <3>2
    <3>5. r.held # None => SeenBefore(r.held, s) /\ r.held # s
      BY <1>8, <3>1
    <3>6. Confirmed(r, s, t) => Confirmed(r, policyNow, t)
      <4>1. r.at \in Reading /\ r.back = "confirm" => r.held # None
        BY <3>3 DEF Sound
      <4> QED
        BY <3>5, <4>1 DEF Confirmed
    <3>7. Sound(r, y, s, t)
      BY <3>3, <3>4, <3>5, <3>6 DEF Sound, Discovering
    <3> QED
      BY <1>14, <2>2, <3>1, <3>2, <3>7
  <2> QED
    BY <2>1, <2>2
<1>22. \A g \in Fetches : Sound(fetch'[g], vetted'[g], policyNow', moment')
  BY <1>4, <1>20, <1>21
<1> QED
  BY <1>19, <1>22 DEF FetchInv, Sound, Confirmed, SeenBefore

-----------------------------------------------------------------------------
(* Hops, answers and bodies *)

\* What a timeout is called.
LEMMA StageResult ==
    ASSUME NEW f, NEW deadline, NEW default \in FetchResult
    PROVE  TimeoutStage(f, deadline, default) \in FetchResult
BY DEF TimeoutStage, FetchResult

\* A hop begins without addresses, validators and a policy.
LEMMA HopSound ==
    ASSUME FetchShape, NEW r \in FetchState, r.secured => r.url \in Secure
    PROVE  /\ Hop(r) \in FetchState /\ Sound(Hop(r), {}, policyNow, moment)
           /\ Hop(r).at = "read"
<1>1. PICK d \in Int : d = moment + HopTimeout
  BY FetchAssumption DEF FetchShape
<1>2. PICK n \in Int : n = 0
  OBVIOUS
<1>3. 0 \in 0..MaxReplays /\ 0 \in 0..MaxBytes /\ "read" \in Reading
  BY FetchAssumption DEF Reading
<1>4. PICK m \in 0..MaxReplays : m = 0
  BY <1>3
<1>5. PICK b \in 0..MaxBytes : b = 0
  BY <1>3
<1>6. PICK x : x = Hop(r)
  OBVIOUS
<1>7. PICK y : y = [r EXCEPT !.at = "read", !.back = "resolve", !.hop = d, !.replays = m]
  OBVIOUS
<1>8. y \in FetchState /\ y.url = r.url /\ y.secured = r.secured /\ y.at = "read" /\ y.back = "resolve"
  BY <1>3, <1>7 DEF FetchState
<1>9. x = [y EXCEPT !.approved = {}, !.conditional = FALSE, !.bytes = b, !.wait = n, !.held = None]
  BY <1>1, <1>2, <1>4, <1>5, <1>6, <1>7 DEF Hop, FetchState
<1>10. x \in FetchState
  BY <1>8, <1>9 DEF FetchState
<1>11. /\ x.at = "read" /\ x.back = "resolve" /\ x.approved = {} /\ ~x.conditional /\ x.held = None
       /\ x.url = r.url /\ x.secured = r.secured
  BY <1>8, <1>9 DEF FetchState
<1>12. Sound(x, {}, policyNow, moment)
  BY <1>11 DEF Sound, Confirmed, Reading, Talking, Discovering
<1> QED
  BY <1>6, <1>10, <1>11, <1>12

\* A fetch begins with a URL that the deployment accepts.
LEMMA BeginKeeps ==
    ASSUME FetchInv, NEW f \in Fetches, NEW url \in Urls, BeginFetch(f, url)
    PROVE  FetchInv'
<1>1. PICK r : r = [Unbegun EXCEPT !.url = url, !.first = url, !.secured = url \in Secure,
                                   !.total = moment + TotalTimeout]
  OBVIOUS
<1>2. fetch[f].at = "unbegun" /\ Continue(f, Hop(r))
  BY <1>1 DEF BeginFetch
<1>3. PICK d \in Int : d = moment + TotalTimeout
  BY FetchAssumption DEF FetchInv, FetchShape
<1>4. PICK e : e = FetchEnded(None)
  OBVIOUS
<1>5. e \in FetchState
  BY <1>4, EndedState
<1>6. PICK s : s = (url \in Secure)
  OBVIOUS
<1>a. s \in BOOLEAN
  BY <1>6
<1>7. r = [[e EXCEPT !.at = "unbegun"] EXCEPT !.url = url, !.first = url, !.secured = s, !.total = d]
  BY <1>1, <1>3, <1>4, <1>6 DEF Unbegun
<1>8. PICK y : y = [e EXCEPT !.at = "unbegun"]
  OBVIOUS
<1>9. y \in FetchState
  BY <1>5, <1>8 DEF FetchState
<1>10. r = [y EXCEPT !.url = url, !.first = url, !.secured = s, !.total = d]
  BY <1>7, <1>8
<1>11. r \in FetchState
  BY <1>9, <1>10, <1>a DEF FetchState
<1>12. r.url = url /\ r.secured = s
  BY <1>9, <1>10 DEF FetchState
<1>13. r.secured => r.url \in Secure
  BY <1>6, <1>12
<1>14. Hop(r) \in FetchState /\ Sound(Hop(r), {}, policyNow, moment) /\ Hop(r).at = "read"
  BY <1>11, <1>13, HopSound DEF FetchInv
<1>15. PICK x : x = Hop(r)
  OBVIOUS
<1>16. PICK v : v = vetted[f]
  OBVIOUS
<1>17. x.approved = {} /\ v = {}
  <2>1. x.approved = {}
    BY <1>11, <1>15 DEF Hop, FetchState
  <2>2. v \subseteq fetch[f].approved
    BY <1>16 DEF FetchInv, Sound
  <2>3. fetch[f].approved = {}
    BY <1>2 DEF FetchInv, Sound
  <2> QED
    BY <2>1, <2>2, <2>3
<1> QED
  BY <1>2, <1>14, <1>15, <1>16, <1>17, ContinueKeeps DEF Discovering


\* A name resolves, to allowed addresses, or the fetch ends.
LEMMA ResolveKeeps ==
    ASSUME FetchInv, NEW f \in Fetches, NEW answer \in SUBSET Addresses, ResolveHost(f, answer)
    PROVE  FetchInv'
<1>1. PICK r : r = fetch[f]
  OBVIOUS
<1>2. r.at = "resolve" /\ r \in FetchState /\ Sound(r, vetted[f], policyNow, moment)
  BY <1>1 DEF ResolveHost, FetchInv, FetchShape
<1>3. CASE \E result \in FetchResult : EndFetch(f, result)
  BY <1>3, EndKeeps
<1>4. CASE ~\E result \in FetchResult : EndFetch(f, result)
  <2>1. PICK x : x = [r EXCEPT !.at = "read", !.back = "confirm", !.approved = answer]
    OBVIOUS
  <2>2. PICK v : v = IF SnapshotExpired(policyNow) THEN {}
                     ELSE {a \in answer : Classify(policyNow.policy, a)}
    OBVIOUS
  <2>3. /\ \A a \in answer : Classify(r.held.policy, a)
        /\ fetch' = [fetch EXCEPT ![f] = x] /\ vetted' = [vetted EXCEPT ![f] = v]
        /\ UNCHANGED <<moment, policyNow, refreshing>>
    <3>1. TimeoutStage(f, r.dns, "dns") \in FetchResult /\ "addresses" \in FetchResult /\ "denied" \in FetchResult
      BY StageResult DEF FetchResult
    <3> QED
      BY <1>1, <1>4, <2>1, <2>2, <3>1 DEF ResolveHost
  <2>4. x \in FetchState
    BY <1>2, <2>1 DEF FetchState, Reading
  <2>5. /\ x.at = "read" /\ x.back = "confirm" /\ x.held = r.held /\ x.approved = answer
        /\ x.secured = r.secured /\ x.url = r.url /\ x.conditional = r.conditional /\ x.first = r.first
    BY <1>2, <2>1 DEF FetchState
  <2>6. v \subseteq answer /\ v \in SUBSET Addresses
    BY <2>2
  <2>7. ASSUME policyNow = r.held, policyNow # None, moment < policyNow.validUntil
        PROVE  answer \subseteq v
    <3>1. ~SnapshotExpired(policyNow)
      BY <2>7 DEF SnapshotExpired, FetchInv, FetchShape, Snapshot
    <3> QED
      BY <2>2, <2>3, <2>7, <3>1
  <2>8. Sound(x, v, policyNow, moment)
    BY <1>2, <2>5, <2>6, <2>7 DEF Sound, Confirmed, Reading, Talking, Discovering
  <2>9. f \notin refreshing
    BY <1>1, <1>2 DEF FetchInv, OneRefreshes, Discovering
  <2>10. refreshing' = refreshing \ {f}
    BY <2>3, <2>9
  <2>11. \A g \in Fetches \ {f} : vetted'[g] = vetted[g] /\ vetted[g] \subseteq fetch[g].approved
    BY <2>3 DEF FetchInv, FetchShape, Sound
  <2>12. vetted' \in [Fetches -> SUBSET Addresses] /\ vetted'[f] = v
    BY <2>3, <2>6 DEF FetchInv, FetchShape
  <2>13. Moves(f, x, v)
    BY <2>3, <2>4, <2>5, <2>6, <2>10, <2>11, <2>12 DEF Moves, Discovering
  <2> QED
    BY <2>3, <2>8, <2>13, MoveKeeps
<1> QED
  BY <1>3, <1>4

\* A request and its answer: the addresses stay.
LEMMA TalkKeeps ==
    ASSUME FetchInv, NEW f \in Fetches, NEW x \in FetchState, Continue(f, x),
           fetch[f].at \in Talking, x.at \in Talking,
           x.held = fetch[f].held, x.approved = fetch[f].approved, x.secured = fetch[f].secured,
           x.url = fetch[f].url, x.first = fetch[f].first, x.conditional => x.url = x.first,
           x.at = "request" => x.wait <= x.hop /\ x.wait <= x.total
    PROVE  FetchInv'
<1>1. Sound(fetch[f], vetted[f], policyNow, moment)
  BY DEF FetchInv
<1>2. Sound(x, vetted[f], policyNow, moment)
  BY <1>1 DEF Sound, Confirmed, Reading, Talking, Discovering
<1> QED
  BY <1>2, ContinueKeeps DEF Talking, Discovering

\* A request goes out with what the snapshot in force allows, or the fetch ends.
LEMMA ExecuteKeeps ==
    ASSUME FetchInv, NEW f \in Fetches, Execute(f)
    PROVE  FetchInv'
<1>1. PICK r : r = fetch[f]
  OBVIOUS
<1>2. r \in FetchState /\ r.at = "execute"
  BY <1>1 DEF Execute, FetchInv, FetchShape
<1>3. PICK cut : cut = CutAt(f)
  OBVIOUS
<1>4. cut \in Int /\ cut <= r.hop /\ cut <= r.total
  <2>1. r.hop \in Int /\ r.total \in Int
    BY <1>2 DEF FetchState
  <2> QED
    BY <1>1, <1>3, <2>1, LeastOfTwo DEF CutAt
<1>5. PICK d : d = Least({moment + FirstByteTimeout, cut})
  OBVIOUS
<1>6. d \in Int /\ d <= r.hop /\ d <= r.total
  <2>1. moment + FirstByteTimeout \in Int /\ r.hop \in Int /\ r.total \in Int
    BY <1>2, FetchAssumption DEF FetchInv, FetchShape, FetchState
  <2>2. d \in Int /\ d <= cut
    BY <1>4, <1>5, <2>1, LeastOfTwo
  <2> QED
    BY <1>4, <2>1, <2>2
<1>7. CASE moment >= cut
  <2>1. TimeoutStage(f, cut, "hop") \in FetchResult
    BY StageResult DEF FetchResult
  <2> QED
    BY <1>3, <1>7, <2>1, EndKeeps DEF Execute
<1>8. CASE ~(moment >= cut)
  <2>1. PICK c : c = Reusable(f)
    OBVIOUS
  <2>2. c \in BOOLEAN /\ (c => r.url = r.first)
    BY <1>1, <2>1 DEF Reusable
  <2>3. PICK x : x = [r EXCEPT !.at = "request", !.conditional = c, !.wait = d]
    OBVIOUS
  <2>4. Continue(f, x)
    BY <1>1, <1>3, <1>5, <1>8, <2>1, <2>3 DEF Execute
  <2>5. x \in FetchState
    BY <1>2, <1>6, <2>2, <2>3 DEF FetchState, Talking
  <2>6. /\ x.at = "request" /\ x.held = r.held /\ x.approved = r.approved /\ x.secured = r.secured
        /\ x.url = r.url /\ x.first = r.first /\ x.conditional = c /\ x.wait = d
        /\ x.hop = r.hop /\ x.total = r.total
    BY <1>2, <2>3 DEF FetchState
  <2> QED
    BY <1>1, <1>2, <1>6, <2>2, <2>4, <2>5, <2>6, TalkKeeps DEF Talking
<1> QED
  BY <1>7, <1>8

\* An answer, a chunk of the body and its end.
LEMMA BodyKeeps ==
    ASSUME FetchInv, NEW f \in Fetches,
           (\E peer \in Addresses : AnswersOk(f, peer)) \/ Chunk(f) \/ BodyEnds(f)
    PROVE  FetchInv'
<1>1. PICK r : r = fetch[f]
  OBVIOUS
<1>2. r \in FetchState /\ r.at \in Talking /\ (r.conditional => r.url = r.first)
  BY <1>1 DEF AnswersOk, Answered, Chunk, BodyEnds, FetchInv, FetchShape, Talking, Sound
<1>3. CASE EndFetch(f, "too-large")
  BY <1>3, EndKeeps DEF FetchResult
<1>4. CASE ~EndFetch(f, "too-large")
  <2>1. PICK d \in Int : d = moment + BodyIdleTimeout
    BY FetchAssumption DEF FetchInv, FetchShape
  <2>2. PICK n \in Int : n = 0
    OBVIOUS
  <2>3. PICK x : /\ Continue(f, x)
                 /\ \/ x = [r EXCEPT !.at = "body", !.wait = d]
                    \/ x = [r EXCEPT !.at = "decode", !.wait = n]
                    \/ r.bytes # MaxBytes /\ r.at = "body" /\ x = [r EXCEPT !.bytes = r.bytes + 1, !.wait = d]
    BY <1>1, <1>4, <2>1, <2>2 DEF AnswersOk, Chunk, BodyEnds
  <2>4. /\ x \in FetchState
        /\ x.at \in {"body", "decode"} /\ x.held = r.held /\ x.approved = r.approved
        /\ x.secured = r.secured /\ x.url = r.url /\ x.first = r.first
        /\ x.conditional = r.conditional
    <3>1. CASE x = [r EXCEPT !.at = "body", !.wait = d]
      BY <1>2, <2>1, <3>1, ZenonT(60) DEF FetchState, Talking
    <3>2. CASE x = [r EXCEPT !.at = "decode", !.wait = n]
      BY <1>2, <2>2, <3>2, ZenonT(60) DEF FetchState, Talking
    <3>3. CASE r.bytes # MaxBytes /\ r.at = "body" /\ x = [r EXCEPT !.bytes = r.bytes + 1, !.wait = d]
      <4>1. PICK b \in 0..MaxBytes : b = r.bytes + 1
        BY <1>2, <3>3, FetchAssumption DEF FetchState
      <4>2. x = [r EXCEPT !.bytes = b, !.wait = d]
        BY <3>3, <4>1
      <4> QED
        BY <1>2, <2>1, <3>3, <4>2, ZenonT(60) DEF FetchState
    <3> QED
      BY <2>3, <3>1, <3>2, <3>3
  <2> QED
    BY <1>1, <1>2, <2>3, <2>4, TalkKeeps DEF Talking
<1> QED
  BY <1>3, <1>4

\* A redirect that is followed never leads from a secure URL to a plain one.
LEMMA RedirectKeeps ==
    ASSUME FetchInv, NEW f \in Fetches, NEW peer \in Addresses, NEW location \in Urls,
           AnswersRedirect(f, peer, location)
    PROVE  FetchInv'
<1>1. PICK r : r = fetch[f]
  OBVIOUS
<1>2. r \in FetchState /\ (r.secured => r.url \in Secure) /\ r.at = "request"
  BY <1>1 DEF AnswersRedirect, Answered, FetchInv, FetchShape, Sound
<1>3. CASE EndFetch(f, "redirect-limit") \/ EndFetch(f, "redirect")
  BY <1>3, EndKeeps DEF FetchResult
<1>4. CASE ~(EndFetch(f, "redirect-limit") \/ EndFetch(f, "redirect"))
  <2>1. PICK s : s = (r.secured \/ location \in Secure)
    OBVIOUS
  <2>2. PICK q : q = [r EXCEPT !.url = location, !.redirects = r.redirects + 1, !.secured = s]
    OBVIOUS
  <2>3. PICK x : x = Hop(q)
    OBVIOUS
  <2>4. /\ ~(r.redirects + 1 > MaxRedirects) /\ ~Downgrade(f, location)
        /\ fetch' = [fetch EXCEPT ![f] = Hop([r EXCEPT !.url = location,
                         !.redirects = @ + 1, !.secured = @ \/ location \in Secure])]
        /\ vetted' = [vetted EXCEPT ![f] = {}]
        /\ UNCHANGED <<moment, policyNow, refreshing>>
    BY <1>1, <1>4 DEF AnswersRedirect
  <2>5. fetch' = [fetch EXCEPT ![f] = x]
    BY <2>1, <2>2, <2>3, <2>4
  <2>6. s \in BOOLEAN /\ (s => location \in Secure)
    BY <1>1, <1>2, <2>1, <2>4 DEF Downgrade
  <2>7. PICK n \in 0..MaxRedirects : n = r.redirects + 1
    BY <1>2, <2>4, FetchAssumption DEF FetchState
  <2>8. q = [r EXCEPT !.url = location, !.redirects = n, !.secured = s]
    BY <2>2, <2>7
  <2>9. q \in FetchState /\ q.url = location /\ q.secured = s
    BY <1>2, <2>6, <2>7, <2>8, ZenonT(60) DEF FetchState
  <2>10. x \in FetchState /\ Sound(x, {}, policyNow, moment) /\ x.at = "read"
    BY <2>3, <2>6, <2>9, HopSound DEF FetchInv
  <2>11. f \notin refreshing
    BY <1>1, <1>2 DEF FetchInv, OneRefreshes, Discovering
  <2>12. refreshing' = refreshing \ {f}
    BY <2>4, <2>11
  <2>13. \A g \in Fetches \ {f} : vetted'[g] = vetted[g] /\ vetted[g] \subseteq fetch[g].approved
    BY <2>4 DEF FetchInv, FetchShape, Sound
  <2>14. vetted' \in [Fetches -> SUBSET Addresses] /\ vetted'[f] = {}
    BY <2>4 DEF FetchInv, FetchShape
  <2>15. Moves(f, x, {})
    BY <2>5, <2>10, <2>12, <2>13, <2>14 DEF Moves, Discovering
  <2> QED
    BY <2>4, <2>10, <2>15, MoveKeeps
<1> QED
  BY <1>3, <1>4

\* Time only lets a snapshot expire.
LEMMA MomentKeeps ==
    ASSUME FetchInv, MomentPasses
    PROVE  FetchInv'
<1>1. PICK t : t = moment
  OBVIOUS
<1>2. moment' = t + 1 /\ t \in Nat /\ UNCHANGED <<policyNow, refreshing, fetch, vetted>>
  BY <1>1 DEF MomentPasses, FetchInv, FetchShape
<1>3. moment' \in 0..MaxMoment
  BY FetchAssumption DEF MomentPasses, FetchInv, FetchShape
<1>4. policyNow # None => policyNow.validUntil \in Nat
  BY DEF FetchInv, FetchShape, Snapshot
<1>5. ASSUME NEW f \in Fetches
      PROVE  Sound(fetch[f], vetted[f], policyNow, t + 1)
  <2>1. Sound(fetch[f], vetted[f], policyNow, t)
    BY <1>1 DEF FetchInv
  <2> QED
    BY <1>2, <1>4, <2>1 DEF Sound, Confirmed
<1>6. \A f \in Fetches : Sound(fetch'[f], vetted'[f], policyNow', moment')
  BY <1>2, <1>5
<1> QED
  BY <1>2, <1>3, <1>6 DEF FetchInv, FetchShape, OneRefreshes, Sound, Confirmed, SeenBefore

\* Every way in which a fetch ends.
LEMMA EndsKeep ==
    ASSUME FetchInv, NEW f \in Fetches,
           \/ LockTimesOut(f) \/ DiscoveryFails(f) \/ ResolveFails(f) \/ RequestFails(f) \/ BodyFails(f)
           \/ \E peer \in Addresses :
                 WrongPeer(f, peer) \/ AnswersNotModified(f, peer) \/ AnswersOtherwise(f, peer)
           \/ \E decoded \in BOOLEAN : Decode(f, decoded)
    PROVE  FetchInv'
<1>1. \A deadline : /\ TimeoutStage(f, deadline, "first-byte") \in FetchResult
                    /\ TimeoutStage(f, deadline, "body-idle") \in FetchResult
                    /\ TimeoutStage(f, deadline, "hop") \in FetchResult
  BY StageResult DEF FetchResult
<1>2. \E result \in FetchResult : EndFetch(f, result)
  <2>1. CASE LockTimesOut(f) \/ DiscoveryFails(f) \/ ResolveFails(f)
    BY <2>1 DEF LockTimesOut, DiscoveryFails, ResolveFails, FetchResult
  <2>2. CASE RequestFails(f)
    <3>1. "network" \in FetchResult
      BY DEF FetchResult
    <3> QED
      BY <1>1, <2>2, <3>1 DEF RequestFails
  <2>3. CASE BodyFails(f)
    <3>1. "network" \in FetchResult
      BY DEF FetchResult
    <3> QED
      BY <1>1, <2>3, <3>1 DEF BodyFails
  <2>4. CASE \E peer \in Addresses :
                WrongPeer(f, peer) \/ AnswersNotModified(f, peer) \/ AnswersOtherwise(f, peer)
    BY <2>4 DEF WrongPeer, AnswersNotModified, AnswersOtherwise, FetchResult
  <2>5. CASE \E decoded \in BOOLEAN : Decode(f, decoded)
    <3>1. "document" \in FetchResult /\ "decode" \in FetchResult
      BY DEF FetchResult
    <3> QED
      BY <1>1, <2>5, <3>1 DEF Decode
  <2> QED
    BY <2>1, <2>2, <2>3, <2>4, <2>5
<1> QED
  BY <1>2, EndKeeps

\* Nobody fetches yet, and the prefixes are fixed or not known.
LEMMA FetchStart == FetchInit => FetchInv
<1> SUFFICES ASSUME FetchInit
             PROVE  FetchInv
  OBVIOUS
<1>1. PICK u : u = Unbegun
  OBVIOUS
<1>2. PICK e : e = FetchEnded(None)
  OBVIOUS
<1>3. e \in FetchState /\ e.approved = {} /\ e.held = None /\ ~e.secured /\ ~e.conditional
  BY <1>2, EndedState DEF FetchEnded
<1>4. u = [e EXCEPT !.at = "unbegun"]
  BY <1>1, <1>2 DEF Unbegun
<1>5. u \in FetchState /\ u.at = "unbegun" /\ u.approved = {} /\ u.held = None /\ ~u.secured /\ ~u.conditional
  BY <1>3, <1>4 DEF FetchState
<1>6. \A f \in Fetches : fetch[f] = u /\ vetted[f] = {}
  BY <1>1 DEF FetchInit
<1>7. Sound(u, {}, policyNow, moment)
  BY <1>5 DEF Sound, Confirmed, Reading, Talking, Discovering
<1>8. policyNow \in Snapshot \cup {None}
  <2>1. 0 \in Nat /\ Never \in Nat
    BY FetchAssumption DEF Never
  <2> QED
    BY <2>1 DEF FetchInit, Snapshot
<1>9. FetchShape
  BY <1>1, <1>5, <1>8, FetchAssumption DEF FetchInit, FetchShape
<1>10. OneRefreshes
  BY <1>5, <1>6 DEF FetchInit, OneRefreshes, Discovering
<1> QED
  BY <1>6, <1>7, <1>9, <1>10 DEF FetchInv

\* Every step of a fetch, of the resolver or of the clock keeps the invariant.
LEMMA FetchStep == FetchInv /\ [FetchNext]_fetchVars => FetchInv'
<1> SUFFICES ASSUME FetchInv, [FetchNext]_fetchVars
             PROVE  FetchInv'
  OBVIOUS
<1>1. ASSUME NEW f \in Fetches, NEW url \in Urls, BeginFetch(f, url)
      PROVE  FetchInv'
  BY <1>1, BeginKeeps
<1>2. ASSUME NEW f \in Fetches, Waits(f)
      PROVE  FetchInv'
  <2>1. CASE FreshRead(f) \/ LockRefresh(f) \/ StoreSnapshot(f)
    BY <2>1, FreshReadKeeps, LockKeeps, StoreKeeps
  <2>2. CASE LockTimesOut(f) \/ DiscoveryFails(f) \/ ResolveFails(f)
    BY <2>2, EndsKeep
  <2>3. CASE \E policy \in Discovered, ttl \in Ttls : DiscoveryAnswers(f, policy, ttl)
    BY <2>3, AnswersKeeps
  <2>4. CASE \E answer \in SUBSET Addresses : ResolveHost(f, answer)
    BY <2>4, ResolveKeeps
  <2> QED
    BY <1>2, <2>1, <2>2, <2>3, <2>4 DEF Waits
<1>3. ASSUME NEW f \in Fetches, Talks(f)
      PROVE  FetchInv'
  <2>1. CASE Execute(f)
    BY <2>1, ExecuteKeeps
  <2>2. CASE RequestFails(f) \/ BodyFails(f) \/ \E decoded \in BOOLEAN : Decode(f, decoded)
    BY <2>2, EndsKeep
  <2>3. CASE Chunk(f) \/ BodyEnds(f)
    BY <2>3, BodyKeeps
  <2>4. ASSUME NEW peer \in Addresses,
               WrongPeer(f, peer) \/ AnswersNotModified(f, peer) \/ AnswersOtherwise(f, peer)
        PROVE  FetchInv'
    BY <2>4, EndsKeep
  <2>5. ASSUME NEW peer \in Addresses, AnswersOk(f, peer)
        PROVE  FetchInv'
    BY <2>5, BodyKeeps
  <2>6. ASSUME NEW peer \in Addresses, NEW location \in Urls, AnswersRedirect(f, peer, location)
        PROVE  FetchInv'
    BY <2>6, RedirectKeeps
  <2> QED
    BY <1>3, <2>1, <2>2, <2>3, <2>4, <2>5, <2>6 DEF Talks
<1>4. CASE MomentPasses
  BY <1>4, MomentKeeps
<1>5. CASE UNCHANGED fetchVars
  BY <1>5 DEF fetchVars, FetchInv, FetchShape, OneRefreshes, Sound, Confirmed, SeenBefore
<1> QED
  BY <1>1, <1>2, <1>3, <1>4, <1>5 DEF FetchNext

(* Every fetch is sound under the snapshot that is in force, whichever     *)
(* fetch publishes the next one (fetch.rs, execute_hop; resolver.rs,       *)
(* current).                                                               *)
THEOREM FetchSafe == FetchSpec => []FetchInv
<1> QED
  BY FetchStart, FetchStep, PTL DEF FetchSpec

(* A fetch keeps the limits of redirects, replays and bytes.               *)
THEOREM FetchTyped == FetchSpec => []FetchTypeOK
<1>1. FetchInv => FetchTypeOK
  BY DEF FetchInv, FetchShape, FetchState, Sound, FetchTypeOK
<1> QED
  BY <1>1, FetchSafe, PTL

(* Requests go only to addresses that a policy in force since the name was *)
(* resolved allows, never plain after a secure one, with validators only   *)
(* for the URL they belong to; and a version of the snapshot names one     *)
(* policy (fetch.rs, execute_hop; resolver.rs, same_version).              *)
THEOREM PolicyKept == FetchSpec => []PolicyHolds
<1>1. FetchInv => RequestsAreSafe
  BY DEF FetchInv, Sound, Confirmed, Talking, RequestsAreSafe
<1>2. FetchInv => VersionNamesPolicy
  <2> SUFFICES ASSUME FetchInv, NEW f \in Fetches, fetch[f].held # None, policyNow # None,
                      SameVersion(fetch[f].held, policyNow)
               PROVE  fetch[f].held.policy = policyNow.policy
    BY DEF VersionNamesPolicy
  <2>1. SeenBefore(fetch[f].held, policyNow)
    BY DEF FetchInv, Sound
  <2>2. policyNow.validUntil \in Nat
    BY DEF FetchInv, FetchShape, Snapshot
  <2> QED
    BY <2>1, <2>2 DEF SeenBefore, SameVersion
<1>3. FetchInv => PolicyHolds
  BY <1>1, <1>2 DEF PolicyHolds
<1> QED
  BY <1>3, FetchSafe, PTL

-----------------------------------------------------------------------------
(* Deadlines *)

\* The deadlines that the result of a fetch tells of.
InTime(f, result) ==
    /\ result \in {"document", "not-modified"} => moment < fetch[f].hop /\ moment < fetch[f].total
    /\ result = "total" => moment >= fetch[f].total
    /\ result = "hop" => moment >= fetch[f].hop

\* The timeout that a deadline in the past is called tells of that deadline.
LEMMA StageInTime ==
    ASSUME NEW f \in Fetches, NEW deadline, moment >= deadline,
           NEW default \in {"dns", "first-byte", "body-idle", "hop"},
           default = "hop" => deadline \in {fetch[f].hop, fetch[f].total}
    PROVE  InTime(f, TimeoutStage(f, deadline, default))
BY DEF InTime, TimeoutStage

\* Before the deadline of a hop it is before the deadline of the fetch.
LEMMA CutInTime ==
    ASSUME FetchInv, NEW f \in Fetches
    PROVE  /\ CutAt(f) \in {fetch[f].hop, fetch[f].total}
           /\ moment < CutAt(f) => moment < fetch[f].hop /\ moment < fetch[f].total
           /\ ~(moment >= CutAt(f)) => moment < CutAt(f)
<1>1. fetch[f].hop \in Int /\ fetch[f].total \in Int /\ moment \in Int
  BY DEF FetchInv, FetchShape, FetchState
<1>2. /\ CutAt(f) \in {fetch[f].hop, fetch[f].total}
      /\ CutAt(f) <= fetch[f].hop /\ CutAt(f) <= fetch[f].total
  BY <1>1, LeastOfTwo DEF CutAt
<1> QED
  BY <1>1, <1>2

\* How a fetch ends, if it does.
Ending(f) == \E result : EndFetch(f, result) /\ InTime(f, result)
Onward(f) == fetch'[f].at \notin {"unbegun", "ended"} \/ fetch'[f].result = "replays"

\* A reading goes on, or ends after too many replays.
LEMMA ReadingOnward ==
    ASSUME FetchInv, NEW f \in Fetches, NEW s, fetch' = [fetch EXCEPT ![f] = AfterReading(f, s)]
    PROVE  Onward(f)
<1>1. fetch'[f] = AfterReading(f, s) /\ fetch[f] \in FetchState
  BY DEF FetchInv, FetchShape
<1>2. CASE Exhausted(f, s)
  BY <1>1, <1>2 DEF AfterReading, FetchEnded, Onward
<1>3. CASE ~Exhausted(f, s)
  <2>1. fetch'[f] = Reads(f, s)
    BY <1>1, <1>3 DEF AfterReading
  <2>2. PICK r : r = fetch[f]
    OBVIOUS
  <2>6. r \in FetchState
    BY <1>1, <2>2
  <2>3. CASE r.back = "resolve"
    <3>1. PICK d : d = Least({moment + DnsTimeout, r.hop, r.total})
      OBVIOUS
    <3>2. fetch'[f] = [r EXCEPT !.at = "resolve", !.back = None, !.held = s, !.next = None, !.dns = d]
      BY <2>1, <2>2, <2>3, <3>1 DEF Reads
    <3>3. PICK x : x = [r EXCEPT !.at = "resolve", !.back = None, !.held = s, !.next = None, !.dns = d]
      OBVIOUS
    <3>4. x.at = "resolve"
      BY <2>6, <3>3 DEF FetchState
    <3> QED
      BY <3>2, <3>3, <3>4 DEF Onward
  <2>4. CASE r.back # "resolve" /\ ~Changed(f, s)
    <3>1. \/ fetch'[f] = [r EXCEPT !.at = "read", !.back = "execute", !.next = None]
          \/ fetch'[f] = [r EXCEPT !.at = "execute", !.back = None, !.next = None]
      BY <2>1, <2>2, <2>4 DEF Reads
    <3>2. PICK x, y : /\ x = [r EXCEPT !.at = "read", !.back = "execute", !.next = None]
                      /\ y = [r EXCEPT !.at = "execute", !.back = None, !.next = None]
      OBVIOUS
    <3>3. x.at = "read" /\ y.at = "execute"
      BY <2>6, <3>2 DEF FetchState
    <3>4. fetch'[f] = x \/ fetch'[f] = y
      BY <3>1, <3>2
    <3> QED
      BY <3>3, <3>4 DEF Onward
  <2>5. CASE r.back # "resolve" /\ Changed(f, s)
    <3>1. fetch'[f] = [r EXCEPT !.at = "resolve", !.back = None, !.held = s, !.next = None,
                                !.replays = r.replays + 1, !.approved = {}]
      BY <2>1, <2>2, <2>5 DEF Reads
    <3>2. PICK x : x = [r EXCEPT !.at = "resolve", !.back = None, !.held = s, !.next = None,
                                 !.replays = r.replays + 1, !.approved = {}]
      OBVIOUS
    <3>3. x.at = "resolve"
      BY <2>6, <3>2 DEF FetchState
    <3> QED
      BY <3>1, <3>2, <3>3 DEF Onward
  <2> QED
    BY <2>3, <2>4, <2>5
<1> QED
  BY <1>2, <1>3

\* A fetch that waits for a name or a snapshot goes on, or ends in time.
LEMMA WaitsEnd ==
    ASSUME FetchInv, NEW f \in Fetches, Waits(f)
    PROVE  Ending(f) \/ Onward(f)
<1>0. fetch[f] \in FetchState
  BY DEF FetchInv, FetchShape
<1>1. CASE FreshRead(f)
  <2>1. CASE moment >= fetch[f].total
    BY <1>1, <2>1 DEF FreshRead, Ending, InTime
  <2>2. CASE ~(moment >= fetch[f].total) /\ policyNow # None /\ ~SnapshotExpired(policyNow)
    BY <1>1, <2>2, ReadingOnward DEF FreshRead
  <2>3. CASE ~(moment >= fetch[f].total) /\ ~(policyNow # None /\ ~SnapshotExpired(policyNow))
    <3>1. fetch' = [fetch EXCEPT ![f].at = "lock"]
      BY <1>1, <2>3 DEF FreshRead
    <3> QED
      BY <1>0, <3>1 DEF Onward, FetchInv, FetchShape, FetchState
  <2> QED
    BY <2>1, <2>2, <2>3
<1>2. CASE LockRefresh(f)
  <2>1. CASE policyNow # None /\ ~SnapshotExpired(policyNow)
    BY <1>2, <2>1, ReadingOnward DEF LockRefresh
  <2>2. CASE ~(policyNow # None /\ ~SnapshotExpired(policyNow))
    <3>1. PICK d : fetch' = [[fetch EXCEPT ![f].at = "discover"] EXCEPT ![f].wait = d]
      BY <1>2, <2>2 DEF LockRefresh
    <3> QED
      BY <1>0, <3>1 DEF Onward, FetchInv, FetchShape, FetchState
  <2> QED
    BY <2>1, <2>2
<1>3. CASE LockTimesOut(f) \/ DiscoveryFails(f) \/ ResolveFails(f)
  BY <1>3 DEF LockTimesOut, DiscoveryFails, ResolveFails, Ending, InTime
<1>4. CASE \E policy \in Discovered, ttl \in Ttls : DiscoveryAnswers(f, policy, ttl)
  <2>1. PICK s : Continue(f, [fetch[f] EXCEPT !.at = "store", !.wait = 0, !.next = s])
    BY <1>4 DEF DiscoveryAnswers
  <2> QED
    BY <1>0, <2>1 DEF Continue, Onward, FetchInv, FetchShape, FetchState
<1>5. CASE StoreSnapshot(f)
  BY <1>5, ReadingOnward DEF StoreSnapshot
<1>6. ASSUME NEW answer \in SUBSET Addresses, ResolveHost(f, answer)
      PROVE  Ending(f) \/ Onward(f)
  <2>1. CASE moment >= fetch[f].dns
    <3>1. EndFetch(f, TimeoutStage(f, fetch[f].dns, "dns"))
      BY <1>6, <2>1 DEF ResolveHost
    <3> QED
      BY <2>1, <3>1, StageInTime DEF Ending
  <2>2. CASE EndFetch(f, "addresses") \/ EndFetch(f, "denied")
    BY <2>2 DEF Ending, InTime
  <2>3. CASE ~(moment >= fetch[f].dns) /\ ~(EndFetch(f, "addresses") \/ EndFetch(f, "denied"))
    <3>1. fetch' = [fetch EXCEPT ![f] = [fetch[f] EXCEPT !.at = "read", !.back = "confirm", !.approved = answer]]
      BY <1>6, <2>3 DEF ResolveHost
    <3> QED
      BY <1>0, <3>1 DEF Onward, FetchInv, FetchShape, FetchState
  <2> QED
    BY <2>1, <2>2, <2>3
<1> QED
  BY <1>1, <1>2, <1>3, <1>4, <1>5, <1>6 DEF Waits

\* A fetch that talks to its peer goes on, or ends in time.
LEMMA TalksEnd ==
    ASSUME FetchInv, NEW f \in Fetches, Talks(f)
    PROVE  Ending(f) \/ Onward(f)
<1>1. PICK r : r = fetch[f]
  OBVIOUS
<1>2. r \in FetchState /\ moment \in Int /\ r.hop \in Int /\ r.total \in Int /\ r.wait \in Int
  BY <1>1 DEF FetchInv, FetchShape, FetchState
<1>3. /\ CutAt(f) \in {r.hop, r.total}
      /\ moment < CutAt(f) => moment < r.hop /\ moment < r.total
      /\ ~(moment >= CutAt(f)) => moment < CutAt(f)
  BY <1>1, CutInTime
<1>4. CASE Execute(f)
  <2>1. CASE moment >= CutAt(f)
    <3>1. EndFetch(f, TimeoutStage(f, CutAt(f), "hop"))
      BY <1>4, <2>1 DEF Execute
    <3> QED
      BY <1>1, <1>3, <2>1, <3>1, StageInTime DEF Ending
  <2>2. CASE ~(moment >= CutAt(f))
    <3>1. PICK c, d : Continue(f, [r EXCEPT !.at = "request", !.conditional = c, !.wait = d])
      BY <1>1, <1>4, <2>2 DEF Execute
    <3> QED
      BY <1>2, <3>1 DEF Continue, Onward, FetchInv, FetchShape, FetchState
  <2> QED
    BY <2>1, <2>2
<1>5. CASE RequestFails(f)
  <2>1. CASE moment >= r.wait
    <3>1. EndFetch(f, TimeoutStage(f, r.wait, "first-byte"))
      BY <1>1, <1>5, <2>1 DEF RequestFails
    <3> QED
      BY <2>1, <3>1, StageInTime DEF Ending
  <2>2. CASE ~(moment >= r.wait)
    <3>1. EndFetch(f, "network")
      BY <1>1, <1>5, <2>2 DEF RequestFails
    <3> QED
      BY <3>1 DEF Ending, InTime
  <2> QED
    BY <2>1, <2>2
<1>6. CASE \E peer \in Addresses : WrongPeer(f, peer) \/ AnswersOtherwise(f, peer)
  BY <1>6 DEF WrongPeer, AnswersOtherwise, Ending, InTime
<1>7. CASE \E peer \in Addresses : AnswersNotModified(f, peer)
  <2>1. r.at = "request" /\ moment < r.wait /\ EndFetch(f, "not-modified")
    BY <1>1, <1>7 DEF AnswersNotModified, Answered
  <2>2. r.wait <= r.hop /\ r.wait <= r.total
    BY <1>1, <2>1 DEF FetchInv, Sound
  <2>3. InTime(f, "not-modified")
    BY <1>1, <1>2, <2>1, <2>2 DEF InTime
  <2> QED
    BY <2>1, <2>3 DEF Ending
<1>8. CASE (\E peer \in Addresses : AnswersOk(f, peer)) \/ Chunk(f) \/ BodyEnds(f)
  <2>1. CASE EndFetch(f, "too-large")
    BY <2>1 DEF Ending, InTime
  <2>2. CASE ~EndFetch(f, "too-large")
    <3>1. PICK d, b : \/ Continue(f, [r EXCEPT !.at = "body", !.wait = d])
                      \/ Continue(f, [r EXCEPT !.at = "decode", !.wait = d])
                      \/ r.at = "body" /\ Continue(f, [r EXCEPT !.bytes = b, !.wait = d])
      BY <1>1, <1>8, <2>2 DEF AnswersOk, Chunk, BodyEnds
    <3>2. PICK x : /\ \/ x = [r EXCEPT !.at = "body", !.wait = d]
                      \/ x = [r EXCEPT !.at = "decode", !.wait = d]
                      \/ r.at = "body" /\ x = [r EXCEPT !.bytes = b, !.wait = d]
                   /\ Continue(f, x)
      BY <3>1
    <3>3. r \in FetchState
      BY <1>1 DEF FetchInv, FetchShape
    <3>4. x.at \in {"body", "decode"}
      BY <3>2, <3>3 DEF FetchState
    <3>5. fetch'[f] = x
      BY <3>2 DEF Continue, FetchInv, FetchShape
    <3> QED
      BY <3>4, <3>5 DEF Onward
  <2> QED
    BY <2>1, <2>2
<1>9. ASSUME NEW peer \in Addresses, NEW location \in Urls, AnswersRedirect(f, peer, location)
      PROVE  Ending(f) \/ Onward(f)
  <2>1. CASE EndFetch(f, "redirect-limit") \/ EndFetch(f, "redirect")
    BY <2>1 DEF Ending, InTime
  <2>2. CASE ~(EndFetch(f, "redirect-limit") \/ EndFetch(f, "redirect"))
    <3>1. PICK q : /\ q = [r EXCEPT !.url = location, !.redirects = @ + 1, !.secured = @ \/ location \in Secure]
                   /\ fetch' = [fetch EXCEPT ![f] = Hop(q)]
      BY <1>1, <1>9, <2>2 DEF AnswersRedirect
    <3>2. DOMAIN q = DOMAIN r
      BY <3>1
    <3>3. "at" \in DOMAIN q
      BY <1>2, <3>2 DEF FetchState
    <3>4. Hop(q).at = "read"
      BY <3>3 DEF Hop
    <3> QED
      BY <3>1, <3>4 DEF Onward, FetchInv, FetchShape
  <2> QED
    BY <2>1, <2>2
<1>10. CASE BodyFails(f)
  <2>1. CASE moment >= BodyDeadline(f)
    <3>1. EndFetch(f, TimeoutStage(f, BodyDeadline(f), "body-idle"))
      BY <1>10, <2>1 DEF BodyFails
    <3> QED
      BY <2>1, <3>1, StageInTime DEF Ending
  <2>2. CASE ~(moment >= BodyDeadline(f))
    <3>1. EndFetch(f, "network")
      BY <1>10, <2>2 DEF BodyFails
    <3> QED
      BY <3>1 DEF Ending, InTime
  <2> QED
    BY <2>1, <2>2
<1>11. ASSUME NEW decoded \in BOOLEAN, Decode(f, decoded)
       PROVE  Ending(f) \/ Onward(f)
  <2>1. CASE moment >= CutAt(f)
    <3>1. EndFetch(f, TimeoutStage(f, CutAt(f), "hop"))
      BY <1>11, <2>1 DEF Decode
    <3> QED
      BY <1>1, <1>3, <2>1, <3>1, StageInTime DEF Ending
  <2>2. CASE ~(moment >= CutAt(f))
    <3>1. EndFetch(f, "document") \/ EndFetch(f, "decode")
      BY <1>11, <2>2 DEF Decode
    <3>2. InTime(f, "document") /\ InTime(f, "decode")
      BY <1>1, <1>3, <2>2 DEF InTime
    <3> QED
      BY <3>1, <3>2 DEF Ending
  <2> QED
    BY <2>1, <2>2
<1> QED
  BY <1>4, <1>5, <1>6, <1>7, <1>8, <1>9, <1>10, <1>11 DEF Talks

\* What the action property says of one fetch.
EndInTime(f) ==
    Fetching(f) /\ ~Fetching(f)' =>
        LET r == fetch[f] ended == fetch'[f].result IN
        /\ ended \in {"document", "not-modified"} => moment < r.hop /\ moment < r.total
        /\ ended = "total" => moment >= r.total
        /\ ended = "hop" => moment >= r.hop

\* A fetch that ends in a step ends in time.
LEMMA EndInTimeStep ==
    ASSUME FetchInv, FetchNext, NEW f \in Fetches
    PROVE  EndInTime(f)
<1>1. CASE Ending(f)
  <2>1. PICK result : EndFetch(f, result) /\ InTime(f, result)
    BY <1>1 DEF Ending
  <2>2. fetch'[f].result = result
    BY <2>1 DEF EndFetch, FetchEnded, FetchInv, FetchShape
  <2> QED
    BY <2>1, <2>2 DEF EndInTime, InTime
<1>2. CASE Onward(f)
  BY <1>2 DEF Onward, EndInTime, Fetching
<1>3. CASE fetch'[f] = fetch[f]
  BY <1>3 DEF EndInTime, Fetching
<1>4. CASE fetch[f].at = "unbegun"
  BY <1>4 DEF EndInTime, Fetching
<1>5. ASSUME NEW g \in Fetches, Waits(g) \/ Talks(g) \/ \E url \in Urls : BeginFetch(g, url)
      PROVE  g = f \/ fetch'[f] = fetch[f]
  <2>1. \E x : fetch' = [fetch EXCEPT ![g] = x]
    <3>1. CASE Waits(g)
      <4>1. CASE FreshRead(g)
        BY <4>1 DEF FreshRead, EndFetch
      <4>2. CASE LockRefresh(g)
        <5>1. CASE policyNow # None /\ ~SnapshotExpired(policyNow)
          BY <4>2, <5>1 DEF LockRefresh
        <5>2. CASE ~(policyNow # None /\ ~SnapshotExpired(policyNow))
          <6>1. PICK d : fetch' = [[fetch EXCEPT ![g].at = "discover"] EXCEPT ![g].wait = d]
            BY <4>2, <5>2 DEF LockRefresh
          <6>2. fetch' = [fetch EXCEPT ![g] = [fetch[g] EXCEPT !.at = "discover", !.wait = d]]
            BY <6>1 DEF FetchInv, FetchShape
          <6> QED
            BY <6>2
        <5> QED
          BY <5>1, <5>2
      <4>3. CASE StoreSnapshot(g) \/ LockTimesOut(g) \/ DiscoveryFails(g) \/ ResolveFails(g)
        BY <4>3 DEF StoreSnapshot, LockTimesOut, DiscoveryFails, ResolveFails, EndFetch
      <4>4. CASE \E policy \in Discovered, ttl \in Ttls : DiscoveryAnswers(g, policy, ttl)
        BY <4>4 DEF DiscoveryAnswers, Continue
      <4>5. CASE \E answer \in SUBSET Addresses : ResolveHost(g, answer)
        BY <4>5 DEF ResolveHost, EndFetch
      <4> QED
        BY <3>1, <4>1, <4>2, <4>3, <4>4, <4>5 DEF Waits
    <3>2. CASE Talks(g)
      <4>1. CASE Execute(g) \/ RequestFails(g)
        BY <4>1 DEF Execute, RequestFails, EndFetch, Continue
      <4>2. CASE Chunk(g) \/ BodyEnds(g) \/ BodyFails(g) \/ \E decoded \in BOOLEAN : Decode(g, decoded)
        BY <4>2 DEF Chunk, BodyEnds, BodyFails, Decode, EndFetch, Continue
      <4>3. ASSUME NEW peer \in Addresses,
                   \/ WrongPeer(g, peer) \/ AnswersOk(g, peer) \/ AnswersNotModified(g, peer)
                   \/ AnswersOtherwise(g, peer)
                   \/ \E location \in Urls : AnswersRedirect(g, peer, location)
            PROVE  \E x : fetch' = [fetch EXCEPT ![g] = x]
        BY <4>3 DEF WrongPeer, AnswersOk, AnswersNotModified, AnswersOtherwise, AnswersRedirect,
                    EndFetch, Continue
      <4> QED
        BY <3>2, <4>1, <4>2, <4>3 DEF Talks
    <3>3. CASE \E url \in Urls : BeginFetch(g, url)
      BY <3>3 DEF BeginFetch, Continue
    <3> QED
      BY <1>5, <3>1, <3>2, <3>3
  <2> QED
    BY <2>1 DEF FetchInv, FetchShape
<1>6. Waits(f) \/ Talks(f) => Ending(f) \/ Onward(f)
  BY WaitsEnd, TalksEnd
<1>7. CASE MomentPasses
  BY <1>3, <1>7 DEF MomentPasses
<1>8. ASSUME NEW g \in Fetches, Waits(g) \/ Talks(g) \/ \E url \in Urls : BeginFetch(g, url)
      PROVE  EndInTime(f)
  <2>1. CASE g = f
    BY <1>1, <1>2, <1>4, <1>6, <1>8, <2>1 DEF BeginFetch
  <2>2. CASE g # f
    BY <1>3, <1>5, <1>8, <2>2
  <2> QED
    BY <2>1, <2>2
<1> QED
  BY <1>7, <1>8 DEF FetchNext

(* A fetch that answers does so before the deadlines of its last hop and   *)
(* of the whole, however slowly the peer sends; and the deadline that a    *)
(* timeout names has passed (fetch.rs, min_deadline, timeout_stage).       *)
THEOREM FetchesEndInTime == FetchSpec => EndsInTime
<1>1. FetchInv /\ [FetchNext]_fetchVars => [\A f \in Fetches : EndInTime(f)]_fetchVars
  BY EndInTimeStep
<1>2. [\A f \in Fetches : EndInTime(f)]_fetchVars =>
          [\A f \in Fetches : Fetching(f) /\ ~Fetching(f)' =>
              LET r == fetch[f] ended == fetch'[f].result IN
              /\ ended \in {"document", "not-modified"} => moment < r.hop /\ moment < r.total
              /\ ended = "total" => moment >= r.total
              /\ ended = "hop" => moment >= r.hop]_fetchVars
  BY DEF EndInTime
<1> QED
  BY <1>1, <1>2, FetchSafe, PTL DEF FetchSpec, EndsInTime

=============================================================================
