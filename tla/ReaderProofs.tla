------------------------------ MODULE ReaderProofs ------------------------------
(***************************************************************************)
(* Proofs about what a reader asks for, for any value of the constants:    *)
(* edits of the translation settings, and subscriptions and categories     *)
(* that several pages, an operator and retention change at once.           *)
(***************************************************************************)
EXTENDS MCReader, TranslationProofs

-----------------------------------------------------------------------------
(* Translations                                                            *)

\* A save replaces the settings its page shows, and no others: WriteSettings.
THEOREM SettingsBuild == ReaderSpec => SettingsEditsBuild
<1> DEFINE Builds == settings' # settings =>
              \E c \in SettingsPages : save[c].at = "write" /\ leaf[c] = [row |-> settings]
<1>1. ReaderInit => SettingsInv
  BY SettingsStart DEF ReaderInit
<1>2. [ReaderNext]_<<part, vars, translationVars, organizationVars>> => [TranslationNext]_translationVars
  BY DEF ReaderNext
<1>3. SettingsInv /\ [TranslationNext]_translationVars => [Builds]_translationVars
  <2> SUFFICES ASSUME SettingsInv, TranslationNext, settings' # settings
               PROVE  \E c \in SettingsPages : save[c].at = "write" /\ leaf[c] = [row |-> settings]
    OBVIOUS
  <2>1. PICK c \in SettingsPages : WriteSettings(c)
    <3>1. ASSUME NEW c \in SettingsPages,
                 \/ ShowSettings(c) \/ ReadStored(c) \/ AnswerSave(c) \/ AbandonSave(c)
                 \/ \E draft \in Drafts, key \in {"keep", "clear", "set"}, second \in BOOLEAN :
                        BeginSave(c, draft, key, second)
          PROVE  FALSE
      BY <3>1 DEF ShowSettings, ReadStored, AnswerSave, AbandonSave, BeginSave
    <3>2. ASSUME NEW r \in Requests,
                 \/ \E kind \in {"entry", "progressive", "text", "lookup", "test"} : Begin(r, kind)
                 \/ Hear(r) \/ Leave(r)
          PROVE  FALSE
      BY <3>2 DEF Begin, Hear, Leave
    <3>3. ASSUME NEW r \in Requests, Serve(r)
          PROVE  FALSE
      BY <3>3 DEF Serve, ReadSettings, Validate, ReadSource, Cut, ReadKey, SendCall,
                  Answered, CallFails, TimesOut, CompleteTranslation
    <3>4. ~Upheaval
      BY DEF Upheaval
    <3> QED
      BY <3>1, <3>2, <3>3, <3>4, Zenon DEF TranslationNext
  <2>2. save[c].at = "write" /\ StillAsRead(c)
    BY <2>1 DEF WriteSettings
  <2> QED
    BY <2>2, WriteFindsShown
<1> QED
  BY <1>1, <1>2, <1>3, SettingsKept, PTL DEF ReaderSpec, SettingsEditsBuild

\* What a request answers is of its article, in its order and in calls that fit, and
\* its page hears of it in that order, while the settings can be used: all of
\* translation/service.rs, translation/openai.rs, translation/deeplx.rs and
\* translation/repository.rs.
THEOREM TranslationsFaithful ==
    ReaderSpec => [](SettingsUsable /\ ArticleIsItsOwn /\ CutsFit /\ StreamsInOrder)
<1>1. ReaderInit => SettingsInv /\ RequestsInv
  BY SettingsStart, RequestsStart DEF ReaderInit
<1>2. [ReaderNext]_<<part, vars, translationVars, organizationVars>> => [TranslationNext]_translationVars
  BY DEF ReaderNext
<1>3. SettingsInv /\ RequestsInv => SettingsUsable /\ ArticleIsItsOwn /\ CutsFit /\ StreamsInOrder
  BY RequestsGive DEF SettingsInv
<1> QED
  BY <1>1, <1>2, <1>3, SettingsKept, RequestsKept, PTL DEF ReaderSpec

-----------------------------------------------------------------------------
(* An import as its feeds one after the other.                             *)

\* What the import has done before any feed, and what it does with a set of
\* places of the file, as the folds of the community modules define it.
Unbegun(u) == [verdict |-> "ok", channel |-> channel, rows |-> stored.rows, ids |-> stored.ids,
               shelf |-> shelf[u], follows |-> follows]
FoldOf(u, found, doc, g, s) ==
    IF s = {} THEN Unbegun(u) ELSE ImportFeed(u, found, g[s \ {Max(s)}], doc[Max(s)])

\* A file is imported feed by feed.
LEMMA ImportSteps ==
    ASSUME NEW u, NEW found, NEW R, NEW doc \in Seq(R)
    PROVE  \E d : /\ d[0] = Unbegun(u)
                  /\ \A i \in 1..Len(doc) : d[i] = ImportFeed(u, found, d[i - 1], doc[i])
                  /\ Imported(u, found, doc) = d[Len(doc)]
<1> DEFINE n == Len(doc)
           S == {i \in 0..n : \E g : \A s \in SUBSET (1..i) : g[s] = FoldOf(u, found, doc, g, s)}
<1>1. n \in Nat /\ DOMAIN doc = 1..n
  OBVIOUS
<1>2. 0 \in S
  <2> DEFINE g == [x \in SUBSET (1..0) |-> Unbegun(u)]
  <2>1. ASSUME NEW s \in SUBSET (1..0)
        PROVE  g[s] = FoldOf(u, found, doc, g, s)
    <3>1. s = {}
      OBVIOUS
    <3> QED
      BY <3>1 DEF FoldOf
  <2> HIDE DEF g
  <2>2. \E f : \A s \in SUBSET (1..0) : f[s] = FoldOf(u, found, doc, f, s)
    BY ONLY <2>1
  <2>3. 0 \in 0..n
    BY <1>1
  <2> QED
    BY ONLY <2>2, <2>3
<1>3. ASSUME NEW i \in 0..(n - 1), i \in S
      PROVE  i + 1 \in S
  <2>1. PICK g : \A s \in SUBSET (1..i) : g[s] = FoldOf(u, found, doc, g, s)
    BY <1>3
  <2> DEFINE h == [s \in SUBSET (1..(i + 1)) |-> FoldOf(u, found, doc, g, s)]
  <2>2. ASSUME NEW s \in SUBSET (1..(i + 1))
        PROVE  h[s] = FoldOf(u, found, doc, h, s)
    <3>1. CASE s = {}
      BY <3>1 DEF FoldOf
    <3>2. CASE s # {}
      <4> DEFINE t == s \ {Max(s)}
      <4>1. Max(s) \in s /\ \A x \in s : x <= Max(s)
        <5>1. i + 1 \in Nat
          BY <1>1
        <5> QED
          BY <3>2, <5>1, GreatestIndex
      <4>2. t \in SUBSET (1..i)
        <5> SUFFICES ASSUME NEW x \in t
                     PROVE  x \in 1..i
          OBVIOUS
        <5>1. x \in 1..(i + 1) /\ Max(s) \in 1..(i + 1) /\ x <= Max(s) /\ x # Max(s)
          BY <4>1
        <5> QED
          BY <5>1, <1>1
      <4>3. t \in SUBSET (1..(i + 1))
        OBVIOUS
      <4>4. h[t] = g[t]
        BY <2>1, <4>2, <4>3
      <4> QED
        BY <3>2, <4>4 DEF FoldOf
    <3> QED
      BY <3>1, <3>2
  <2> HIDE DEF h
  <2>3. i + 1 \in 0..n
    BY <1>1
  <2> QED
    BY <2>2, <2>3
<1>4. n \in S
  <2> HIDE DEF S, n
  <2>1. \A i \in 0..n : i \in S
    BY <1>1, <1>2, <1>3, SetUpTo
  <2> QED
    BY <1>1, <2>1
<1>5. PICK g : \A s \in SUBSET (1..n) : g[s] = FoldOf(u, found, doc, g, s)
  BY <1>4
<1> DEFINE h == [s \in SUBSET (1..n) |-> g[s]]
<1>6. h = [s \in SUBSET (1..n) |-> FoldOf(u, found, doc, h, s)]
  <2> SUFFICES ASSUME NEW s \in SUBSET (1..n)
               PROVE  g[s] = FoldOf(u, found, doc, h, s)
    OBVIOUS
  <2>1. s \ {Max(s)} \in SUBSET (1..n)
    OBVIOUS
  <2>2. h[s \ {Max(s)}] = g[s \ {Max(s)}]
    BY <2>1
  <2> QED
    BY <1>5, <2>2 DEF FoldOf
<1> DEFINE it == CHOOSE f : f = [s \in SUBSET (1..n) |-> FoldOf(u, found, doc, f, s)]
<1>7. it = [s \in SUBSET (1..n) |-> FoldOf(u, found, doc, it, s)]
  <2> HIDE DEF h
  <2> QED
    BY <1>6
<1>8. Imported(u, found, doc) = it[1..n]
  BY <1>1, Zenon DEF Imported, FoldLeft, MapThenFoldSet, FoldOf, Unbegun
<1> HIDE DEF it
<1> DEFINE d == [i \in 0..n |-> it[1..i]]
<1>9. d[0] = Unbegun(u)
  <2>1. 1..0 = {} /\ {} \in SUBSET (1..n)
    OBVIOUS
  <2> QED
    BY <1>1, <1>7, <2>1 DEF FoldOf
<1>10. ASSUME NEW i \in 1..n
       PROVE  d[i] = ImportFeed(u, found, d[i - 1], doc[i])
  <2> DEFINE s == 1..i
  <2>1. s \in SUBSET (1..n) /\ i \in s /\ s # {} /\ s \in SUBSET (1..i)
    <3>1. i \in Nat /\ 1 <= i /\ i <= n /\ n \in Nat
      BY <1>1
    <3> HIDE DEF n
    <3>2. \A x \in 1..i : x \in 1..n
      BY <3>1
    <3> QED
      BY <3>1, <3>2
  <2>2. Max(s) \in s /\ \A x \in s : x <= Max(s)
    <3> HIDE DEF s
    <3>1. i \in Nat
      BY <1>1
    <3> QED
      BY <2>1, <3>1, GreatestIndex
  <2>3. Max(s) = i
    <3> DEFINE m == Max(s)
    <3>1. m \in 1..i /\ i <= m
      BY <2>1, <2>2
    <3> HIDE DEF m
    <3>2. m = i
      BY <3>1, <1>1
    <3> QED
      BY <3>2 DEF m
  <2>4. s \ {i} = 1..(i - 1)
    <3>1. ASSUME NEW x \in s \ {i}
          PROVE  x \in 1..(i - 1)
      <4>1. x \in Nat /\ 1 <= x /\ x <= i /\ x # i /\ i \in Nat
        BY <1>1
      <4> HIDE DEF s
      <4> QED
        BY <4>1
    <3>2. \A x \in 1..(i - 1) : x \in s \ {i}
      BY <1>1
    <3> QED
      BY <3>1, <3>2
  <2>5. it[s] = ImportFeed(u, found, it[1..(i - 1)], doc[i])
    <3> HIDE DEF s
    <3> QED
      BY <1>7, <2>1, <2>3, <2>4 DEF FoldOf
  <2>6. i - 1 \in 0..n /\ i \in 0..n
    BY <1>1
  <2> QED
    BY <2>5, <2>6
<1>11. Imported(u, found, doc) = d[n]
  BY <1>1, <1>8
<1> HIDE DEF d
<1> QED
  BY <1>9, <1>10, <1>11

-----------------------------------------------------------------------------
(* What the tables of feeds, subscriptions and categories say together.    *)

FollowRow == [id : Nat, owner : Owners, row : Nat, category : Shelves \cup {None}]

ChannelsOK(feeds, rows) ==
    /\ feeds \in [Sources -> Channel \cup {None}]
    /\ \A x \in Sources : feeds[x] # None =>
          /\ feeds[x].row <= rows
          /\ \A y \in Sources : feeds[y] # None /\ feeds[y].row = feeds[x].row => y = x

FollowsOK(subs, ids) ==
    /\ subs \subseteq FollowRow /\ IsFiniteSet(subs)
    /\ \A s \in subs : s.id <= ids
    /\ \A s, z \in subs : s.id = z.id => s = z

FeedsMatch(feeds, subs) ==
    /\ \A x \in Sources : feeds[x] # None => (feeds[x].orphaned <=> Followers(subs, feeds[x].row) = {})
    /\ \A s \in subs : \E x \in Sources : feeds[x] # None /\ feeds[x].row = s.row

ShelvesOK(subs, shelves) ==
    /\ shelves \in [Owners -> SUBSET Shelves]
    /\ \A u \in Owners : IsFiniteSet(shelves[u]) /\ Cardinality(shelves[u]) <= MaxCategories
    /\ \A s \in subs : s.category \in shelves[s.owner] \cup {None}

OneEach(subs) ==
    /\ \A u \in Owners : Cardinality(Mine(subs, u)) <= MaxSubscriptions
    /\ \A s, z \in subs : s.owner = z.owner /\ s.row = z.row => s = z

Tables(feeds, subs, shelves, rows, ids) ==
    /\ rows \in Nat /\ ids \in Nat
    /\ ChannelsOK(feeds, rows) /\ FollowsOK(subs, ids) /\ FeedsMatch(feeds, subs)
    /\ ShelvesOK(subs, shelves) /\ OneEach(subs)

-----------------------------------------------------------------------------
\* The rows of the feeds.
ChannelTable == [Sources -> Channel \cup {None}]

\* What Taken makes of the feeds.
LEMMA TakenFeeds ==
    ASSUME NEW feeds \in ChannelTable, NEW x \in Sources, NEW r \in Nat
    PROVE  /\ Taken(feeds, x, r) \in ChannelTable
           /\ Taken(feeds, x, r)[x] # None
           /\ Taken(feeds, x, r)[x].row = IF feeds[x] = None THEN r ELSE feeds[x].row
           /\ Taken(feeds, x, r)[x].orphaned = FALSE
           /\ \A y \in Sources : y # x => Taken(feeds, x, r)[y] = feeds[y]
<1>1. CASE feeds[x] = None
  <2>1. NewChannel(r) \in Channel /\ NewChannel(r).row = r /\ NewChannel(r).orphaned = FALSE
    BY DEF NewChannel, Channel
  <2>2. NewChannel(r) # None
    BY <2>1, ChannelAssumption
  <2>3. Taken(feeds, x, r) = [feeds EXCEPT ![x] = NewChannel(r)]
    BY <1>1 DEF Taken
  <2> QED
    BY <1>1, <2>1, <2>2, <2>3 DEF ChannelTable
<1>2. CASE feeds[x] # None
  <2>1. feeds[x] \in Channel
    BY <1>2 DEF ChannelTable
  <2> DEFINE c == [feeds[x] EXCEPT !.orphaned = FALSE]
  <2>2. c \in Channel /\ c.row = feeds[x].row /\ c.orphaned = FALSE
    BY <2>1 DEF Channel
  <2>3. c # None
    BY <2>2, ChannelAssumption
  <2>4. Taken(feeds, x, r) = [feeds EXCEPT ![x] = c]
    BY <1>2 DEF Taken
  <2> HIDE DEF c
  <2> QED
    BY <1>2, <2>2, <2>3, <2>4 DEF ChannelTable
<1> QED
  BY <1>1, <1>2

\* The columns of a feed.
LEMMA ChannelColumns ==
    ASSUME NEW feeds \in [Sources -> Channel \cup {None}], NEW x \in Sources, feeds[x] # None
    PROVE  feeds[x] \in Channel /\ feeds[x].row \in Nat /\ feeds[x].orphaned \in BOOLEAN /\ feeds[x].disabled \in BOOLEAN
BY DEF Channel

\* The feeds after Taken have distinct rows.
LEMMA TakenDistinct ==
    ASSUME NEW feeds, NEW rows \in Nat, ChannelsOK(feeds, rows), NEW x \in Sources,
           NEW r, r = IF feeds[x] = None THEN rows + 1 ELSE feeds[x].row
    PROVE  /\ r \in Nat
           /\ ChannelsOK(Taken(feeds, x, r), IF feeds[x] = None THEN rows + 1 ELSE rows)
           /\ Taken(feeds, x, r)[x].row = r
<1> DEFINE after == Taken(feeds, x, r)
           last == IF feeds[x] = None THEN rows + 1 ELSE rows
<1>1. feeds \in [Sources -> Channel \cup {None}]
  BY DEF ChannelsOK
<1>2. \A y \in Sources : feeds[y] # None => feeds[y].row \in Nat /\ feeds[y].row <= rows
  BY <1>1, ChannelColumns DEF ChannelsOK
<1>3. r \in Nat
  BY <1>2
<1>4. /\ after \in [Sources -> Channel \cup {None}] /\ after[x] # None /\ after[x].row = r
      /\ \A y \in Sources : y # x => after[y] = feeds[y]
  <2>1. feeds \in ChannelTable
    BY <1>1 DEF ChannelTable
  <2>2. /\ Taken(feeds, x, r) \in ChannelTable /\ Taken(feeds, x, r)[x] # None
        /\ Taken(feeds, x, r)[x].row = IF feeds[x] = None THEN r ELSE feeds[x].row
        /\ \A y \in Sources : y # x => Taken(feeds, x, r)[y] = feeds[y]
    BY ONLY <1>3, <2>1, TakenFeeds, x \in Sources
  <2> QED
    BY <2>2 DEF ChannelTable
<1> HIDE DEF after
<1>5. ASSUME NEW y \in Sources, after[y] # None
      PROVE  after[y].row <= last
  BY <1>2, <1>3, <1>4, <1>5
<1>6. ASSUME NEW y \in Sources, NEW z \in Sources, after[y] # None, after[z] # None, after[z].row = after[y].row
      PROVE  z = y
  <2>1. CASE y # x /\ z # x
    BY <1>4, <1>6, <2>1 DEF ChannelsOK
  <2>2. ASSUME NEW w \in Sources, w # x, feeds[w] # None
        PROVE  feeds[w].row # r
    BY <1>2, <2>2 DEF ChannelsOK
  <2> QED
    BY <1>4, <1>6, <2>1, <2>2
<1> QED
  BY <1>3, <1>4, <1>5, <1>6 DEF ChannelsOK, after

\* A subscription more, of a user who has room and not that feed.
LEMMA Subscribed ==
    ASSUME NEW feeds, NEW subs, NEW shelves, NEW rows, NEW ids, Tables(feeds, subs, shelves, rows, ids),
           NEW u \in Owners, NEW x \in Sources,
           NEW r, r = IF feeds[x] = None THEN rows + 1 ELSE feeds[x].row,
           ~Follows(subs, u, r), Cardinality(Mine(subs, u)) < MaxSubscriptions,
           NEW c \in shelves[u] \cup {None},
           NEW k \in Nat, \A s \in subs : s.id # k, NEW last \in Nat, k <= last, ids <= last
    PROVE  Tables(Taken(feeds, x, r), subs \cup {[id |-> k, owner |-> u, row |-> r, category |-> c]},
                  shelves, IF feeds[x] = None THEN rows + 1 ELSE rows, last)
<1> DEFINE new == [id |-> k, owner |-> u, row |-> r, category |-> c]
           after == Taken(feeds, x, r)
           all == subs \cup {new}
<1>1. /\ rows \in Nat /\ ids \in Nat /\ feeds \in [Sources -> Channel \cup {None}]
      /\ subs \subseteq FollowRow /\ IsFiniteSet(subs) /\ shelves \in [Owners -> SUBSET Shelves]
      /\ MaxSubscriptions \in Nat
  BY OrganizationAssumption DEF Tables, ChannelsOK, FollowsOK, ShelvesOK, OrganizationAssumption
<1>2. /\ r \in Nat /\ after[x].row = r
      /\ ChannelsOK(after, IF feeds[x] = None THEN rows + 1 ELSE rows)
  BY <1>1, TakenDistinct DEF Tables
<1>3. /\ after[x] # None /\ after[x].orphaned = FALSE
      /\ \A y \in Sources : y # x => after[y] = feeds[y]
  <2> HIDE DEF after
  <2>1. feeds \in ChannelTable /\ r \in Nat
    BY <1>1, <1>2 DEF ChannelTable
  <2>2. /\ Taken(feeds, x, r)[x] # None /\ Taken(feeds, x, r)[x].orphaned = FALSE
        /\ \A y \in Sources : y # x => Taken(feeds, x, r)[y] = feeds[y]
    BY ONLY <2>1, TakenFeeds, x \in Sources
  <2> QED
    BY <2>2 DEF after
<1> HIDE DEF after
<1>4. new \in FollowRow /\ new.id = k /\ new.owner = u /\ new.row = r /\ new.category = c
  BY <1>1, <1>2 DEF FollowRow
<1> HIDE DEF new
<1>5. \A s \in subs : s.id \in Nat /\ s.id <= ids /\ s.owner \in Owners /\ s.row \in Nat
  BY <1>1 DEF FollowRow, Tables, FollowsOK
<1>6. FollowsOK(all, last)
  <2>1. IsFiniteSet(all) /\ all \subseteq FollowRow
    BY <1>1, <1>4, FS_AddElement
  <2>2. \A s \in all : s.id <= last
    BY <1>1, <1>4, <1>5
  <2>3. ASSUME NEW s \in all, NEW z \in all, s.id = z.id
        PROVE  s = z
    <3>1. \A w \in subs : w.id # new.id
      BY <1>1, <1>4, <1>5
    <3> QED
      BY <2>3, <3>1 DEF Tables, FollowsOK
  <2> QED
    BY <2>1, <2>2, <2>3 DEF FollowsOK
<1>7. FeedsMatch(after, all)
  <2>1. ASSUME NEW y \in Sources, after[y] # None
        PROVE  after[y].orphaned <=> Followers(all, after[y].row) = {}
    <3>1. CASE y = x
      <4>1. new \in Followers(all, after[x].row)
        BY <1>2, <1>4 DEF Followers
      <4> QED
        BY <1>3, <3>1, <4>1
    <3>2. CASE y # x
      <4>1. after[y].row # r
        BY <1>2, <1>3, <2>1, <3>2 DEF ChannelsOK
      <4>2. Followers(all, after[y].row) = Followers(subs, after[y].row)
        BY <1>4, <4>1 DEF Followers
      <4> QED
        BY <1>3, <2>1, <3>2, <4>2 DEF Tables, FeedsMatch
    <3> QED
      BY <3>1, <3>2
  <2>2. ASSUME NEW s \in all
        PROVE  \E y \in Sources : after[y] # None /\ after[y].row = s.row
    <3>1. CASE s = new
      BY <1>2, <1>3, <1>4, <3>1
    <3>2. CASE s # new
      <4>1. PICK y \in Sources : feeds[y] # None /\ feeds[y].row = s.row
        BY <3>2 DEF Tables, FeedsMatch
      <4>2. CASE y = x
        BY <1>2, <1>3, <4>1, <4>2
      <4> QED
        BY <1>3, <4>1, <4>2
    <3> QED
      BY <3>1, <3>2
  <2> QED
    BY <2>1, <2>2 DEF FeedsMatch
<1>8. ShelvesOK(all, shelves)
  BY <1>4 DEF Tables, ShelvesOK
<1>9. OneEach(all)
  <2>1. ASSUME NEW v \in Owners
        PROVE  Cardinality(Mine(all, v)) <= MaxSubscriptions
    <3>1. CASE v = u
      <4>1. Mine(all, u) = Mine(subs, u) \cup {new}
        BY <1>4 DEF Mine
      <4>2. IsFiniteSet(Mine(subs, u))
        BY <1>1, FS_Subset DEF Mine
      <4>3. Cardinality(Mine(subs, u)) \in Nat
        BY <4>2, FS_CardinalityType
      <4>4. Cardinality(Mine(all, u)) <= Cardinality(Mine(subs, u)) + 1
        <5>1. Cardinality(Mine(subs, u) \cup {new}) =
                 IF new \in Mine(subs, u) THEN Cardinality(Mine(subs, u)) ELSE Cardinality(Mine(subs, u)) + 1
          BY <4>2, FS_AddElement
        <5>2. Cardinality(Mine(all, u)) = Cardinality(Mine(subs, u) \cup {new})
          BY <4>1
        <5> HIDE DEF all
        <5> QED
          BY <4>3, <5>1, <5>2
      <4>5. Cardinality(Mine(all, u)) \in Nat
        BY <4>1, <4>2, FS_AddElement, FS_CardinalityType
      <4> QED
        BY <1>1, <3>1, <4>3, <4>4, <4>5
    <3>2. CASE v # u
      <4>1. Mine(all, v) = Mine(subs, v)
        BY <1>4, <3>2 DEF Mine
      <4> QED
        BY <4>1 DEF Tables, OneEach
    <3> QED
      BY <3>1, <3>2
  <2>2. ASSUME NEW s \in all, NEW z \in all, s.owner = z.owner, s.row = z.row
        PROVE  s = z
    <3>1. \A w \in subs : ~(w.owner = new.owner /\ w.row = new.row)
      BY <1>4 DEF Follows
    <3> QED
      BY <2>2, <3>1 DEF Tables, OneEach
  <2> QED
    BY <2>1, <2>2 DEF OneEach
<1>10. (IF feeds[x] = None THEN rows + 1 ELSE rows) \in Nat
  BY <1>1
<1> QED
  BY <1>2, <1>6, <1>7, <1>8, <1>9, <1>10 DEF Tables, new, after

\* A category more.
LEMMA Shelved ==
    ASSUME NEW feeds, NEW subs, NEW shelves, NEW rows, NEW ids, Tables(feeds, subs, shelves, rows, ids),
           NEW u \in Owners, NEW title \in Shelves, Cardinality(shelves[u]) < MaxCategories
    PROVE  Tables(feeds, subs, [shelves EXCEPT ![u] = @ \cup {title}], rows, ids)
<1>1. shelves \in [Owners -> SUBSET Shelves] /\ IsFiniteSet(shelves[u]) /\ MaxCategories \in Nat
  BY OrganizationAssumption DEF Tables, ShelvesOK, OrganizationAssumption
<1> DEFINE after == [shelves EXCEPT ![u] = @ \cup {title}]
<1>2. after \in [Owners -> SUBSET Shelves] /\ after[u] = shelves[u] \cup {title}
      /\ \A v \in Owners : v # u => after[v] = shelves[v]
  BY <1>1
<1> HIDE DEF after
<1>3. IsFiniteSet(after[u]) /\ Cardinality(after[u]) <= MaxCategories
  <2>1. Cardinality(shelves[u]) \in Nat
    BY <1>1, FS_CardinalityType
  <2>2. IsFiniteSet(after[u]) /\ Cardinality(after[u]) = IF title \in shelves[u] THEN Cardinality(shelves[u]) ELSE Cardinality(shelves[u]) + 1
    BY <1>1, <1>2, FS_AddElement
  <2> QED
    BY <1>1, <2>1, <2>2
<1>4. \A v \in Owners : shelves[v] \subseteq after[v]
  BY <1>2
<1>5. \A s \in subs : s.owner \in Owners
  BY DEF Tables, FollowsOK, FollowRow
<1>6. ShelvesOK(subs, after)
  <2>1. \A v \in Owners : IsFiniteSet(after[v]) /\ Cardinality(after[v]) <= MaxCategories
    BY <1>2, <1>3 DEF Tables, ShelvesOK
  <2>2. \A s \in subs : s.category \in after[s.owner] \cup {None}
    BY <1>4, <1>5 DEF Tables, ShelvesOK
  <2> QED
    BY <1>2, <2>1, <2>2 DEF ShelvesOK
<1> QED
  BY <1>6 DEF Tables, after

\* Subscriptions that are rewritten one by one, each for the same user and with
\* the same id, are no more than before.
LEMMA Rewritten ==
    ASSUME NEW subs, NEW ids, FollowsOK(subs, ids), NEW g, NEW after,
           \A s \in subs : g[s] \in after, \A z \in after : \E s \in subs : z = g[s],
           \A s \in subs : g[s] \in FollowRow /\ g[s].id = s.id /\ g[s].owner = s.owner
    PROVE  /\ FollowsOK(after, ids)
           /\ \A u \in Owners : Cardinality(Mine(after, u)) \in Nat
                                /\ Cardinality(Mine(after, u)) <= Cardinality(Mine(subs, u))
<1>1. subs \subseteq FollowRow /\ IsFiniteSet(subs)
  BY DEF FollowsOK
<1>2. IsFiniteSet(after) /\ after \subseteq FollowRow
  <2> DEFINE f == [s \in subs |-> g[s]]
  <2>1. f \in Surjection(subs, after)
    BY DEF Surjection
  <2> HIDE DEF f
  <2> QED
    BY <1>1, <2>1, FS_Surjection
<1>3. FollowsOK(after, ids)
  <2>1. \A s \in after : s.id <= ids
    BY DEF FollowsOK
  <2>2. ASSUME NEW s \in after, NEW z \in after, s.id = z.id
        PROVE  s = z
    <3>1. PICK a1 \in subs : s = g[a1]
      OBVIOUS
    <3>2. PICK a2 \in subs : z = g[a2]
      OBVIOUS
    <3>3. a1 = a2
      BY <2>2, <3>1, <3>2 DEF FollowsOK
    <3> QED
      BY <3>1, <3>2, <3>3
  <2> QED
    BY <1>2, <2>1, <2>2 DEF FollowsOK
<1>4. ASSUME NEW u \in Owners
      PROVE  Cardinality(Mine(after, u)) \in Nat /\ Cardinality(Mine(after, u)) <= Cardinality(Mine(subs, u))
  <2> DEFINE f == [s \in Mine(subs, u) |-> g[s]]
  <2>1. f \in Surjection(Mine(subs, u), Mine(after, u))
    <3>1. f \in [Mine(subs, u) -> Mine(after, u)]
      BY DEF Mine
    <3>2. ASSUME NEW z \in Mine(after, u)
          PROVE  \E s \in Mine(subs, u) : f[s] = z
      <4>1. PICK s \in subs : z = g[s] /\ z.owner = u
        BY DEF Mine
      <4>2. s \in Mine(subs, u)
        BY <4>1 DEF Mine
      <4> QED
        BY <4>1, <4>2
    <3> QED
      BY <3>1, <3>2 DEF Surjection
  <2>2. IsFiniteSet(Mine(subs, u))
    BY <1>1, FS_Subset DEF Mine
  <2> HIDE DEF f
  <2> QED
    BY <2>1, <2>2, FS_Surjection, FS_CardinalityType
<1> QED
  BY <1>3, <1>4

\* The numbers of the configuration.
LEMMA OwnersLimits ==
    /\ MaxSubscriptions \in Nat /\ MaxCategories \in Nat
    /\ \A t \in Tabs : OwnerOf[t] \in Owners
BY OrganizationAssumption DEF OrganizationAssumption

\* Subscriptions that change their category only.
LEMMA Filed ==
    ASSUME NEW feeds, NEW subs, NEW shelves, NEW rows, NEW ids, Tables(feeds, subs, shelves, rows, ids),
           NEW g, NEW after,
           \A s \in subs : g[s] \in after, \A z \in after : \E s \in subs : z = g[s], NEW kept,
           \A s \in subs : /\ g[s] \in FollowRow /\ g[s].id = s.id /\ g[s].owner = s.owner
                           /\ g[s].row = s.row /\ g[s].category \in kept[s.owner] \cup {None},
           kept \in [Owners -> SUBSET Shelves],
           \A u \in Owners : IsFiniteSet(kept[u]) /\ Cardinality(kept[u]) <= MaxCategories
    PROVE  Tables(feeds, after, kept, rows, ids)
<1>1. /\ FollowsOK(after, ids)
      /\ \A u \in Owners : Cardinality(Mine(after, u)) \in Nat
                           /\ Cardinality(Mine(after, u)) <= Cardinality(Mine(subs, u))
  <2>1. \A s \in subs : g[s] \in FollowRow /\ g[s].id = s.id /\ g[s].owner = s.owner
    OBVIOUS
  <2>2. FollowsOK(subs, ids)
    BY DEF Tables
  <2> QED
    BY <2>1, <2>2, Rewritten
<1>2. FeedsMatch(feeds, after)
  <2>1. ASSUME NEW r
        PROVE  Followers(after, r) = {} <=> Followers(subs, r) = {}
    BY DEF Followers
  <2>2. \A s \in after : \E z \in subs : z.row = s.row
    OBVIOUS
  <2>3. FeedsMatch(feeds, subs)
    BY DEF Tables
  <2> QED
    BY ONLY <2>1, <2>2, <2>3 DEF FeedsMatch
<1>3. ShelvesOK(after, kept)
  BY DEF ShelvesOK
<1>4. OneEach(after)
  <2>1. ASSUME NEW s \in after, NEW z \in after, s.owner = z.owner, s.row = z.row
        PROVE  s = z
    <3>1. PICK a1 \in subs : s = g[a1]
      OBVIOUS
    <3>2. PICK a2 \in subs : z = g[a2]
      OBVIOUS
    <3>3. a1 = a2
      BY <2>1, <3>1, <3>2 DEF Tables, OneEach
    <3> QED
      BY <3>1, <3>2, <3>3
  <2>2. ASSUME NEW u \in Owners
        PROVE  Cardinality(Mine(after, u)) <= MaxSubscriptions
    <3>1. IsFiniteSet(Mine(subs, u))
      BY FS_Subset DEF Mine, Tables, FollowsOK
    <3>2. Cardinality(Mine(subs, u)) \in Nat /\ Cardinality(Mine(subs, u)) <= MaxSubscriptions
      BY <3>1, FS_CardinalityType DEF Tables, OneEach
    <3> QED
      BY <1>1, <3>2, OwnersLimits
  <2> QED
    BY <2>1, <2>2 DEF OneEach
<1> QED
  BY <1>1, <1>2, <1>3, <1>4 DEF Tables

\* A subscription less; its feed is orphaned if that was the last one.
LEMMA Unsubscribed ==
    ASSUME NEW feeds, NEW subs, NEW shelves, NEW rows, NEW ids, Tables(feeds, subs, shelves, rows, ids),
           NEW s \in subs, NEW after, after = subs \ {s},
           NEW fresh, fresh = IF Followers(after, s.row) = {}
                                THEN [x \in Sources |->
                                         IF feeds[x] = None THEN None
                                         ELSE IF feeds[x].row = s.row THEN [feeds[x] EXCEPT !.orphaned = TRUE]
                                         ELSE feeds[x]]
                                ELSE feeds
    PROVE  Tables(fresh, after, shelves, rows, ids)
<1>1. feeds \in [Sources -> Channel \cup {None}] /\ subs \subseteq FollowRow /\ IsFiniteSet(subs)
  BY DEF Tables, ChannelsOK, FollowsOK
<1>2. ASSUME NEW x \in Sources
      PROVE  /\ fresh[x] \in Channel \cup {None} /\ (fresh[x] = None <=> feeds[x] = None)
             /\ feeds[x] # None => /\ fresh[x].row = feeds[x].row
                                   /\ fresh[x].orphaned =
                                         IF feeds[x].row = s.row /\ Followers(after, s.row) = {} THEN TRUE
                                         ELSE feeds[x].orphaned
  <2>1. CASE feeds[x] = None
    BY <2>1
  <2>2. CASE feeds[x] # None
    <3>1. feeds[x] \in Channel
      BY <1>1, <2>2
    <3>2. [feeds[x] EXCEPT !.orphaned = TRUE] \in Channel
          /\ [feeds[x] EXCEPT !.orphaned = TRUE].row = feeds[x].row
          /\ [feeds[x] EXCEPT !.orphaned = TRUE].orphaned = TRUE
      BY <3>1 DEF Channel
    <3>3. \/ fresh[x] = feeds[x] /\ ~(feeds[x].row = s.row /\ Followers(after, s.row) = {})
          \/ fresh[x] = [feeds[x] EXCEPT !.orphaned = TRUE] /\ feeds[x].row = s.row /\ Followers(after, s.row) = {}
      BY <2>2
    <3> QED
      BY <2>2, <3>1, <3>2, <3>3, ChannelAssumption
  <2> QED
    BY <2>1, <2>2
<1>3. fresh = [x \in Sources |-> fresh[x]]
  BY <1>1
<1>4. ChannelsOK(fresh, rows)
  <2>1. fresh \in [Sources -> Channel \cup {None}]
    BY <1>2, <1>3
  <2>2. ChannelsOK(feeds, rows)
    BY DEF Tables
  <2> QED
    BY ONLY <1>2, <2>1, <2>2 DEF ChannelsOK
<1>5. FollowsOK(after, ids)
  <2>1. IsFiniteSet(after) /\ after \subseteq subs
    BY <1>1, FS_Subset
  <2> QED
    BY <2>1 DEF Tables, FollowsOK
<1>6. FeedsMatch(fresh, after)
  <2>1. ASSUME NEW x \in Sources, fresh[x] # None
        PROVE  fresh[x].orphaned <=> Followers(after, fresh[x].row) = {}
    <3>1. feeds[x] # None /\ fresh[x].row = feeds[x].row
      BY <1>2, <2>1
    <3>2. CASE feeds[x].row = s.row
      <4>1. s \in Followers(subs, feeds[x].row)
        BY <3>2 DEF Followers
      <4>2. ~feeds[x].orphaned
        BY <3>1, <4>1 DEF Tables, FeedsMatch
      <4> QED
        BY <1>2, <3>1, <3>2, <4>2
    <3>3. CASE feeds[x].row # s.row
      <4>1. Followers(after, feeds[x].row) = Followers(subs, feeds[x].row)
        BY <3>3 DEF Followers
      <4> QED
        BY <1>2, <3>1, <3>3, <4>1 DEF Tables, FeedsMatch
    <3> QED
      BY <3>2, <3>3
  <2>2. ASSUME NEW z \in after
        PROVE  \E x \in Sources : fresh[x] # None /\ fresh[x].row = z.row
    <3>1. PICK x \in Sources : feeds[x] # None /\ feeds[x].row = z.row
      BY DEF Tables, FeedsMatch
    <3> QED
      BY ONLY <1>2, <3>1, x \in Sources
  <2> QED
    BY <2>1, <2>2 DEF FeedsMatch
<1>7. OneEach(after)
  <2>1. ASSUME NEW u \in Owners
        PROVE  Cardinality(Mine(after, u)) <= MaxSubscriptions
    <3>1. IsFiniteSet(Mine(subs, u)) /\ Mine(after, u) \in SUBSET Mine(subs, u)
      BY <1>1, FS_Subset DEF Mine
    <3>2. IsFiniteSet(Mine(after, u)) /\ Cardinality(Mine(after, u)) <= Cardinality(Mine(subs, u))
      BY <3>1, FS_Subset
    <3>3. Cardinality(Mine(after, u)) \in Nat /\ Cardinality(Mine(subs, u)) \in Nat
      BY <3>1, <3>2, FS_CardinalityType
    <3> QED
      BY <3>2, <3>3, OwnersLimits DEF Tables, OneEach
  <2> QED
    BY <2>1 DEF Tables, OneEach
<1>8. ShelvesOK(after, shelves)
  BY DEF Tables, ShelvesOK
<1> QED
  BY <1>4, <1>5, <1>6, <1>7, <1>8 DEF Tables

\* Nobody else subscribes to the feed of a subscription.
Alone(subs, z) == \A s \in Followers(subs, z.row) : s.id = z.id

\* A subscription that moves leaves its feed and takes another, under its id.
LEMMA Moved ==
    ASSUME NEW feeds, NEW subs, NEW shelves, NEW rows, NEW ids, Tables(feeds, subs, shelves, rows, ids),
           NEW z \in subs, NEW x \in Sources,
           NEW r, r = IF feeds[x] = None THEN rows + 1 ELSE feeds[x].row, ~Follows(subs, z.owner, r),
           NEW fresh,
           Alone(subs, z) => fresh = Orphaned(Taken(feeds, x, r), z.row),
           ~Alone(subs, z) => fresh = Taken(feeds, x, r),
           NEW after, after = (subs \ {z}) \cup {[z EXCEPT !.row = r]},
           NEW last, last = IF feeds[x] = None THEN rows + 1 ELSE rows
    PROVE  Tables(fresh, after, shelves, last, ids)
<1> DEFINE left == subs \ {z}
           nobody == Followers(left, z.row) = {}
           mid == IF nobody
                  THEN [y \in Sources |->
                           IF feeds[y] = None THEN None
                           ELSE IF feeds[y].row = z.row THEN [feeds[y] EXCEPT !.orphaned = TRUE]
                           ELSE feeds[y]]
                  ELSE feeds
           new == [id |-> z.id, owner |-> z.owner, row |-> r, category |-> z.category]
<1>1. /\ feeds \in [Sources -> Channel \cup {None}] /\ subs \subseteq FollowRow /\ IsFiniteSet(subs)
      /\ z \in FollowRow /\ z.owner \in Owners /\ z.id \in Nat /\ z.row \in Nat /\ z.id <= ids
      /\ ids \in Nat /\ rows \in Nat
  BY DEF Tables, ChannelsOK, FollowsOK, FollowRow
<1>2. \A s \in subs : s.id = z.id <=> s = z
  BY DEF Tables, FollowsOK
<1>3. Tables(mid, left, shelves, rows, ids)
  BY Unsubscribed
<1>4. Alone(subs, z) <=> nobody
  BY <1>2 DEF Followers, Alone
<1>5. r \in Nat /\ Taken(feeds, x, r)[x].row = r
  BY <1>1, TakenDistinct DEF Tables
<1>6. r # z.row
  BY <1>1 DEF Follows
<1>7. (mid[x] = None <=> feeds[x] = None) /\ (feeds[x] # None => mid[x] = feeds[x])
  <2>1. feeds[x] # None => feeds[x].row # z.row
    BY <1>6
  <2> QED
    BY <1>1, <2>1
<1>8. r = IF mid[x] = None THEN rows + 1 ELSE mid[x].row
  BY <1>7
<1>9. fresh = Taken(mid, x, r)
  <2>1. CASE ~nobody
    BY <1>4, <2>1
  <2>2. CASE nobody
    <3>1. fresh = Orphaned(Taken(feeds, x, r), z.row)
      BY <1>4, <2>2
    <3>2. mid \in [Sources -> Channel \cup {None}]
      BY <1>3 DEF Tables, ChannelsOK
    <3>3. /\ Taken(feeds, x, r) \in ChannelTable /\ Taken(feeds, x, r)[x] # None
          /\ \A y \in Sources : y # x => Taken(feeds, x, r)[y] = feeds[y]
      <4>1. feeds \in ChannelTable
        BY <1>1 DEF ChannelTable
      <4> QED
        BY ONLY <1>5, <4>1, TakenFeeds, x \in Sources
    <3>4. /\ Taken(mid, x, r) \in [Sources -> Channel \cup {None}]
          /\ \A y \in Sources : y # x => Taken(mid, x, r)[y] = mid[y]
      <4> HIDE DEF mid
      <4>1. mid \in ChannelTable
        BY ONLY <3>2 DEF ChannelTable
      <4>2. /\ Taken(mid, x, r) \in ChannelTable
            /\ \A y \in Sources : y # x => Taken(mid, x, r)[y] = mid[y]
        BY ONLY <1>5, <4>1, TakenFeeds, x \in Sources
      <4> QED
        BY ONLY <4>2 DEF ChannelTable
    <3>5. Taken(mid, x, r)[x] = Taken(feeds, x, r)[x]
      <4>1. mid[x] = feeds[x]
        BY <1>7
      <4> HIDE DEF mid
      <4> QED
        BY <1>1, <3>2, <4>1 DEF Taken
    <3>6. ASSUME NEW y \in Sources
          PROVE  fresh[y] = Taken(mid, x, r)[y]
      <4>1. fresh[y] = IF Taken(feeds, x, r)[y] = None THEN None
                        ELSE IF Taken(feeds, x, r)[y].row = z.row THEN [Taken(feeds, x, r)[y] EXCEPT !.orphaned = TRUE]
                        ELSE Taken(feeds, x, r)[y]
        BY <3>1 DEF Orphaned
      <4>2. CASE y = x
        BY <1>5, <1>6, <3>3, <3>5, <4>1, <4>2
      <4>3. CASE y # x
        <5>1. Taken(feeds, x, r)[y] = feeds[y] /\ Taken(mid, x, r)[y] = mid[y]
          BY <3>3, <3>4, <4>3
        <5>2. mid[y] = IF feeds[y] = None THEN None
                       ELSE IF feeds[y].row = z.row THEN [feeds[y] EXCEPT !.orphaned = TRUE]
                       ELSE feeds[y]
          BY <2>2
        <5> QED
          BY <4>1, <5>1, <5>2
      <4> QED
        BY <4>2, <4>3
    <3>7. fresh = [y \in Sources |-> fresh[y]]
      BY <3>1 DEF Orphaned
    <3> HIDE DEF mid
    <3> QED
      BY <3>4, <3>6, <3>7
  <2> QED
    BY <2>1, <2>2
<1>10. after = left \cup {new}
  <2>1. [z EXCEPT !.row = r] = new
    BY <1>1 DEF FollowRow
  <2> HIDE DEF new
  <2> QED
    BY <1>2, <2>1
<1>11. Tables(Taken(mid, x, r), left \cup {new}, shelves, IF mid[x] = None THEN rows + 1 ELSE rows, ids)
  <2>1. ~Follows(left, z.owner, r)
    BY DEF Follows
  <2>2. Cardinality(Mine(left, z.owner)) < MaxSubscriptions
    <3>1. IsFiniteSet(Mine(subs, z.owner)) /\ z \in Mine(subs, z.owner)
      BY <1>1, FS_Subset DEF Mine
    <3>2. Mine(left, z.owner) = Mine(subs, z.owner) \ {z}
      BY DEF Mine
    <3>3. Cardinality(Mine(left, z.owner)) = Cardinality(Mine(subs, z.owner)) - 1
      <4>1. Cardinality(Mine(subs, z.owner) \ {z}) = Cardinality(Mine(subs, z.owner)) - 1
        BY ONLY <3>1, FS_RemoveElement
      <4> QED
        BY <3>2, <4>1
    <3>4. Cardinality(Mine(subs, z.owner)) \in Nat /\ Cardinality(Mine(subs, z.owner)) <= MaxSubscriptions
      BY <1>1, <3>1, FS_CardinalityType DEF Tables, OneEach
    <3> QED
      BY <3>3, <3>4, OwnersLimits
  <2>3. z.category \in shelves[z.owner] \cup {None}
    BY DEF Tables, ShelvesOK
  <2>4. \A s \in left : s.id # z.id
    BY <1>2
  <2>5. ids <= ids
    BY <1>1
  <2>6. z.owner \in Owners /\ z.id \in Nat /\ ids \in Nat /\ z.id <= ids
    BY <1>1
  <2> HIDE DEF mid, left
  <2> QED
    BY ONLY <1>3, <1>8, <2>1, <2>2, <2>3, <2>4, <2>5, <2>6, Subscribed, x \in Sources, ZenonT(60)
<1> QED
  BY <1>7, <1>9, <1>10, <1>11

\* A feed without subscribers is deleted.
LEMMA Purged ==
    ASSUME NEW feeds, NEW subs, NEW shelves, NEW rows, NEW ids, Tables(feeds, subs, shelves, rows, ids),
           NEW x \in Sources, feeds[x] # None, Followers(subs, feeds[x].row) = {}
    PROVE  Tables([feeds EXCEPT ![x] = None], subs, shelves, rows, ids)
<1> DEFINE after == [feeds EXCEPT ![x] = None]
<1>1. /\ after \in [Sources -> Channel \cup {None}] /\ after[x] = None
      /\ \A y \in Sources : y # x => after[y] = feeds[y]
  BY DEF Tables, ChannelsOK
<1> HIDE DEF after
<1>2. ChannelsOK(after, rows)
  <2>1. ChannelsOK(feeds, rows)
    BY DEF Tables
  <2> QED
    BY ONLY <1>1, <2>1 DEF ChannelsOK
<1>3. FeedsMatch(after, subs)
  <2>1. ASSUME NEW s \in subs
        PROVE  \E y \in Sources : after[y] # None /\ after[y].row = s.row
    <3>1. PICK y \in Sources : feeds[y] # None /\ feeds[y].row = s.row
      BY DEF Tables, FeedsMatch
    <3>2. y # x
      BY <3>1 DEF Followers
    <3> QED
      BY <1>1, <3>1, <3>2
  <2>2. FeedsMatch(feeds, subs)
    BY DEF Tables
  <2> QED
    BY ONLY <1>1, <2>1, <2>2 DEF FeedsMatch
<1> QED
  BY <1>2, <1>3 DEF Tables, after

\* A feed that is disabled stays what it is otherwise.
LEMMA Disabled ==
    ASSUME NEW feeds, NEW subs, NEW shelves, NEW rows, NEW ids, Tables(feeds, subs, shelves, rows, ids),
           NEW x \in Sources, feeds[x] # None
    PROVE  Tables([feeds EXCEPT ![x].disabled = TRUE], subs, shelves, rows, ids)
<1> DEFINE after == [feeds EXCEPT ![x].disabled = TRUE]
<1>1. feeds \in [Sources -> Channel \cup {None}] /\ feeds[x] \in Channel
  BY DEF Tables, ChannelsOK
<1>2. /\ [feeds[x] EXCEPT !.disabled = TRUE] \in Channel
      /\ [feeds[x] EXCEPT !.disabled = TRUE].row = feeds[x].row
      /\ [feeds[x] EXCEPT !.disabled = TRUE].orphaned = feeds[x].orphaned
  BY <1>1 DEF Channel
<1>3. after[x] = [feeds[x] EXCEPT !.disabled = TRUE] /\ after \in [Sources -> Channel \cup {None}]
      /\ \A y \in Sources : y # x => after[y] = feeds[y]
  BY <1>1, <1>2
<1> HIDE DEF after
<1>4. \A y \in Sources : /\ after[y] = None <=> feeds[y] = None
                         /\ feeds[y] # None => after[y].row = feeds[y].row /\ after[y].orphaned = feeds[y].orphaned
  BY <1>2, <1>3, ChannelAssumption
<1>5. ChannelsOK(after, rows)
  <2>1. ChannelsOK(feeds, rows)
    BY DEF Tables
  <2> QED
    BY ONLY <1>3, <1>4, <2>1 DEF ChannelsOK
<1>6. FeedsMatch(after, subs)
  <2>1. FeedsMatch(feeds, subs)
    BY DEF Tables
  <2>2. ASSUME NEW s \in subs
        PROVE  \E y \in Sources : after[y] # None /\ after[y].row = s.row
    <3>1. PICK y \in Sources : feeds[y] # None /\ feeds[y].row = s.row
      BY DEF Tables, FeedsMatch
    <3> QED
      BY <1>4, <3>1
  <2> QED
    BY ONLY <1>4, <2>1, <2>2 DEF FeedsMatch
<1> QED
  BY <1>5, <1>6 DEF Tables, after

-----------------------------------------------------------------------------
(* Imports                                                                 *)

OpmlItem == [source : Sources, category : Shelves \cup {None}]

\* The tables as an import has them in its transaction.
ImportTables(u, shelves, d) ==
    Tables(d.channel, d.follows, [shelves EXCEPT ![u] = d.shelf], d.rows, d.ids)

\* One feed more, and nothing else: what was there stays.
OneMore(u, d, e, item) ==
    /\ d.follows \subseteq e.follows /\ d.ids <= e.ids
    /\ \A x \in Sources : d.channel[x] # None => e.channel[x] # None /\ e.channel[x].row = d.channel[x].row
    /\ e.channel[item.source] # None /\ Follows(e.follows, u, e.channel[item.source].row)
    /\ \A s \in e.follows \ d.follows :
          /\ s.id > d.ids /\ s.owner = u
          /\ s.row = e.channel[item.source].row /\ s.category = item.category

\* Nobody subscribes to a feed before it is there.
LEMMA RowsAreOld ==
    ASSUME NEW feeds, NEW subs, NEW shelves, NEW rows, NEW ids, Tables(feeds, subs, shelves, rows, ids),
           NEW s \in subs
    PROVE  s.row \in Nat /\ s.row <= rows
<1>1. PICK x \in Sources : feeds[x] # None /\ feeds[x].row = s.row
  BY DEF Tables, FeedsMatch
<1> QED
  BY <1>1, ChannelColumns DEF Tables, ChannelsOK

\* The verdicts of an import.
ImportVerdicts == {"ok", "again", "refused"}
Judged(d) == "verdict" \in DOMAIN d /\ d.verdict \in ImportVerdicts

\* A feed more of an import, or one that was followed already.
LEMMA ImportKeeps ==
    ASSUME NEW u \in Owners, NEW found, NEW shelves, shelves \in [Owners -> SUBSET Shelves],
           NEW d, d.verdict = "ok", Judged(d), d.shelf \subseteq Shelves,
           ImportTables(u, shelves, d), NEW item \in OpmlItem,
           NEW e, e = ImportFeed(u, found, d, item), e.verdict = "ok"
    PROVE  e.shelf \subseteq Shelves /\ ImportTables(u, shelves, e) /\ OneMore(u, d, e, item)
<1> DEFINE feed == d.channel[item.source]
           row == IF feed = None THEN d.rows + 1 ELSE feed.row
           new == item.category # None /\ item.category \notin d.shelf
           before == [shelves EXCEPT ![u] = d.shelf]
           kept == IF new THEN d.shelf \cup {item.category} ELSE d.shelf
           filed == [shelves EXCEPT ![u] = kept]
           one == [id |-> d.ids + 1, owner |-> u, row |-> row, category |-> item.category]
<1>1. item.source \in Sources /\ item.category \in Shelves \cup {None}
  BY DEF OpmlItem
<1>2. Tables(d.channel, d.follows, before, d.rows, d.ids) /\ before[u] = d.shelf
      /\ d.rows \in Nat /\ d.ids \in Nat /\ d.channel \in [Sources -> Channel \cup {None}]
  BY DEF ImportTables, Tables, ChannelsOK
<1>3. CASE Follows(d.follows, u, row)
  <2>1. feed # None
    <3> SUFFICES ASSUME feed = None
                 PROVE  FALSE
      OBVIOUS
    <3>1. PICK s \in d.follows : s.row = d.rows + 1
      BY <1>3 DEF Follows
    <3>2. s.row \in Nat /\ s.row <= d.rows
      BY ONLY <1>2, <3>1, RowsAreOld
    <3> QED
      BY <1>2, <3>1, <3>2
  <2>2. e = d
    BY <1>3 DEF ImportFeed
  <2> QED
    BY <1>2, <1>3, <2>1, <2>2 DEF OneMore
<1>4. CASE ~Follows(d.follows, u, row)
  <2>1. /\ Cardinality(Mine(d.follows, u)) < MaxSubscriptions
        /\ new => Cardinality(d.shelf) < MaxCategories
        /\ e = [verdict |-> "ok", channel |-> Taken(d.channel, item.source, row),
                rows |-> IF feed = None THEN row ELSE d.rows, ids |-> d.ids + 1, shelf |-> kept,
                follows |-> d.follows \cup {one}]
    <3>1. [d EXCEPT !.verdict = "again"].verdict = "again" /\ [d EXCEPT !.verdict = "refused"].verdict = "refused"
      BY DEF Judged
    <3>2. /\ ~(feed # None /\ found[item.source] # row)
          /\ ~(feed # None /\ feed.disabled)
      BY <3>1 DEF ImportFeed
    <3>3. ~(Cardinality(Mine(d.follows, u)) >= MaxSubscriptions \/ (new /\ Cardinality(d.shelf) >= MaxCategories))
      BY <1>4, <3>1, <3>2 DEF ImportFeed
    <3>4. Cardinality(Mine(d.follows, u)) \in Nat /\ Cardinality(d.shelf) \in Nat
      <4>1. IsFiniteSet(Mine(d.follows, u)) /\ IsFiniteSet(d.shelf)
        BY <1>2, FS_Subset DEF Mine, Tables, FollowsOK, ShelvesOK
      <4> QED
        BY <4>1, FS_CardinalityType
    <3>5. Cardinality(Mine(d.follows, u)) < MaxSubscriptions /\ (new => Cardinality(d.shelf) < MaxCategories)
      BY <3>3, <3>4, OwnersLimits
    <3> QED
      BY <1>4, <3>2, <3>3, <3>5 DEF ImportFeed
  <2>2. kept \subseteq Shelves /\ item.category \in kept \cup {None}
    BY <1>1
  <2>3. filed[u] = kept /\ filed \in [Owners -> SUBSET Shelves]
    BY <2>2
  <2>4. Tables(d.channel, d.follows, filed, d.rows, d.ids)
    <3>1. CASE new
      <4>1. Tables(d.channel, d.follows, [before EXCEPT ![u] = @ \cup {item.category}], d.rows, d.ids)
        <5>1. Cardinality(before[u]) < MaxCategories /\ item.category \in Shelves
          BY <1>1, <1>2, <2>1, <3>1
        <5> HIDE DEF before
        <5> QED
          BY <1>2, <5>1, Shelved
      <4>2. [before EXCEPT ![u] = @ \cup {item.category}] = filed
        BY <3>1
      <4> QED
        BY <4>1, <4>2
    <3>2. CASE ~new
      BY <1>2, <3>2
    <3> QED
      BY <3>1, <3>2
  <2>5. Tables(Taken(d.channel, item.source, row), d.follows \cup {one}, filed,
               IF feed = None THEN d.rows + 1 ELSE d.rows, d.ids + 1)
    <3>1. d.ids + 1 \in Nat /\ d.ids + 1 <= d.ids + 1 /\ d.ids <= d.ids + 1
      BY <1>2
    <3>2. ASSUME NEW s \in d.follows
          PROVE  s.id # d.ids + 1
      BY <1>2 DEF Tables, FollowsOK, FollowRow
    <3>3. item.category \in filed[u] \cup {None}
      BY <2>2, <2>3
    <3>4. row = IF d.channel[item.source] = None THEN d.rows + 1 ELSE d.channel[item.source].row
      OBVIOUS
    <3>5. Cardinality(Mine(d.follows, u)) < MaxSubscriptions
      BY <2>1
    <3> HIDE DEF filed, row
    <3> QED
      BY ONLY <1>1, <1>4, <2>4, <3>1, <3>2, <3>3, <3>4, <3>5, Subscribed, u \in Owners, ZenonT(60)
  <2>6. /\ e.channel = Taken(d.channel, item.source, row) /\ e.follows = d.follows \cup {one}
        /\ e.shelf = kept /\ e.ids = d.ids + 1
        /\ e.rows = IF feed = None THEN d.rows + 1 ELSE d.rows
    BY <2>1
  <2>7. ImportTables(u, shelves, e)
    BY <2>5, <2>6 DEF ImportTables
  <2>8. row \in Nat
    BY <1>1, <1>2, ChannelColumns
  <2>9. /\ e.channel[item.source] # None /\ e.channel[item.source].row = row
        /\ \A y \in Sources : y # item.source => e.channel[y] = d.channel[y]
    <3>1. /\ Taken(d.channel, item.source, row)[item.source] # None
          /\ Taken(d.channel, item.source, row)[item.source].row =
                IF d.channel[item.source] = None THEN row ELSE d.channel[item.source].row
          /\ \A y \in Sources : y # item.source => Taken(d.channel, item.source, row)[y] = d.channel[y]
      <4>1. d.channel \in [Sources -> Channel \cup {None}] /\ item.source \in Sources
        BY <1>1, <1>2
      <4> HIDE DEF row
      <4>2. PICK ch, x : ch = d.channel /\ x = item.source
        OBVIOUS
      <4>3. ch \in ChannelTable /\ x \in Sources
        BY <4>1, <4>2 DEF ChannelTable
      <4>4. /\ Taken(ch, x, row)[x] # None
            /\ Taken(ch, x, row)[x].row = IF ch[x] = None THEN row ELSE ch[x].row
            /\ \A y \in Sources : y # x => Taken(ch, x, row)[y] = ch[y]
        BY ONLY <4>3, <2>8, TakenFeeds
      <4> QED
        BY <4>2, <4>4
    <3> QED
      BY <2>6, <3>1
  <2>10. one.owner = u /\ one.row = row /\ one.id > d.ids /\ one.category = item.category
    BY <1>2
  <2> HIDE DEF one, row
  <2>11. \A x \in Sources : d.channel[x] # None => e.channel[x] # None /\ e.channel[x].row = d.channel[x].row
    BY <2>9 DEF row
  <2>12. Follows(e.follows, u, e.channel[item.source].row)
    BY <2>6, <2>9, <2>10 DEF Follows
  <2>13. d.follows \subseteq e.follows /\ d.ids <= e.ids
    BY <1>2, <2>6
  <2>14. ASSUME NEW s \in e.follows \ d.follows
         PROVE  s.id > d.ids /\ s.owner = u /\ s.row = e.channel[item.source].row /\ s.category = item.category
    BY <2>6, <2>9, <2>10
  <2> QED
    BY <2>2, <2>6, <2>7, <2>9, <2>11, <2>12, <2>13, <2>14 DEF OneMore
<1> QED
  BY <1>3, <1>4

\* What an import has made of the feeds up to a place of its file.
SoFar(u, doc, i, d, e) ==
    /\ d.follows \subseteq e.follows /\ d.ids <= e.ids
    /\ \A j \in 1..i : e.channel[doc[j].source] # None /\ Follows(e.follows, u, e.channel[doc[j].source].row)
    /\ \A s \in e.follows \ d.follows :
          /\ s.id > d.ids /\ s.owner = u
          /\ \E j \in 1..i : s.row = e.channel[doc[j].source].row /\ s.category = doc[j].category

\* What an import has made of its first feeds, after one more.
LEMMA SoFarGoesOn ==
    ASSUME NEW u, NEW doc \in Seq(OpmlItem), NEW i \in Nat, i + 1 <= Len(doc), NEW c, NEW d, NEW e,
           c.ids \in Nat, d.ids \in Nat, e.ids \in Nat, \A s \in e.follows : s.id \in Nat,
           SoFar(u, doc, i, c, d), OneMore(u, d, e, doc[i + 1])
    PROVE  SoFar(u, doc, i + 1, c, e)
<1>1. \A j \in 1..(i + 1) : doc[j] \in OpmlItem /\ doc[j].source \in Sources
  <2>1. \A j \in 1..Len(doc) : doc[j] \in OpmlItem
    OBVIOUS
  <2>2. \A j \in 1..(i + 1) : j \in 1..Len(doc)
    OBVIOUS
  <2> QED
    BY ONLY <2>1, <2>2 DEF OpmlItem
<1>2. ASSUME NEW j \in 1..i
      PROVE  /\ e.channel[doc[j].source] # None /\ e.channel[doc[j].source].row = d.channel[doc[j].source].row
             /\ Follows(e.follows, u, e.channel[doc[j].source].row)
  <2>1. d.channel[doc[j].source] # None /\ Follows(d.follows, u, d.channel[doc[j].source].row)
    BY DEF SoFar
  <2>2. doc[j].source \in Sources
    BY <1>1
  <2>3. e.channel[doc[j].source] # None /\ e.channel[doc[j].source].row = d.channel[doc[j].source].row
    BY <2>1, <2>2 DEF OneMore
  <2> QED
    BY <2>1, <2>3 DEF OneMore, Follows
<1>3. ASSUME NEW j \in 1..(i + 1)
      PROVE  e.channel[doc[j].source] # None /\ Follows(e.follows, u, e.channel[doc[j].source].row)
  <2>1. j \in 1..i \/ j = i + 1
    OBVIOUS
  <2> QED
    BY <1>2, <2>1 DEF OneMore
<1>4. ASSUME NEW s \in e.follows \ c.follows
      PROVE  /\ s.id > c.ids /\ s.owner = u
             /\ \E j \in 1..(i + 1) : s.row = e.channel[doc[j].source].row /\ s.category = doc[j].category
  <2>1. CASE s \in d.follows
    <3>1. PICK j \in 1..i : s.row = d.channel[doc[j].source].row /\ s.category = doc[j].category
      BY <2>1 DEF SoFar
    <3>2. s.row = e.channel[doc[j].source].row /\ j \in 1..(i + 1)
      BY <1>2, <3>1
    <3>3. s.id > c.ids /\ s.owner = u
      BY <2>1 DEF SoFar
    <3> QED
      BY <3>1, <3>2, <3>3
  <2>2. CASE s \notin d.follows
    <3>1. s.id > d.ids /\ s.owner = u /\ s.row = e.channel[doc[i + 1].source].row
          /\ s.category = doc[i + 1].category
      BY <2>2 DEF OneMore
    <3>2. i + 1 \in 1..(i + 1) /\ s.id \in Nat /\ c.ids <= d.ids
      BY DEF SoFar
    <3>3. s.id > c.ids
      BY <3>1, <3>2
    <3> QED
      BY <3>1, <3>2, <3>3
  <2> QED
    BY <2>1, <2>2
<1>5. c.follows \subseteq e.follows /\ c.ids <= e.ids
  BY DEF SoFar, OneMore
<1> QED
  BY <1>3, <1>4, <1>5 DEF SoFar

TablesNow == /\ stored \in [rows : Nat, ids : Nat]
             /\ Tables(channel, follows, shelf, stored.rows, stored.ids)

\* Whatever becomes of a feed, the import has a verdict.
LEMMA VerdictStays ==
    ASSUME NEW u, NEW found, NEW d, NEW item, Judged(d)
    PROVE  Judged(ImportFeed(u, found, d, item))
<1> DEFINE feed == d.channel[item.source]
           row == IF feed = None THEN d.rows + 1 ELSE feed.row
           new == item.category # None /\ item.category \notin d.shelf
           more == [verdict |-> "ok",
                    channel |-> Taken(d.channel, item.source, row),
                    rows |-> IF feed = None THEN row ELSE d.rows,
                    ids |-> d.ids + 1,
                    shelf |-> IF new THEN d.shelf \cup {item.category} ELSE d.shelf,
                    follows |-> d.follows \cup
                        {[id |-> d.ids + 1, owner |-> u, row |-> row, category |-> item.category]}]
<1>1. Judged(more)
  BY DEF Judged, ImportVerdicts
<1>2. Judged([d EXCEPT !.verdict = "again"]) /\ Judged([d EXCEPT !.verdict = "refused"])
  BY DEF Judged, ImportVerdicts
<1>3. ImportFeed(u, found, d, item) \in
        {d, [d EXCEPT !.verdict = "again"], [d EXCEPT !.verdict = "refused"], more}
  BY DEF ImportFeed
<1> HIDE DEF more
<1> QED
  BY <1>1, <1>2, <1>3

\* An import that succeeds is sound and whole.
LEMMA ImportSound ==
    ASSUME TablesNow, NEW u \in Owners, NEW found, NEW doc \in Seq(OpmlItem),
           NEW e, e = Imported(u, found, doc)
    PROVE  /\ e.verdict \in ImportVerdicts
           /\ e.verdict = "ok" => ImportTables(u, shelf, e) /\ SoFar(u, doc, Len(doc), Unbegun(u), e)
<1> DEFINE n == Len(doc)
<1>1. PICK d : /\ d[0] = Unbegun(u)
               /\ \A i \in 1..n : d[i] = ImportFeed(u, found, d[i - 1], doc[i])
               /\ Imported(u, found, doc) = d[n]
  BY ImportSteps
<1>2. n \in Nat /\ \A i \in 1..n : doc[i] \in OpmlItem
  OBVIOUS
<1>3. shelf \in [Owners -> SUBSET Shelves]
  BY DEF TablesNow, Tables, ShelvesOK
<1> DEFINE Good(i) == d[i].verdict = "ok" =>
                         /\ d[i].shelf \subseteq Shelves /\ ImportTables(u, shelf, d[i])
                         /\ SoFar(u, doc, i, Unbegun(u), d[i])
           S == {i \in 0..n : Judged(d[i]) /\ Good(i)}
<1>4. 0 \in S
  <2>1. /\ Judged(Unbegun(u)) /\ Unbegun(u).shelf = shelf[u] /\ Unbegun(u).follows = follows
        /\ Unbegun(u).channel = channel /\ Unbegun(u).rows = stored.rows /\ Unbegun(u).ids = stored.ids
    BY DEF Unbegun, Judged, ImportVerdicts
  <2>2. [shelf EXCEPT ![u] = shelf[u]] = shelf /\ shelf[u] \subseteq Shelves
    BY <1>3
  <2>3. ImportTables(u, shelf, Unbegun(u))
    BY <2>1, <2>2 DEF ImportTables, TablesNow
  <2>4. SoFar(u, doc, 0, Unbegun(u), Unbegun(u))
    BY <2>1 DEF SoFar, TablesNow, Tables
  <2> HIDE DEF n
  <2> QED
    BY <1>1, <1>2, <2>1, <2>2, <2>3, <2>4
<1>5. ASSUME NEW i \in 0..(n - 1), i \in S
      PROVE  i + 1 \in S
  <2>1. i + 1 \in 1..n /\ (i + 1) - 1 = i /\ i + 1 \in 0..n /\ i \in Nat /\ i + 1 <= Len(doc)
    BY <1>2
  <2>2. d[i + 1] = ImportFeed(u, found, d[i], doc[i + 1]) /\ doc[i + 1] \in OpmlItem
    BY <1>1, <1>2, <2>1
  <2>3. Judged(d[i]) /\ Good(i)
    BY <1>5
  <2> HIDE DEF n
  <2>4. Judged(d[i + 1])
    BY <2>2, <2>3, VerdictStays
  <2>5. ASSUME d[i + 1].verdict = "ok"
        PROVE  Good(i + 1)
    <3>1. d[i].verdict = "ok"
      BY <2>2, <2>5 DEF ImportFeed
    <3>2. d[i].shelf \subseteq Shelves /\ ImportTables(u, shelf, d[i]) /\ SoFar(u, doc, i, Unbegun(u), d[i])
      BY <2>3, <3>1
    <3>3. d[i + 1].shelf \subseteq Shelves /\ ImportTables(u, shelf, d[i + 1])
          /\ OneMore(u, d[i], d[i + 1], doc[i + 1])
      BY ONLY <1>3, <2>2, <2>3, <2>5, <3>1, <3>2, ImportKeeps, u \in Owners
    <3>4. /\ Unbegun(u).ids \in Nat /\ d[i].ids \in Nat /\ d[i + 1].ids \in Nat
          /\ \A s \in d[i + 1].follows : s.id \in Nat
      BY <3>2, <3>3 DEF ImportTables, Tables, TablesNow, Unbegun, FollowsOK, FollowRow
    <3>5. SoFar(u, doc, i + 1, Unbegun(u), d[i + 1])
      BY <2>1, <3>2, <3>3, <3>4, SoFarGoesOn
    <3> QED
      BY <3>3, <3>5
  <2> HIDE DEF Good
  <2>6. Good(i + 1)
    BY <2>5 DEF Good
  <2> QED
    BY <2>1, <2>4, <2>6
<1>6. n \in S
  <2> HIDE DEF S, n
  <2>1. \A i \in 0..n : i \in S
    BY <1>2, <1>4, <1>5, SetUpTo
  <2> QED
    BY <1>2, <2>1
<1> QED
  BY <1>1, <1>6 DEF Judged

-----------------------------------------------------------------------------
(* What the pages are doing.                                               *)

Fields == {"kind", "at", "locks", "tries", "want", "found", "from", "shared"}
Locks(t) == tab[t] # None /\ tab[t].locks

\* A transaction that moves a subscription or imports a file has locked its user,
\* and the subscription that moves is where it was found.  One that is about to
\* be removed is the user's own.
TabOK(t) ==
    tab[t] # None =>
        /\ DOMAIN tab[t] = Fields
        /\ tab[t].kind \in {"subscribe", "leave", "move", "import"}
        /\ tab[t].kind = "subscribe" => tab[t].want \in Sources
        /\ tab[t].kind = "leave" =>
              /\ tab[t].want \in Nat /\ tab[t].want <= stored.ids
              /\ \A s \in follows : s.id = tab[t].want => s.owner = OwnerOf[t]
        /\ tab[t].kind = "move" => tab[t].want.source \in Sources
        /\ tab[t].kind = "move" /\ tab[t].at \in {"scan", "write"} =>
              /\ tab[t].locks
              /\ \E s \in follows : s.id = tab[t].want.id /\ s.owner = OwnerOf[t] /\ s.row = tab[t].from
        /\ tab[t].kind = "import" => tab[t].want \in OpmlFiles
        /\ tab[t].kind = "import" /\ tab[t].at \in {"scan", "write"} => tab[t].locks

TabsOK ==
    /\ tab = [t \in Tabs |-> tab[t]]
    /\ \A t \in Tabs : TabOK(t)
    /\ \A t, other \in Tabs : Locks(t) /\ Locks(other) /\ OwnerOf[t] = OwnerOf[other] => t = other

\* A step leaves the subscriptions of every user alone whom another page has locked,
\* and draws new ids for what it adds.
Spares(pages) ==
    /\ stored.ids <= stored'.ids
    /\ \A z \in follows' : z.id > stored.ids \/ \E s \in follows : s.id = z.id /\ s.owner = z.owner
    /\ \A s \in follows : (\E t \in pages : Locks(t) /\ OwnerOf[t] = s.owner) =>
           \E z \in follows' : z.id = s.id /\ z.owner = s.owner /\ z.row = s.row

\* A step that writes no subscription spares all pages.
LEMMA SparesAll ==
    ASSUME TablesNow, UNCHANGED <<follows, stored>>
    PROVE  Spares(Tabs)
BY DEF Spares, TablesNow, Tables

\* A page that does nothing in a step keeps what is so of it.
LEMMA TabRests ==
    ASSUME TablesNow, TablesNow', NEW pages \in SUBSET Tabs, Spares(pages), NEW t \in pages, TabOK(t), tab'[t] = tab[t]
    PROVE  TabOK(t)'
<1> SUFFICES ASSUME tab[t] # None
             PROVE  TabOK(t)'
  BY DEF TabOK
<1>1. stored.ids \in Nat /\ stored'.ids \in Nat /\ stored.ids <= stored'.ids
  BY DEF TablesNow, Spares
<1>2. ASSUME tab[t].kind = "leave"
      PROVE  /\ tab[t].want \in Nat /\ tab[t].want <= stored'.ids
             /\ \A s \in follows' : s.id = tab[t].want => s.owner = OwnerOf[t]
  <2>1. tab[t].want \in Nat /\ tab[t].want <= stored.ids
        /\ \A s \in follows : s.id = tab[t].want => s.owner = OwnerOf[t]
    BY <1>2 DEF TabOK
  <2>2. ASSUME NEW z \in follows', z.id = tab[t].want
        PROVE  z.owner = OwnerOf[t]
    <3>1. ~(z.id > stored.ids)
      BY <1>1, <2>1, <2>2
    <3>2. PICK s \in follows : s.id = z.id /\ s.owner = z.owner
      BY <3>1 DEF Spares
    <3> QED
      BY <2>1, <2>2, <3>2
  <2> QED
    BY <1>1, <2>1, <2>2
<1>3. ASSUME tab[t].kind = "move", tab[t].at \in {"scan", "write"}
      PROVE  /\ tab[t].locks
             /\ \E s \in follows' : s.id = tab[t].want.id /\ s.owner = OwnerOf[t] /\ s.row = tab[t].from
  <2>1. tab[t].locks
    BY <1>3 DEF TabOK
  <2>2. PICK s \in follows : s.id = tab[t].want.id /\ s.owner = OwnerOf[t] /\ s.row = tab[t].from
    BY <1>3 DEF TabOK
  <2>3. PICK z \in follows' : z.id = s.id /\ z.owner = s.owner /\ z.row = s.row
    BY <2>1, <2>2 DEF Spares, Locks
  <2> QED
    BY <2>1, <2>2, <2>3
<1> QED
  BY <1>2, <1>3 DEF TabOK

\* A step of one page.
LEMMA TabSteps ==
    ASSUME TablesNow, TablesNow', TabsOK, NEW t \in Tabs, tab' = [tab EXCEPT ![t] = tab'[t]],
           Spares(Tabs \ {t}), TabOK(t)',
           Locks(t)' => Locks(t) \/ Unlocked(OwnerOf[t])
    PROVE  TabsOK'
<1>1. \A other \in Tabs : other # t => tab'[other] = tab[other]
  BY DEF TabsOK
<1>2. tab' = [other \in Tabs |-> tab'[other]]
  BY DEF TabsOK
<1>3. ASSUME NEW other \in Tabs, other # t
      PROVE  TabOK(other)'
  BY <1>1, <1>3, TabRests DEF TabsOK
<1>4. ASSUME NEW other \in Tabs, other # t, Locks(t)', Locks(other)'
      PROVE  OwnerOf[t] # OwnerOf[other]
  <2>1. Locks(other)
    BY <1>1, <1>4 DEF Locks
  <2>2. Unlocked(OwnerOf[t]) => OwnerOf[other] # OwnerOf[t]
    BY <2>1 DEF Unlocked, Locks
  <2> QED
    BY <1>4, <2>1, <2>2 DEF TabsOK
<1>5. ASSUME NEW p \in Tabs, NEW q \in Tabs, Locks(p)', Locks(q)', OwnerOf[p] = OwnerOf[q]
      PROVE  p = q
  <2>1. CASE p # t /\ q # t
    <3>1. Locks(p) /\ Locks(q)
      BY <1>1, <1>5, <2>1 DEF Locks
    <3> QED
      BY <1>5, <3>1 DEF TabsOK
  <2> QED
    BY <1>4, <1>5, <2>1
<1> QED
  BY <1>2, <1>3, <1>5 DEF TabsOK

\* A step of no page.
LEMMA TabsRest ==
    ASSUME TablesNow, TablesNow', TabsOK, UNCHANGED tab, Spares(Tabs)
    PROVE  TabsOK'
<1>1. \A t \in Tabs : TabOK(t)'
  BY TabRests DEF TabsOK
<1> QED
  BY <1>1 DEF TabsOK, Locks

\* A page that ends, and one that starts over.
LEMMA EndingOK ==
    ASSUME TabsOK, NEW t \in Tabs, End(t)
    PROVE  /\ tab' = [tab EXCEPT ![t] = tab'[t]] /\ tab'[t] = None
           /\ TabOK(t)' /\ ~Locks(t)'
<1>1. tab' = [tab EXCEPT ![t] = tab'[t]] /\ tab'[t] = None
  BY DEF End, TabsOK
<1> QED
  BY <1>1 DEF TabOK, Locks

\* A page that starts over holds no lock.
LEMMA RetryOK ==
    ASSUME TabsOK, NEW t \in Tabs, NEW at \in {"find", "begin"}, tab[t] # None, TabOK(t),
           TryAgain(t, at), UNCHANGED <<follows, stored>>
    PROVE  /\ tab' = [tab EXCEPT ![t] = tab'[t]] /\ TabOK(t)' /\ ~Locks(t)'
<1>1. \/ tab'[t] = None
      \/ tab'[t] = Asked(tab[t].kind, at, tab[t].tries + 1, tab[t].want)
  BY DEF TryAgain, TabsOK
<1>2. tab' = [tab EXCEPT ![t] = tab'[t]]
  BY DEF TryAgain, TabsOK
<1>3. CASE tab'[t] = None
  BY <1>2, <1>3 DEF TabOK, Locks
<1>4. CASE tab'[t] = Asked(tab[t].kind, at, tab[t].tries + 1, tab[t].want)
  <2>1. /\ tab'[t].kind = tab[t].kind /\ tab'[t].at = at /\ tab'[t].locks = FALSE
        /\ tab'[t].want = tab[t].want /\ DOMAIN tab'[t] = Fields
    BY <1>4 DEF Asked, Fields
  <2> QED
    BY <1>2, <2>1 DEF TabOK, Locks
<1> QED
  BY <1>1, <1>3, <1>4

\* A request that goes on to its next place, with what it found on the way.
LEMMA NextPlace ==
    ASSUME TabsOK, NEW t \in Tabs, tab[t] # None, NEW at, NEW found,
           tab' = [tab EXCEPT ![t].at = at, ![t].found = found]
    PROVE  /\ tab' = [tab EXCEPT ![t] = tab'[t]]
           /\ tab'[t].at = at /\ tab'[t].found = found /\ DOMAIN tab'[t] = Fields
           /\ tab'[t].kind = tab[t].kind /\ tab'[t].locks = tab[t].locks /\ tab'[t].want = tab[t].want
           /\ tab'[t].from = tab[t].from
<1>1. tab'[t] = [tab[t] EXCEPT !.at = at, !.found = found] /\ tab' = [tab EXCEPT ![t] = tab'[t]]
  BY DEF TabsOK
<1>2. DOMAIN tab[t] = Fields
  BY DEF TabsOK, TabOK
<1>3. PICK r, q : r = tab[t] /\ q = tab'[t]
  OBVIOUS
<1>4. q = [r EXCEPT !.at = at, !.found = found] /\ DOMAIN r = Fields
  BY <1>1, <1>2, <1>3
<1>5. /\ q.at = at /\ q.found = found /\ DOMAIN q = Fields
      /\ q.kind = r.kind /\ q.locks = r.locks /\ q.want = r.want /\ q.from = r.from
  BY ONLY <1>4 DEF Fields
<1> QED
  BY <1>1, <1>3, <1>5

\* A request that was just asked.
LEMMA AskKeeps ==
    ASSUME TablesNow, TabsOK, NEW t \in Tabs, Ask(t)
    PROVE  TablesNow' /\ TabsOK'
<1> SUFFICES ASSUME NEW kind \in {"subscribe", "leave", "move", "import"}, NEW at \in {"find", "begin"}, NEW want,
                    Start(t, kind, at, want),
                    kind = "subscribe" => want \in Sources,
                    kind = "leave" => \E s \in Mine(follows, OwnerOf[t]) : want = s.id,
                    kind = "move" => want.source \in Sources,
                    kind = "import" => want \in OpmlFiles
             PROVE  TablesNow' /\ TabsOK'
  BY DEF Ask
<1>1. TablesNow'
  BY DEF Start, TablesNow
<1>2. /\ tab'[t] = Asked(kind, at, 1, want) /\ tab' = [tab EXCEPT ![t] = tab'[t]]
      /\ follows' = follows /\ stored' = stored
  BY DEF Start, TabsOK
<1>3. /\ tab'[t].kind = kind /\ tab'[t].at = at /\ tab'[t].locks = FALSE /\ tab'[t].want = want
      /\ DOMAIN tab'[t] = Fields
  BY <1>2 DEF Asked, Fields
<1>4. ASSUME kind = "leave"
      PROVE  /\ want \in Nat /\ want <= stored.ids
             /\ \A s \in follows : s.id = want => s.owner = OwnerOf[t]
  <2>1. PICK s \in follows : s.owner = OwnerOf[t] /\ want = s.id
    BY <1>4 DEF Mine
  <2> QED
    BY <2>1 DEF TablesNow, Tables, FollowsOK, FollowRow
<1>5. TabOK(t)' /\ ~Locks(t)'
  BY <1>2, <1>3, <1>4 DEF TabOK, Locks
<1>6. Spares(Tabs \ {t})
  BY <1>2, SparesAll DEF Spares
<1> QED
  BY <1>1, <1>2, <1>5, <1>6, TabSteps

\* A request that looks for something outside of its transaction.
LEMMA LookKeeps ==
    ASSUME TablesNow, TabsOK, NEW t \in Tabs,
           FindSource(t) \/ FindFollow(t) \/ FindTarget(t) \/ ScanSources(t)
    PROVE  TablesNow' /\ TabsOK'
<1>1. UNCHANGED <<channel, follows, shelf, stored>> /\ tab[t] # None
  BY DEF FindSource, FindFollow, FindTarget, ScanSources, At
<1>2. TablesNow' /\ Spares(Tabs \ {t})
  <2>1. TablesNow'
    BY <1>1 DEF TablesNow
  <2>2. Spares(Tabs)
    BY <1>1, SparesAll
  <2> QED
    BY <2>1, <2>2 DEF Spares
<1>3. \/ End(t)
      \/ /\ \E found : tab' = [tab EXCEPT ![t].at = "write", ![t].found = found]
         /\ tab[t].kind \in {"move", "import"} => tab[t].at = "scan"
  BY DEF FindSource, FindFollow, FindTarget, ScanSources, At
<1>4. CASE End(t)
  BY <1>2, <1>4, EndingOK, TabSteps
<1>5. CASE /\ \E found : tab' = [tab EXCEPT ![t].at = "write", ![t].found = found]
           /\ tab[t].kind \in {"move", "import"} => tab[t].at = "scan"
  <2>1. PICK found : tab' = [tab EXCEPT ![t].at = "write", ![t].found = found]
    BY <1>5
  <2>2. /\ tab' = [tab EXCEPT ![t] = tab'[t]]
        /\ tab'[t].at = "write" /\ DOMAIN tab'[t] = Fields
        /\ tab'[t].kind = tab[t].kind /\ tab'[t].locks = tab[t].locks /\ tab'[t].want = tab[t].want
        /\ tab'[t].from = tab[t].from
    BY <1>1, <2>1, NextPlace
  <2>3. TabOK(t)
    BY DEF TabsOK
  <2>4. TabOK(t)'
    BY <1>1, <1>5, <2>2, <2>3 DEF TabOK
  <2>5. Locks(t)' => Locks(t)
    BY <1>1, <2>2 DEF Locks
  <2> QED
    BY <1>2, <2>2, <2>4, <2>5, TabSteps
<1> QED
  BY <1>3, <1>4, <1>5

\* A transaction that begins locks its user, of whom nobody else holds the lock.
LEMMA OpenKeeps ==
    ASSUME TablesNow, TabsOK, NEW t \in Tabs, OpenMove(t) \/ OpenImport(t)
    PROVE  TablesNow' /\ TabsOK'
<1>1. UNCHANGED <<channel, follows, shelf, stored>> /\ tab[t] # None /\ Unlocked(OwnerOf[t])
  BY DEF OpenMove, OpenImport, At
<1>2. TablesNow' /\ Spares(Tabs \ {t})
  <2>1. TablesNow'
    BY <1>1 DEF TablesNow
  <2>2. Spares(Tabs)
    BY <1>1, SparesAll
  <2> QED
    BY <2>1, <2>2 DEF Spares
<1>3. CASE End(t)
  BY <1>2, <1>3, EndingOK, TabSteps
<1>4. TabOK(t) /\ DOMAIN tab[t] = Fields
  BY <1>1 DEF TabsOK, TabOK
<1>5. CASE OpenImport(t)
  <2>1. tab'[t] = [tab[t] EXCEPT !.at = "scan", !.locks = TRUE] /\ tab' = [tab EXCEPT ![t] = tab'[t]]
    BY <1>5 DEF OpenImport, TabsOK
  <2>2. /\ tab'[t].at = "scan" /\ tab'[t].locks = TRUE /\ tab'[t].kind = tab[t].kind
        /\ tab'[t].want = tab[t].want /\ DOMAIN tab'[t] = Fields
    BY <1>4, <2>1 DEF Fields
  <2>3. tab[t].kind = "import"
    BY <1>5 DEF OpenImport, At
  <2>4. TabOK(t)'
    BY <1>1, <1>4, <2>2, <2>3 DEF TabOK
  <2> QED
    BY <1>1, <1>2, <2>1, <2>4, TabSteps
<1>6. CASE OpenMove(t) /\ ~End(t)
  <2> DEFINE found == {s \in Mine(follows, OwnerOf[t]) : s.id = tab[t].want.id}
             z == CHOOSE s \in found : TRUE
  <2>1. found # {} /\ tab[t].kind = "move"
    BY <1>6 DEF OpenMove, At
  <2>2. z \in follows /\ z.owner = OwnerOf[t] /\ z.id = tab[t].want.id
    <3>1. z \in found
      BY <2>1
    <3> HIDE DEF z
    <3> QED
      BY <3>1 DEF Mine
  <2>3. /\ tab'[t] = [tab[t] EXCEPT !.at = "scan", !.locks = TRUE, !.from = z.row,
                                    !.shared = (Followers(follows, z.row) # {z}),
                                    !.found = RowOf(tab[t].want.source)]
        /\ tab' = [tab EXCEPT ![t] = tab'[t]]
    BY <1>6, <2>1 DEF OpenMove, TabsOK
  <2> HIDE DEF z
  <2>4. /\ tab'[t].at = "scan" /\ tab'[t].locks = TRUE /\ tab'[t].kind = tab[t].kind
        /\ tab'[t].want = tab[t].want /\ tab'[t].from = z.row /\ DOMAIN tab'[t] = Fields
    BY <1>4, <2>3 DEF Fields
  <2>5. TabOK(t)'
    BY <1>1, <1>4, <2>1, <2>2, <2>4 DEF TabOK
  <2> QED
    BY <1>1, <1>2, <2>3, <2>5, TabSteps
<1> QED
  BY <1>3, <1>5, <1>6

\* A subscription more takes no lock and no other subscription.
LEMMA SparesMore ==
    ASSUME TablesNow, NEW new, stored'.ids = stored.ids + 1, new.id = stored.ids + 1,
           follows' = follows \cup {new}
    PROVE  Spares(Tabs)
<1>1. stored.ids \in Nat
  BY DEF TablesNow
<1> QED
  BY <1>1 DEF Spares

\* The next row is the one a new feed gets.
LEMMA TakenNext ==
    ASSUME NEW feeds \in [Sources -> Channel \cup {None}], NEW x \in Sources, NEW r \in Nat, NEW own,
           feeds[x] = None => own = r, feeds[x] # None => own = feeds[x].row
    PROVE  Taken(feeds, x, r) = Taken(feeds, x, own) /\ Taken(feeds, x, r)[x].row = own
<1>1. feeds \in ChannelTable
  BY DEF ChannelTable
<1>2. CASE feeds[x] = None
  <2>1. r \in Nat /\ own = r
    BY <1>2
  <2>2. Taken(feeds, x, r)[x].row = r
    BY ONLY <1>2, <1>1, <2>1, TakenFeeds, x \in Sources
  <2> QED
    BY <2>1, <2>2
<1>3. CASE feeds[x] # None
  <2>1. Taken(feeds, x, r) = Taken(feeds, x, own)
    BY <1>3 DEF Taken
  <2>2. r \in Nat /\ own = feeds[x].row
    BY <1>3
  <2>3. Taken(feeds, x, r)[x].row = own
    BY ONLY <1>3, <1>1, <2>2, TakenFeeds, x \in Sources
  <2> QED
    BY <2>1, <2>3
<1> QED
  BY <1>2, <1>3

\* Nobody follows the feed that is added.
LEMMA FollowsNew ==
    ASSUME TablesNow, NEW u, NEW x \in Sources, NEW own,
           own = IF channel[x] = None THEN stored.rows + 1 ELSE channel[x].row,
           channel[x] # None => ~Follows(follows, u, RowOf(x))
    PROVE  ~Follows(follows, u, own)
<1>1. CASE channel[x] = None
  <2> SUFFICES ASSUME NEW s \in follows, s.row = stored.rows + 1
               PROVE  FALSE
    BY <1>1 DEF Follows
  <2>1. s.row \in Nat /\ s.row <= stored.rows
    BY RowsAreOld DEF TablesNow
  <2> QED
    BY <2>1 DEF TablesNow
<1>2. CASE channel[x] # None
  BY <1>2 DEF RowOf
<1> QED
  BY <1>1, <1>2

\* Subscribing keeps the tables, and what the other pages rely on.
LEMMA SubscribeKeeps ==
    ASSUME TablesNow, TabsOK, NEW t \in Tabs, SubscribeTo(t)
    PROVE  TablesNow' /\ TabsOK'
<1> DEFINE u == OwnerOf[t]
           x == tab[t].want
           row == NextRow(x)
           own == IF channel[x] = None THEN stored.rows + 1 ELSE channel[x].row
<1>1. tab[t] # None /\ tab[t].kind = "subscribe" /\ TabOK(t) /\ shelf' = shelf
  BY DEF SubscribeTo, At, TabsOK
<1>2. x \in Sources /\ u \in Owners
  BY <1>1, OwnersLimits DEF TabOK
<1>3. CASE UNCHANGED <<channel, follows, stored>> /\ (TryAgain(t, "find") \/ End(t))
  <2>1. TablesNow'
    BY <1>1, <1>3 DEF TablesNow
  <2>2. Spares(Tabs \ {t})
    <3>1. Spares(Tabs)
      BY <1>3, SparesAll
    <3> QED
      BY <3>1 DEF Spares
  <2>3. tab' = [tab EXCEPT ![t] = tab'[t]] /\ TabOK(t)' /\ ~Locks(t)'
    <3>1. CASE End(t)
      BY <3>1, EndingOK
    <3>2. CASE TryAgain(t, "find")
      BY <1>1, <1>3, <3>2, RetryOK
    <3> QED
      BY <1>3, <3>1, <3>2
  <2> QED
    BY <2>1, <2>2, <2>3, TabSteps
<1>4. CASE /\ channel[x] # None => ~channel[x].disabled /\ ~Follows(follows, u, RowOf(x))
           /\ Cardinality(Mine(follows, u)) < MaxSubscriptions
           /\ channel' = Taken(channel, x, row)
           /\ follows' = follows \cup
                  {[id |-> stored.ids + 1, owner |-> u, row |-> channel'[x].row, category |-> None]}
           /\ stored' = [rows |-> row, ids |-> stored.ids + 1]
           /\ End(t)
  <2>1. /\ channel \in [Sources -> Channel \cup {None}] /\ stored.rows \in Nat /\ stored.ids \in Nat
        /\ row = IF channel[x] = None THEN stored.rows + 1 ELSE stored.rows
    BY DEF TablesNow, Tables, ChannelsOK, NextRow
  <2>2. Taken(channel, x, row) = Taken(channel, x, own) /\ Taken(channel, x, row)[x].row = own
    <3> HIDE DEF row, own, x
    <3>1. own = IF channel[x] = None THEN stored.rows + 1 ELSE channel[x].row
      BY DEF own
    <3>2. row \in Nat /\ (channel[x] = None => own = row) /\ (channel[x] # None => own = channel[x].row)
      BY <2>1, <3>1
    <3> QED
      BY ONLY <1>2, <2>1, <3>2, TakenNext
  <2>3. ~Follows(follows, u, own)
    <3> HIDE DEF x
    <3> QED
      BY <1>2, <1>4, FollowsNew
  <2>4. Tables(Taken(channel, x, own),
               follows \cup {[id |-> stored.ids + 1, owner |-> u, row |-> own, category |-> None]},
               shelf, IF channel[x] = None THEN stored.rows + 1 ELSE stored.rows, stored.ids + 1)
    <3>1. Tables(channel, follows, shelf, stored.rows, stored.ids)
      BY DEF TablesNow
    <3>2. stored.ids + 1 \in Nat /\ stored.ids + 1 <= stored.ids + 1 /\ stored.ids <= stored.ids + 1
      BY <2>1
    <3>3. ASSUME NEW s \in follows
          PROVE  s.id # stored.ids + 1
      BY <2>1 DEF TablesNow, Tables, FollowsOK, FollowRow
    <3>4. None \in shelf[u] \cup {None}
      OBVIOUS
    <3>5. own = IF channel[x] = None THEN stored.rows + 1 ELSE channel[x].row
      OBVIOUS
    <3>6. Cardinality(Mine(follows, u)) < MaxSubscriptions
      BY <1>4
    <3> HIDE DEF own, x, u
    <3> QED
      BY ONLY <1>2, <2>3, <3>1, <3>2, <3>3, <3>4, <3>5, <3>6, Subscribed, ZenonT(60)
  <2>5. TablesNow'
    <3>1. /\ channel' = Taken(channel, x, own) /\ stored'.rows = row /\ stored'.ids = stored.ids + 1
          /\ follows' = follows \cup {[id |-> stored.ids + 1, owner |-> u, row |-> own, category |-> None]}
          /\ stored' \in [rows : Nat, ids : Nat]
      <4>1. channel' = Taken(channel, x, own) /\ channel'[x].row = own
        BY <1>4, <2>2
      <4>2. follows' = follows \cup {[id |-> stored.ids + 1, owner |-> u, row |-> own, category |-> None]}
        BY <1>4, <4>1
      <4>3. stored' = [rows |-> row, ids |-> stored.ids + 1]
        BY <1>4
      <4>4. row \in Nat /\ stored.ids + 1 \in Nat
        BY <2>1
      <4> HIDE DEF row
      <4>5. stored'.rows = row /\ stored'.ids = stored.ids + 1 /\ stored' \in [rows : Nat, ids : Nat]
        BY ONLY <4>3, <4>4
      <4> QED
        BY <4>1, <4>2, <4>5
    <3> HIDE DEF own, x, u, row
    <3> QED
      BY <1>1, <2>1, <2>4, <3>1 DEF TablesNow
  <2>6. Spares(Tabs \ {t})
    <3>1. PICK new : new = [id |-> stored.ids + 1, owner |-> u, row |-> channel'[x].row, category |-> None]
      OBVIOUS
    <3>2. new.id = stored.ids + 1 /\ follows' = follows \cup {new} /\ stored'.ids = stored.ids + 1
      BY <1>4, <3>1
    <3>3. Spares(Tabs)
      BY ONLY <3>2, SparesMore, TablesNow
    <3> QED
      BY <3>3 DEF Spares
  <2>7. tab' = [tab EXCEPT ![t] = tab'[t]] /\ TabOK(t)' /\ ~Locks(t)'
    BY <1>4, EndingOK
  <2> QED
    BY <2>5, <2>6, <2>7, TabSteps
<1> QED
  BY <1>3, <1>4 DEF SubscribeTo

\* Leaving a feed keeps the tables; the subscription was the page's user's own.
LEMMA LeaveKeeps ==
    ASSUME TablesNow, TabsOK, NEW t \in Tabs, LeaveFeed(t)
    PROVE  TablesNow' /\ TabsOK'
<1> DEFINE row == tab[t].found
           left == {s \in Followers(follows, row) : s.id # tab[t].want}
<1>1. /\ tab[t] # None /\ tab[t].kind = "leave" /\ TabOK(t) /\ End(t) /\ UNCHANGED <<shelf, stored>>
      /\ Unlocked(OwnerOf[t])
  BY DEF LeaveFeed, At, TabsOK
<1>2. tab' = [tab EXCEPT ![t] = tab'[t]] /\ TabOK(t)' /\ ~Locks(t)'
  BY <1>1, EndingOK
<1>3. CASE UNCHANGED <<channel, follows>>
  <2>1. TablesNow'
    BY <1>1, <1>3 DEF TablesNow
  <2>2. Spares(Tabs)
    BY <1>1, <1>3, SparesAll
  <2>3. Spares(Tabs \ {t})
    BY <2>2 DEF Spares
  <2> QED
    BY <1>2, <2>1, <2>3, TabSteps
<1>4. CASE /\ left # Followers(follows, row)
           /\ follows' = {s \in follows : s.id # tab[t].want}
           /\ channel' = IF left = {} THEN Orphaned(channel, row) ELSE channel
  <2>1. PICK z \in Followers(follows, row) : z.id = tab[t].want
    BY <1>4
  <2>2. z \in follows /\ z.row = row
    BY <2>1 DEF Followers
  <2>3. \A s \in follows : s.id = tab[t].want <=> s = z
    BY <2>1, <2>2 DEF TablesNow, Tables, FollowsOK
  <2>4. follows' = follows \ {z} /\ left = Followers(follows', z.row)
    BY <1>4, <2>2, <2>3 DEF Followers
  <2>5. TablesNow'
    <3>1. channel' = IF Followers(follows', z.row) = {}
                     THEN [x \in Sources |->
                              IF channel[x] = None THEN None
                              ELSE IF channel[x].row = z.row THEN [channel[x] EXCEPT !.orphaned = TRUE]
                              ELSE channel[x]]
                     ELSE channel
      <4>1. channel' = IF Followers(follows', z.row) = {} THEN Orphaned(channel, z.row) ELSE channel
        BY <1>4, <2>2, <2>4
      <4> QED
        BY <4>1 DEF Orphaned
    <3>2. Tables(channel, follows, shelf, stored.rows, stored.ids)
      BY DEF TablesNow
    <3>3. Tables(channel', follows', shelf, stored.rows, stored.ids)
      BY ONLY <2>2, <2>4, <3>1, <3>2, Unsubscribed
    <3> QED
      BY <1>1, <3>3 DEF TablesNow
  <2>6. z.owner = OwnerOf[t]
    BY <1>1, <2>1, <2>2 DEF TabOK
  <2>7. Spares(Tabs \ {t})
    <3>1. ASSUME NEW s \in follows, \E other \in Tabs \ {t} : Locks(other) /\ OwnerOf[other] = s.owner
          PROVE  s # z
      BY <1>1, <2>6, <3>1 DEF Unlocked, Locks
    <3> QED
      BY <1>1, <2>4, <3>1 DEF Spares, TablesNow
  <2> QED
    BY <1>2, <2>5, <2>7, TabSteps
<1> QED
  BY <1>3, <1>4 DEF LeaveFeed

\* Moving a subscription keeps the tables: nobody else changes the user's
\* subscriptions meanwhile.  (With the plain reads of MySQL this is not so.)
LEMMA MoveKeeps ==
    ASSUME TablesNow, TabsOK, ~Snapshots, NEW t \in Tabs, MoveFollow(t)
    PROVE  TablesNow' /\ TabsOK'
<1> DEFINE u == OwnerOf[t]
           x == tab[t].want.source
           row == NextRow(x)
           own == IF channel[x] = None THEN stored.rows + 1 ELSE channel[x].row
           taken == Taken(channel, x, row)
<1>1. /\ tab[t] # None /\ tab[t].kind = "move" /\ tab[t].at = "write" /\ TabOK(t) /\ shelf' = shelf
  BY DEF MoveFollow, At, TabsOK
<1>2. x \in Sources /\ u \in Owners /\ Locks(t)
  BY <1>1, OwnersLimits DEF TabOK, Locks
<1>3. CASE UNCHANGED <<channel, follows, stored>> /\ (TryAgain(t, "begin") \/ End(t))
  <2>1. TablesNow'
    BY <1>1, <1>3 DEF TablesNow
  <2>2. Spares(Tabs \ {t})
    <3>1. Spares(Tabs)
      BY <1>3, SparesAll
    <3> QED
      BY <3>1 DEF Spares
  <2>3. tab' = [tab EXCEPT ![t] = tab'[t]] /\ TabOK(t)' /\ ~Locks(t)'
    <3>1. CASE End(t)
      BY <3>1, EndingOK
    <3>2. CASE TryAgain(t, "begin")
      BY <1>1, <1>3, <3>2, RetryOK
    <3> QED
      BY <1>3, <3>1, <3>2
  <2> QED
    BY <2>1, <2>2, <2>3, TabSteps
<1>4. CASE /\ channel[x] # None => ~channel[x].disabled /\ ~Follows(follows, u, RowOf(x))
           /\ channel' = IF NobodyStays(t) THEN Orphaned(taken, tab[t].from) ELSE taken
           /\ follows' = {IF s.id = tab[t].want.id THEN [s EXCEPT !.row = taken[x].row] ELSE s : s \in follows}
           /\ stored' = [stored EXCEPT !.rows = row]
           /\ End(t)
  <2>1. /\ channel \in [Sources -> Channel \cup {None}] /\ stored \in [rows : Nat, ids : Nat]
        /\ row = IF channel[x] = None THEN stored.rows + 1 ELSE stored.rows
    BY DEF TablesNow, Tables, ChannelsOK, NextRow
  <2>2. Taken(channel, x, row) = Taken(channel, x, own) /\ Taken(channel, x, row)[x].row = own
    <3> HIDE DEF row, own, x
    <3>1. own = IF channel[x] = None THEN stored.rows + 1 ELSE channel[x].row
      BY DEF own
    <3>2. row \in Nat /\ (channel[x] = None => own = row) /\ (channel[x] # None => own = channel[x].row)
      BY <2>1, <3>1
    <3> QED
      BY ONLY <1>2, <2>1, <3>2, TakenNext
  <2>3. ~Follows(follows, u, own)
    <3> HIDE DEF x
    <3> QED
      BY <1>2, <1>4, FollowsNew
  <2>4. PICK z \in follows : z.id = tab[t].want.id /\ z.owner = u /\ z.row = tab[t].from
    BY <1>1 DEF TabOK
  <2>5. \A s \in follows : s.id = z.id <=> s = z
    BY DEF TablesNow, Tables, FollowsOK
  <2>6. NobodyStays(t) <=> \A s \in Followers(follows, z.row) : s.id = z.id
    BY <2>4 DEF NobodyStays
  <2>7. /\ channel' = IF \A s \in Followers(follows, z.row) : s.id = z.id
                      THEN Orphaned(Taken(channel, x, own), z.row) ELSE Taken(channel, x, own)
        /\ follows' = {IF s.id = z.id THEN [s EXCEPT !.row = own] ELSE s : s \in follows}
        /\ stored' \in [rows : Nat, ids : Nat]
        /\ stored'.rows = IF channel[x] = None THEN stored.rows + 1 ELSE stored.rows
        /\ stored'.ids = stored.ids
    <3>1. /\ stored' \in [rows : Nat, ids : Nat] /\ stored'.ids = stored.ids /\ stored'.rows = row
      <4>1. row \in Nat
        BY <2>1
      <4> HIDE DEF row
      <4> QED
        BY <1>4, <2>1, <4>1
    <3>2. follows' = {IF s.id = z.id THEN [s EXCEPT !.row = own] ELSE s : s \in follows}
      <4>1. taken[x].row = own
        BY <2>2
      <4> HIDE DEF taken, own, row, x
      <4>2. follows' = {IF s.id = tab[t].want.id THEN [s EXCEPT !.row = taken[x].row] ELSE s : s \in follows}
        BY ONLY <1>4
      <4> QED
        BY ONLY <2>4, <4>1, <4>2
    <3>3. channel' = IF NobodyStays(t) THEN Orphaned(Taken(channel, x, own), z.row) ELSE Taken(channel, x, own)
      BY <1>4, <2>2, <2>4
    <3> HIDE DEF row, own
    <3> QED
      BY <2>1, <2>6, <3>1, <3>2, <3>3
  <2>8. follows' = (follows \ {z}) \cup {[z EXCEPT !.row = own]}
    <3> HIDE DEF own
    <3> QED
      BY <2>5, <2>7
  <2>9. TablesNow'
    <3>1. Tables(channel, follows, shelf, stored.rows, stored.ids)
      BY DEF TablesNow
    <3>2. ~Follows(follows, z.owner, own)
      BY <2>3, <2>4
    <3>3. own = IF channel[x] = None THEN stored.rows + 1 ELSE channel[x].row
      OBVIOUS
    <3> HIDE DEF own, x
    <3>4. Tables(channel', follows', shelf, stored'.rows, stored.ids)
      <4>1. z \in follows /\ x \in Sources
        BY <1>2
      <4>2. PICK fresh, after, last :
                /\ fresh = channel' /\ after = follows' /\ last = stored'.rows
                /\ Alone(follows, z) => fresh = Orphaned(Taken(channel, x, own), z.row)
                /\ ~Alone(follows, z) => fresh = Taken(channel, x, own)
                /\ after = (follows \ {z}) \cup {[z EXCEPT !.row = own]}
                /\ last = IF channel[x] = None THEN stored.rows + 1 ELSE stored.rows
        BY <2>7, <2>8 DEF Alone
      <4>3. PICK feeds, subs, shelves, rows, ids :
                feeds = channel /\ subs = follows /\ shelves = shelf /\ rows = stored.rows /\ ids = stored.ids
        OBVIOUS
      <4>4. /\ Tables(feeds, subs, shelves, rows, ids) /\ z \in subs /\ x \in Sources
            /\ own = IF feeds[x] = None THEN rows + 1 ELSE feeds[x].row
            /\ ~Follows(subs, z.owner, own)
            /\ Alone(subs, z) => fresh = Orphaned(Taken(feeds, x, own), z.row)
            /\ ~Alone(subs, z) => fresh = Taken(feeds, x, own)
            /\ after = (subs \ {z}) \cup {[z EXCEPT !.row = own]}
            /\ last = IF feeds[x] = None THEN rows + 1 ELSE rows
        BY <3>1, <3>2, <3>3, <4>1, <4>2, <4>3
      <4>5. Tables(fresh, after, shelves, last, ids)
        BY ONLY <4>4, Moved, SMTT(20)
      <4> QED
        BY <4>2, <4>3, <4>5
    <3> QED
      BY <1>1, <2>7, <3>4 DEF TablesNow
  <2>10. Spares(Tabs \ {t})
    <3>1. ASSUME NEW s \in follows, \E other \in Tabs \ {t} : Locks(other) /\ OwnerOf[other] = s.owner
          PROVE  s \in follows'
      <4>1. s # z
        BY <1>2, <2>4, <3>1 DEF TabsOK
      <4>2. s.id # z.id
        BY <2>5, <4>1
      <4> QED
        BY <2>7, <4>2
    <3>2. ASSUME NEW s \in follows'
          PROVE  \E y \in follows : y.id = s.id /\ y.owner = s.owner
      <4>1. PICK y \in follows : s = IF y.id = z.id THEN [y EXCEPT !.row = own] ELSE y
        BY <2>7
      <4>2. y \in FollowRow
        BY DEF TablesNow, Tables, FollowsOK
      <4> HIDE DEF own
      <4>3. [y EXCEPT !.row = own].id = y.id /\ [y EXCEPT !.row = own].owner = y.owner
        BY <4>2 DEF FollowRow
      <4> QED
        BY <4>1, <4>3
    <3> QED
      BY <2>7, <3>1, <3>2 DEF Spares, TablesNow
  <2>11. tab' = [tab EXCEPT ![t] = tab'[t]] /\ TabOK(t)' /\ ~Locks(t)'
    BY <1>4, EndingOK
  <2> QED
    BY <2>9, <2>10, <2>11, TabSteps
<1> QED
  BY <1>3, <1>4 DEF MoveFollow

\* The files are lists of feeds.
LEMMA FilesAreLists ==
    ASSUME NEW doc \in OpmlFiles
    PROVE  doc \in Seq(OpmlItem)
BY OrganizationAssumption DEF OrganizationAssumption, OpmlItem

\* An import keeps the tables, and only adds to the subscriptions.
LEMMA ImportingKeeps ==
    ASSUME TablesNow, TabsOK, NEW t \in Tabs, ImportDocument(t)
    PROVE  TablesNow' /\ TabsOK'
<1> DEFINE u == OwnerOf[t]
           doc == tab[t].want
           e == Imported(u, tab[t].found, doc)
<1>1. tab[t] # None /\ tab[t].kind = "import" /\ TabOK(t) /\ u \in Owners
  BY OwnersLimits DEF ImportDocument, At, TabsOK
<1>2. doc \in Seq(OpmlItem)
  BY <1>1, FilesAreLists DEF TabOK
<1>3. /\ e.verdict \in ImportVerdicts
      /\ e.verdict = "ok" => ImportTables(u, shelf, e) /\ SoFar(u, doc, Len(doc), Unbegun(u), e)
  BY <1>1, <1>2, ImportSound
<1> HIDE DEF e
<1>4. CASE e.verdict = "ok"
  <2>1. /\ channel' = e.channel /\ follows' = e.follows /\ shelf' = [shelf EXCEPT ![u] = e.shelf]
        /\ stored' = [rows |-> e.rows, ids |-> e.ids] /\ End(t)
    BY <1>4 DEF ImportDocument, e
  <2>2. TablesNow'
    <3>1. Tables(e.channel, e.follows, [shelf EXCEPT ![u] = e.shelf], e.rows, e.ids)
      BY <1>3, <1>4 DEF ImportTables
    <3>2. e.rows \in Nat /\ e.ids \in Nat
      BY <3>1 DEF Tables
    <3> QED
      BY <2>1, <3>1, <3>2 DEF TablesNow
  <2>3. Spares(Tabs \ {t})
    <3>1. /\ follows \subseteq follows' /\ stored.ids <= stored'.ids
          /\ \A s \in follows' \ follows : s.id > stored.ids
      BY <1>3, <1>4, <2>1 DEF SoFar, Unbegun
    <3> QED
      BY <3>1 DEF Spares
  <2>4. tab' = [tab EXCEPT ![t] = tab'[t]] /\ TabOK(t)' /\ ~Locks(t)'
    BY <2>1, EndingOK
  <2> QED
    BY <2>2, <2>3, <2>4, TabSteps
<1>5. CASE e.verdict # "ok"
  <2>1. UNCHANGED <<channel, follows, shelf, stored>> /\ (TryAgain(t, "begin") \/ End(t))
    BY <1>3, <1>5 DEF ImportDocument, ImportVerdicts, e
  <2>2. TablesNow'
    BY <2>1 DEF TablesNow
  <2>3. Spares(Tabs \ {t})
    <3>1. Spares(Tabs)
      BY <2>1, SparesAll
    <3> QED
      BY <3>1 DEF Spares
  <2>4. tab' = [tab EXCEPT ![t] = tab'[t]] /\ TabOK(t)' /\ ~Locks(t)'
    <3>1. CASE End(t)
      BY <3>1, EndingOK
    <3>2. CASE TryAgain(t, "begin")
      BY <1>1, <2>1, <3>2, RetryOK
    <3> QED
      BY <2>1, <3>1, <3>2
  <2> QED
    BY <2>2, <2>3, <2>4, TabSteps
<1> QED
  BY <1>4, <1>5

\* A request that is dropped has changed nothing.
LEMMA DropKeeps ==
    ASSUME TablesNow, TabsOK, NEW t \in Tabs, DropRequest(t)
    PROVE  TablesNow' /\ TabsOK'
<1>1. UNCHANGED <<channel, follows, shelf, stored>> /\ End(t)
  BY DEF DropRequest
<1>2. TablesNow' /\ Spares(Tabs \ {t})
  <2>1. Spares(Tabs)
    BY <1>1, SparesAll
  <2> QED
    BY <1>1, <2>1 DEF TablesNow, Spares
<1> QED
  BY <1>1, <1>2, EndingOK, TabSteps

-----------------------------------------------------------------------------
(* Categories, retention and the operator.                                 *)

\* Subscriptions that change their category only keep the tables.
LEMMA RefileKeeps ==
    ASSUME TablesNow, TabsOK, NEW g,
           \A s \in follows : g[s] \in follows', \A z \in follows' : \E s \in follows : z = g[s],
           \A s \in follows : /\ g[s] \in FollowRow /\ g[s].id = s.id /\ g[s].owner = s.owner
                              /\ g[s].row = s.row /\ g[s].category \in shelf'[s.owner] \cup {None},
           shelf' \in [Owners -> SUBSET Shelves],
           \A u \in Owners : IsFiniteSet(shelf'[u]) /\ Cardinality(shelf'[u]) <= MaxCategories,
           UNCHANGED <<channel, stored, tab>>
    PROVE  TablesNow' /\ TabsOK'
<1>1. Tables(channel, follows', shelf', stored.rows, stored.ids)
  <2>1. Tables(channel, follows, shelf, stored.rows, stored.ids)
    BY DEF TablesNow
  <2>2. PICK feeds, subs, shelves, rows, ids, after, kept :
            /\ feeds = channel /\ subs = follows /\ shelves = shelf /\ rows = stored.rows /\ ids = stored.ids
            /\ after = follows' /\ kept = shelf'
    OBVIOUS
  <2>3. /\ Tables(feeds, subs, shelves, rows, ids)
        /\ \A s \in subs : g[s] \in after
        /\ \A z \in after : \E s \in subs : z = g[s]
        /\ \A s \in subs : /\ g[s] \in FollowRow /\ g[s].id = s.id /\ g[s].owner = s.owner
                           /\ g[s].row = s.row /\ g[s].category \in kept[s.owner] \cup {None}
        /\ kept \in [Owners -> SUBSET Shelves]
        /\ \A u \in Owners : IsFiniteSet(kept[u]) /\ Cardinality(kept[u]) <= MaxCategories
    BY <2>1, <2>2
  <2>4. Tables(feeds, after, kept, rows, ids)
    BY ONLY <2>3, Filed
  <2> QED
    BY <2>2, <2>4
<1>2. TablesNow'
  BY <1>1 DEF TablesNow
<1>3. Spares(Tabs)
  BY DEF Spares, TablesNow, Tables
<1> QED
  BY <1>2, <1>3, TabsRest

\* One shelf that changes, the others being as they were.
LEMMA ShelvesAfter ==
    ASSUME TablesNow, NEW u \in Owners, NEW titles \in SUBSET Shelves,
           IsFiniteSet(titles), Cardinality(titles) <= MaxCategories, shelf' = [shelf EXCEPT ![u] = titles]
    PROVE  /\ shelf' \in [Owners -> SUBSET Shelves] /\ shelf'[u] = titles
           /\ \A v \in Owners : v # u => shelf'[v] = shelf[v]
           /\ \A v \in Owners : IsFiniteSet(shelf'[v]) /\ Cardinality(shelf'[v]) <= MaxCategories
<1>1. /\ shelf \in [Owners -> SUBSET Shelves]
      /\ \A v \in Owners : IsFiniteSet(shelf[v]) /\ Cardinality(shelf[v]) <= MaxCategories
  BY DEF TablesNow, Tables, ShelvesOK
<1>2. /\ shelf' \in [Owners -> SUBSET Shelves] /\ shelf'[u] = titles
      /\ \A v \in Owners : v # u => shelf'[v] = shelf[v]
  BY <1>1
<1> QED
  BY <1>1, <1>2

\* A category that is created.
LEMMA CreateKeeps ==
    ASSUME TablesNow, TabsOK, NEW u \in Owners, NEW title \in Shelves, CreateCategory(u, title)
    PROVE  TablesNow' /\ TabsOK'
<1>1. /\ UNCHANGED <<channel, follows, stored, tab>> /\ Cardinality(shelf[u]) < MaxCategories
      /\ shelf' = [shelf EXCEPT ![u] = @ \cup {title}]
  BY DEF CreateCategory
<1>2. Tables(channel, follows, shelf', stored.rows, stored.ids)
  <2>1. Tables(channel, follows, shelf, stored.rows, stored.ids)
    BY DEF TablesNow
  <2> QED
    BY <1>1, <2>1, Shelved
<1>3. TablesNow'
  BY <1>1, <1>2 DEF TablesNow
<1>4. Spares(Tabs)
  BY <1>1, SparesAll
<1> QED
  BY <1>1, <1>3, <1>4, TabsRest

\* Subscriptions of a category that is renamed or deleted.
LEMMA RefiledKeeps ==
    ASSUME TablesNow, TabsOK, NEW u \in Owners, NEW old \in shelf[u], NEW new \in Shelves \cup {None},
           NEW titles \in SUBSET Shelves, shelf[u] \ {old} \subseteq titles, new \in titles \cup {None},
           IsFiniteSet(titles), Cardinality(titles) <= MaxCategories, shelf' = [shelf EXCEPT ![u] = titles],
           follows' = Refiled(u, old, new), UNCHANGED <<channel, stored, tab>>
    PROVE  TablesNow' /\ TabsOK'
<1> DEFINE g == [s \in follows |->
                    IF s.owner = u /\ s.category = old THEN [s EXCEPT !.category = new] ELSE s]
<1>1. /\ shelf' \in [Owners -> SUBSET Shelves] /\ shelf'[u] = titles
      /\ \A v \in Owners : v # u => shelf'[v] = shelf[v]
      /\ \A v \in Owners : IsFiniteSet(shelf'[v]) /\ Cardinality(shelf'[v]) <= MaxCategories
  BY ShelvesAfter
<1>2. follows \subseteq FollowRow /\ \A s \in follows : s.category \in shelf[s.owner] \cup {None}
  BY DEF TablesNow, Tables, FollowsOK, ShelvesOK
<1>3. ASSUME NEW s \in follows
      PROVE  /\ g[s] \in FollowRow /\ g[s].id = s.id /\ g[s].owner = s.owner
             /\ g[s].row = s.row /\ g[s].category \in shelf'[s.owner] \cup {None}
  <2>1. s \in FollowRow /\ s.owner \in Owners /\ s.category \in shelf[s.owner] \cup {None}
    BY <1>2 DEF FollowRow
  <2>2. CASE s.owner = u /\ s.category = old
    <3>1. g[s] = [s EXCEPT !.category = new]
      BY <2>2
    <3>2. /\ [s EXCEPT !.category = new] \in FollowRow /\ [s EXCEPT !.category = new].id = s.id
          /\ [s EXCEPT !.category = new].owner = s.owner /\ [s EXCEPT !.category = new].row = s.row
          /\ [s EXCEPT !.category = new].category = new
      BY <2>1 DEF FollowRow
    <3> HIDE DEF g
    <3> QED
      BY <1>1, <2>2, <3>1, <3>2
  <2>3. CASE ~(s.owner = u /\ s.category = old)
    <3>1. g[s] = s
      BY <2>3
    <3> HIDE DEF g
    <3>2. s.category \in shelf'[s.owner] \cup {None}
      BY <1>1, <2>1, <2>3
    <3> QED
      BY <2>1, <3>1, <3>2
  <2> QED
    BY <2>2, <2>3
<1>4. (\A s \in follows : g[s] \in follows') /\ \A z \in follows' : \E s \in follows : z = g[s]
  BY DEF Refiled
<1> HIDE DEF g
<1> QED
  BY <1>1, <1>3, <1>4, RefileKeeps

\* A category that is renamed: as many as before.
LEMMA RenameKeeps ==
    ASSUME TablesNow, TabsOK, NEW u \in Owners, NEW old \in Shelves, NEW new \in Shelves, RenameCategory(u, old, new)
    PROVE  TablesNow' /\ TabsOK'
<1>1. /\ old \in shelf[u] /\ new \notin shelf[u] /\ UNCHANGED <<channel, stored, tab>>
      /\ shelf' = [shelf EXCEPT ![u] = (shelf[u] \ {old}) \cup {new}] /\ follows' = Refiled(u, old, new)
  BY DEF RenameCategory
<1>2. shelf[u] \subseteq Shelves /\ IsFiniteSet(shelf[u]) /\ Cardinality(shelf[u]) <= MaxCategories
  BY DEF TablesNow, Tables, ShelvesOK
<1>3. IsFiniteSet(shelf[u] \ {old}) /\ Cardinality(shelf[u] \ {old}) = Cardinality(shelf[u]) - 1
  BY <1>1, <1>2, FS_RemoveElement
<1>4. PICK titles : titles = (shelf[u] \ {old}) \cup {new}
  OBVIOUS
<1>5. IsFiniteSet(titles) /\ Cardinality(titles) = Cardinality(shelf[u] \ {old}) + 1
  BY <1>1, <1>3, <1>4, FS_AddElement
<1>6. Cardinality(shelf[u]) \in Nat
  BY <1>2, FS_CardinalityType
<1>7. Cardinality(titles) <= MaxCategories
  BY <1>2, <1>3, <1>5, <1>6
<1> QED
  BY <1>1, <1>2, <1>4, <1>5, <1>7, RefiledKeeps

\* A category that is deleted: one less.
LEMMA DeleteKeeps ==
    ASSUME TablesNow, TabsOK, NEW u \in Owners, NEW title \in Shelves, DeleteCategory(u, title)
    PROVE  TablesNow' /\ TabsOK'
<1>1. /\ title \in shelf[u] /\ UNCHANGED <<channel, stored, tab>>
      /\ shelf' = [shelf EXCEPT ![u] = shelf[u] \ {title}] /\ follows' = Refiled(u, title, None)
  BY DEF DeleteCategory
<1>2. shelf[u] \subseteq Shelves /\ IsFiniteSet(shelf[u]) /\ Cardinality(shelf[u]) <= MaxCategories
  BY DEF TablesNow, Tables, ShelvesOK
<1>3. IsFiniteSet(shelf[u] \ {title}) /\ Cardinality(shelf[u] \ {title}) = Cardinality(shelf[u]) - 1
  BY <1>1, <1>2, FS_RemoveElement
<1>4. PICK titles : titles = shelf[u] \ {title}
  OBVIOUS
<1>5. Cardinality(shelf[u]) \in Nat /\ MaxCategories \in Nat
  BY <1>2, FS_CardinalityType, OwnersLimits
<1>6. IsFiniteSet(titles) /\ Cardinality(titles) <= MaxCategories
  BY <1>2, <1>3, <1>4, <1>5
<1> QED
  BY <1>1, <1>2, <1>4, <1>6, RefiledKeeps

\* A subscription that is filed under another category.
LEMMA FileKeeps ==
    ASSUME TablesNow, TabsOK, NEW z \in follows, NEW category \in Shelves \cup {None}, FileUnder(z, category)
    PROVE  TablesNow' /\ TabsOK'
<1> DEFINE filed == [z EXCEPT !.category = category]
           g == [s \in follows |-> IF s = z THEN filed ELSE s]
<1>1. /\ UNCHANGED <<channel, shelf, stored, tab>> /\ category \in shelf[z.owner] \cup {None}
      /\ follows' = (follows \ {z}) \cup {filed}
  BY DEF FileUnder
<1>2. /\ follows \subseteq FollowRow /\ \A s \in follows : s.category \in shelf[s.owner] \cup {None}
      /\ shelf \in [Owners -> SUBSET Shelves]
      /\ \A u \in Owners : IsFiniteSet(shelf[u]) /\ Cardinality(shelf[u]) <= MaxCategories
  BY DEF TablesNow, Tables, FollowsOK, ShelvesOK
<1>3. /\ filed \in FollowRow /\ filed.id = z.id /\ filed.owner = z.owner
      /\ filed.row = z.row /\ filed.category = category
  <2>1. z \in FollowRow
    BY <1>2
  <2> QED
    BY <2>1 DEF FollowRow
<1> HIDE DEF filed
<1>4. \A s \in follows : /\ g[s] \in FollowRow /\ g[s].id = s.id /\ g[s].owner = s.owner
                         /\ g[s].row = s.row /\ g[s].category \in shelf'[s.owner] \cup {None}
  BY <1>1, <1>2, <1>3
<1>5. (\A s \in follows : g[s] \in follows') /\ \A s \in follows' : \E y \in follows : s = g[y]
  BY <1>1
<1> HIDE DEF g
<1> QED
  BY <1>1, <1>2, <1>4, <1>5, RefileKeeps

\* Retention and the operator write no subscription.
LEMMA FeedKeeps ==
    ASSUME TablesNow, TabsOK, NEW x \in Sources, PurgeOrphan(x) \/ DisableFeed(x)
    PROVE  TablesNow' /\ TabsOK'
<1>1. UNCHANGED <<follows, shelf, stored, tab>> /\ channel[x] # None
  BY DEF PurgeOrphan, DisableFeed
<1>2. Tables(channel, follows, shelf, stored.rows, stored.ids)
  BY DEF TablesNow
<1>3. Tables(channel', follows, shelf, stored.rows, stored.ids)
  <2>1. CASE PurgeOrphan(x)
    BY <1>1, <1>2, <2>1, Purged DEF PurgeOrphan
  <2>2. CASE DisableFeed(x)
    BY <1>1, <1>2, <2>2, Disabled DEF DisableFeed
  <2> QED
    BY <2>1, <2>2
<1>4. TablesNow'
  BY <1>1, <1>3 DEF TablesNow
<1>5. Spares(Tabs)
  BY <1>1, SparesAll
<1> QED
  BY <1>1, <1>4, <1>5, TabsRest

-----------------------------------------------------------------------------
(* Theorems about organization.                                            *)

OrganizationInv == TablesNow /\ TabsOK

\* At first there is nothing.
LEMMA OrganizationStarts == OrganizationInit => OrganizationInv
<1> SUFFICES ASSUME OrganizationInit
             PROVE  OrganizationInv
  OBVIOUS
<1>1. /\ channel = [x \in Sources |-> None] /\ follows = {} /\ shelf = [u \in Owners |-> {}]
      /\ stored = [rows |-> 0, ids |-> 0] /\ tab = [t \in Tabs |-> None]
  BY DEF OrganizationInit
<1>2. ChannelsOK(channel, 0) /\ FeedsMatch(channel, follows)
  BY <1>1 DEF ChannelsOK, FeedsMatch
<1>3. FollowsOK(follows, 0)
  BY <1>1, FS_EmptySet DEF FollowsOK
<1>4. ShelvesOK(follows, shelf)
  <2>1. IsFiniteSet({}) /\ Cardinality({}) = 0
    BY FS_EmptySet
  <2> QED
    BY <1>1, <2>1, OwnersLimits DEF ShelvesOK
<1>5. OneEach(follows)
  <2>1. \A u \in Owners : Mine(follows, u) = {}
    BY <1>1 DEF Mine
  <2>2. Cardinality({}) = 0
    BY FS_EmptySet
  <2> QED
    BY <1>1, <2>1, <2>2, OwnersLimits DEF OneEach
<1>6. TablesNow
  BY <1>1, <1>2, <1>3, <1>4, <1>5 DEF TablesNow, Tables
<1>7. TabsOK
  BY <1>1 DEF TabsOK, TabOK, Locks
<1> QED
  BY <1>6, <1>7 DEF OrganizationInv

\* Every step of organization keeps the invariant.
LEMMA OrganizationKept ==
    ASSUME ~Snapshots, OrganizationInv, [OrganizationNext]_organizationVars
    PROVE  OrganizationInv'
<1>1. CASE UNCHANGED organizationVars
  BY <1>1 DEF OrganizationInv, organizationVars, TablesNow, TabsOK, TabOK, Locks
<1>2. ASSUME NEW u \in Owners, NEW title \in Shelves, CreateCategory(u, title)
      PROVE  OrganizationInv'
  BY <1>2, CreateKeeps DEF OrganizationInv
<1>3. ASSUME NEW u \in Owners, NEW title \in Shelves, DeleteCategory(u, title)
      PROVE  OrganizationInv'
  BY <1>3, DeleteKeeps DEF OrganizationInv
<1>4. ASSUME NEW u \in Owners, NEW title \in Shelves, NEW new \in Shelves, RenameCategory(u, title, new)
      PROVE  OrganizationInv'
  BY <1>4, RenameKeeps DEF OrganizationInv
<1>5. ASSUME NEW s \in follows, NEW category \in Shelves \cup {None}, FileUnder(s, category)
      PROVE  OrganizationInv'
  BY <1>5, FileKeeps DEF OrganizationInv
<1>6. ASSUME NEW t \in Tabs, Ask(t)
      PROVE  OrganizationInv'
  BY <1>6, AskKeeps DEF OrganizationInv
<1>7. ASSUME NEW t \in Tabs, FindSource(t) \/ FindFollow(t) \/ FindTarget(t) \/ ScanSources(t)
      PROVE  OrganizationInv'
  BY <1>7, LookKeeps DEF OrganizationInv
<1>8. ASSUME NEW t \in Tabs, OpenMove(t) \/ OpenImport(t)
      PROVE  OrganizationInv'
  BY <1>8, OpenKeeps DEF OrganizationInv
<1>9. ASSUME NEW t \in Tabs, SubscribeTo(t)
      PROVE  OrganizationInv'
  BY <1>9, SubscribeKeeps DEF OrganizationInv
<1>10. ASSUME NEW t \in Tabs, LeaveFeed(t)
       PROVE  OrganizationInv'
  BY <1>10, LeaveKeeps DEF OrganizationInv
<1>11. ASSUME NEW t \in Tabs, MoveFollow(t)
       PROVE  OrganizationInv'
  BY <1>11, MoveKeeps DEF OrganizationInv
<1>12. ASSUME NEW t \in Tabs, ImportDocument(t)
       PROVE  OrganizationInv'
  BY <1>12, ImportingKeeps DEF OrganizationInv
<1>13. ASSUME NEW t \in Tabs, DropRequest(t)
       PROVE  OrganizationInv'
  BY <1>13, DropKeeps DEF OrganizationInv
<1>14. ASSUME NEW x \in Sources, PurgeOrphan(x) \/ DisableFeed(x)
       PROVE  OrganizationInv'
  BY <1>14, FeedKeeps DEF OrganizationInv
<1> QED
  BY <1>1, <1>2, <1>3, <1>4, <1>5, <1>6, <1>7, <1>8, <1>9, <1>10, <1>11, <1>12, <1>13, <1>14
     DEF OrganizationNext

\* The invariant says more than the property.
LEMMA OrganizationGives == OrganizationInv => OrganizationHolds
<1> SUFFICES ASSUME OrganizationInv
             PROVE  OrganizationHolds
  OBVIOUS
<1>1. OrphansHaveNoReaders
  BY DEF OrganizationInv, TablesNow, Tables, FeedsMatch, OrphansHaveNoReaders, Lives, RowOf
<1>2. ShelvesAreSound
  BY DEF OrganizationInv, TablesNow, Tables, ShelvesOK, OneEach, ShelvesAreSound, Mine
<1> QED
  BY <1>1, <1>2 DEF OrganizationHolds

\* A step of the readers that is not about organization leaves it alone.
LEMMA ReaderSteps ==
    ReaderNext => [OrganizationNext]_organizationVars
BY DEF ReaderNext

\* Tables and pages are sound in every state: all of feeds/subscription.rs,
\* feeds/opml.rs and organization/category, where every read of a transaction is current.
THEOREM OrganizationInvariant == ~Snapshots => (ReaderSpec => []OrganizationInv)
<1> SUFFICES ASSUME ~Snapshots
             PROVE  ReaderSpec => []OrganizationInv
  OBVIOUS
<1>1. ReaderInit => OrganizationInv
  BY OrganizationStarts DEF ReaderInit
<1>2. OrganizationInv /\ [ReaderNext]_<<part, vars, translationVars, organizationVars>> => OrganizationInv'
  <2>1. [ReaderNext]_<<part, vars, translationVars, organizationVars>> => [OrganizationNext]_organizationVars
    BY ReaderSteps
  <2> QED
    BY <2>1, OrganizationKept
<1> QED
  BY <1>1, <1>2, PTL DEF ReaderSpec

\* Feeds, subscriptions and categories agree, whatever pages change at once:
\* an orphan has no reader, the limits hold, and no feed is followed twice.
THEOREM OrganizationSound == ~Snapshots => (ReaderSpec => []OrganizationHolds)
BY OrganizationInvariant, OrganizationGives, PTL

\* Everything a page may do.
PageStep(t) ==
    \/ Ask(t)
    \/ FindSource(t) \/ SubscribeTo(t) \/ FindFollow(t) \/ LeaveFeed(t)
    \/ OpenMove(t) \/ FindTarget(t) \/ MoveFollow(t)
    \/ OpenImport(t) \/ ScanSources(t) \/ ImportDocument(t)
    \/ DropRequest(t)

\* What a page does is no other page's doing.
LEMMA PagesApart ==
    ASSUME OrganizationInv, NEW t \in Tabs, PageStep(t)
    PROVE  \A other \in Tabs : other # t => tab'[other] = tab[other]
<1>1. tab = [p \in Tabs |-> tab[p]]
  BY DEF OrganizationInv, TabsOK
<1>2. CASE ImportDocument(t)
  <2>1. tab[t] # None /\ tab[t].kind = "import" /\ OwnerOf[t] \in Owners /\ TabOK(t) /\ TablesNow
    BY <1>2, OwnersLimits DEF ImportDocument, At, OrganizationInv, TabsOK
  <2>2. tab[t].want \in Seq(OpmlItem)
    BY <2>1, FilesAreLists DEF TabOK
  <2>3. Imported(OwnerOf[t], tab[t].found, tab[t].want).verdict \in ImportVerdicts
    BY <2>1, <2>2, ImportSound
  <2>4. End(t) \/ TryAgain(t, "begin")
    BY <1>2, <2>3 DEF ImportDocument, ImportVerdicts
  <2> QED
    BY <1>1, <2>4 DEF End, TryAgain
<1>3. CASE Ask(t)
  BY <1>1, <1>3 DEF Ask, Start
<1>4. CASE SubscribeTo(t) \/ LeaveFeed(t) \/ MoveFollow(t) \/ DropRequest(t)
  BY <1>1, <1>4 DEF SubscribeTo, LeaveFeed, MoveFollow, DropRequest, End, TryAgain
<1>5. CASE FindSource(t) \/ FindFollow(t) \/ FindTarget(t) \/ ScanSources(t)
  BY <1>1, <1>5 DEF FindSource, FindFollow, FindTarget, ScanSources, End
<1>6. CASE OpenMove(t) \/ OpenImport(t)
  BY <1>1, <1>6 DEF OpenMove, OpenImport, End
<1> QED
  BY <1>2, <1>3, <1>4, <1>5, <1>6 DEF PageStep

\* A page that ends an import and changed the subscriptions has imported its file.
LEMMA ImportsEnd ==
    ASSUME OrganizationInv, OrganizationNext, NEW t \in Tabs,
           tab[t] # None, tab'[t] = None, follows' # follows, tab[t].kind = "import"
    PROVE  ImportDocument(t)
<1>1. PICK p \in Tabs : PageStep(p)
  <2>1. UNCHANGED tab \/ \E p \in Tabs : PageStep(p)
    BY DEF OrganizationNext, PageStep, CreateCategory, DeleteCategory, RenameCategory, FileUnder,
           PurgeOrphan, DisableFeed
  <2> QED
    BY <2>1
<1>2. p = t
  BY <1>1, PagesApart
<1> QED
  BY <1>1, <1>2 DEF PageStep, Ask, Start, FindSource, SubscribeTo, FindFollow, LeaveFeed, OpenMove,
     FindTarget, MoveFollow, OpenImport, ScanSources, DropRequest, At

\* An import that changed the subscriptions has added those of its whole file.
LEMMA ImportIsWhole ==
    ASSUME OrganizationInv, NEW t \in Tabs, ImportDocument(t), follows' # follows
    PROVE  LET u == OwnerOf[t] doc == tab[t].want new == follows' \ follows IN
           /\ follows \subseteq follows'
           /\ \A i \in 1..Len(doc) : channel'[doc[i].source] # None
                                     /\ Follows(follows', u, channel'[doc[i].source].row)
           /\ \A s \in new : \E i \in 1..Len(doc) :
                 s.owner = u /\ s.row = channel'[doc[i].source].row /\ s.category = doc[i].category
<1> DEFINE u == OwnerOf[t]
           doc == tab[t].want
           e == Imported(u, tab[t].found, doc)
<1>1. tab[t] # None /\ tab[t].kind = "import" /\ TabOK(t) /\ u \in Owners /\ TablesNow
  BY OwnersLimits DEF ImportDocument, At, OrganizationInv, TabsOK
<1>2. doc \in Seq(OpmlItem)
  BY <1>1, FilesAreLists DEF TabOK
<1>3. /\ e.verdict \in ImportVerdicts
      /\ e.verdict = "ok" => SoFar(u, doc, Len(doc), Unbegun(u), e)
  BY <1>1, <1>2, ImportSound
<1>4. e.verdict = "ok" /\ channel' = e.channel /\ follows' = e.follows
  BY <1>3 DEF ImportDocument, ImportVerdicts
<1>5. Unbegun(u).follows = follows
  BY DEF Unbegun
<1> HIDE DEF e, u, doc
<1>6. /\ follows \subseteq follows'
      /\ \A i \in 1..Len(doc) : channel'[doc[i].source] # None
                                /\ Follows(follows', u, channel'[doc[i].source].row)
      /\ \A s \in follows' \ follows : \E i \in 1..Len(doc) :
            s.owner = u /\ s.row = channel'[doc[i].source].row /\ s.category = doc[i].category
  BY <1>3, <1>4, <1>5 DEF SoFar
<1> QED
  BY <1>6 DEF u, doc

\* An import is one change, and keeps every subscription there was:
\* import_document in feeds/opml.rs.
THEOREM ImportsWhole == ~Snapshots => (ReaderSpec => ImportsAreWhole)
<1> SUFFICES ASSUME ~Snapshots
             PROVE  ReaderSpec => ImportsAreWhole
  OBVIOUS
<1> DEFINE IsWhole(t) ==
              tab[t] # None /\ tab'[t] = None /\ follows' # follows =>
                 (tab[t].kind = "import" =>
                     LET u == OwnerOf[t] doc == tab[t].want new == follows' \ follows IN
                     /\ follows \subseteq follows'
                     /\ \A i \in 1..Len(doc) : channel'[doc[i].source] # None
                                               /\ Follows(follows', u, channel'[doc[i].source].row)
                     /\ \A s \in new : \E i \in 1..Len(doc) :
                           s.owner = u /\ s.row = channel'[doc[i].source].row /\ s.category = doc[i].category)
<1>1. OrganizationInv /\ [ReaderNext]_<<part, vars, translationVars, organizationVars>>
      => [\A t \in Tabs : IsWhole(t)]_organizationVars
  <2> SUFFICES ASSUME OrganizationInv, OrganizationNext, NEW t \in Tabs
               PROVE  IsWhole(t)
    BY ReaderSteps
  <2>1. CASE ~(tab[t] # None /\ tab'[t] = None /\ follows' # follows /\ tab[t].kind = "import")
    BY <2>1
  <2>2. CASE tab[t] # None /\ tab'[t] = None /\ follows' # follows /\ tab[t].kind = "import"
    <3>1. ImportDocument(t)
      BY <2>2, ImportsEnd
    <3> QED
      BY <2>2, <3>1, ImportIsWhole
  <2> QED
    BY <2>1, <2>2
<1>2. [][\A t \in Tabs : IsWhole(t)]_organizationVars <=> ImportsAreWhole
  BY DEF ImportsAreWhole
<1> QED
  BY <1>1, <1>2, OrganizationInvariant, PTL DEF ReaderSpec

-----------------------------------------------------------------------------
(* What a user exports, and what another one gets of it.                   *)

\* A list of a set, each of its elements once.
Lists(seq, S) ==
    /\ seq \in Seq(S) /\ \A x \in S : \E i \in 1..Len(seq) : seq[i] = x
    /\ \A i, j \in 1..Len(seq) : seq[i] = seq[j] => i = j

\* SetToSeq has every element of a finite set once.
LEMMA SetListed ==
    ASSUME NEW S, IsFiniteSet(S)
    PROVE  Lists(SetToSeq(S), S) /\ Len(SetToSeq(S)) = Cardinality(S)
<1> DEFINE n == Cardinality(S)
           f == SetToSeq(S)
<1>1. n \in Nat /\ ExistsBijection(1..n, S)
  BY FS_CardinalityType
<1>2. \E g \in [1..n -> S] : IsInjective(g)
  BY <1>1 DEF ExistsBijection, Bijection, Injection
<1>3. f \in [1..n -> S] /\ IsInjective(f)
  BY <1>2, Zenon DEF SetToSeq
<1> HIDE DEF f, n
<1>4. f \in Injection(1..n, S)
  BY <1>3 DEF Injection
<1>5. IsFiniteSet(1..n) /\ Cardinality(1..n) = n
  BY <1>1, FS_Interval
<1>6. f \in Surjection(1..n, S)
  <2>1. Cardinality(1..n) = Cardinality(S)
    BY <1>5 DEF n
  <2> QED
    BY <1>4, <2>1, FS_Injection
<1>7. f \in Seq(S) /\ Len(f) = n
  BY <1>1, <1>3
<1>8. \A x \in S : \E i \in 1..n : f[i] = x
  BY <1>6 DEF Surjection
<1>9. \A i, j \in 1..n : f[i] = f[j] => i = j
  BY <1>3 DEF IsInjective
<1> QED
  BY <1>7, <1>8, <1>9 DEF Lists, n, f

\* One list after another.
LEMMA ListsJoin ==
    ASSUME NEW S, NEW T, S \cap T = {}, NEW s, NEW t, Lists(s, S), Lists(t, T)
    PROVE  Lists(s \o t, S \cup T)
<1> DEFINE m == Len(s)
           n == Len(t)
           B == S \cup T
           u == s \o t
<1>1. s \in Seq(B) /\ t \in Seq(B) /\ m \in Nat /\ n \in Nat
  BY DEF Lists
<1>2. u \in Seq(B) /\ Len(u) = m + n /\ \A i \in 1..(m + n) : u[i] = IF i <= m THEN s[i] ELSE t[i - m]
  BY <1>1, ConcatProperties
<1>3. /\ \A i \in 1..m : s[i] \in S
      /\ \A i \in 1..n : t[i] \in T
      /\ \A x \in S : \E i \in 1..m : s[i] = x
      /\ \A x \in T : \E i \in 1..n : t[i] = x
      /\ \A i, j \in 1..m : s[i] = s[j] => i = j
      /\ \A i, j \in 1..n : t[i] = t[j] => i = j
  BY <1>1, SMTT(30) DEF Lists
<1> HIDE DEF m, n, B, u
<1>4. \A x \in B : \E i \in 1..(m + n) : u[i] = x
  <2>1. ASSUME NEW x \in S
        PROVE  \E i \in 1..(m + n) : u[i] = x
    <3>1. PICK i \in 1..m : s[i] = x
      BY <1>3
    <3>2. i \in 1..(m + n) /\ i <= m
      BY <1>1
    <3> QED
      BY <1>2, <3>1, <3>2
  <2>2. ASSUME NEW x \in T
        PROVE  \E i \in 1..(m + n) : u[i] = x
    <3>1. PICK i \in 1..n : t[i] = x
      BY <1>3
    <3>2. m + i \in 1..(m + n) /\ ~(m + i <= m) /\ (m + i) - m = i
      BY <1>1
    <3> QED
      BY <1>2, <3>1, <3>2
  <2> QED
    BY <2>1, <2>2 DEF B
<1>5. ASSUME NEW i \in 1..(m + n), NEW j \in 1..(m + n), u[i] = u[j]
      PROVE  i = j
  <2>1. i \in Int /\ j \in Int
    OBVIOUS
  <2>2. CASE i <= m /\ j <= m
    <3>1. i \in 1..m /\ j \in 1..m
      BY <2>2, <1>1
    <3> QED
      BY <1>2, <1>3, <1>5, <2>2, <3>1
  <2>3. CASE ~(i <= m) /\ ~(j <= m)
    <3>1. i - m \in 1..n /\ j - m \in 1..n
      BY <2>3, <1>1
    <3>2. i - m = j - m
      BY <1>2, <1>3, <1>5, <2>3, <3>1
    <3> QED
      BY <1>1, <2>1, <3>2
  <2>4. CASE i <= m /\ ~(j <= m)
    <3>1. i \in 1..m /\ j - m \in 1..n
      BY <2>4, <1>1
    <3>2. u[i] \in S /\ u[j] \in T
      BY <1>2, <1>3, <2>4, <3>1
    <3> QED
      BY <1>5, <3>2
  <2>5. CASE ~(i <= m) /\ j <= m
    <3>1. j \in 1..m /\ i - m \in 1..n
      BY <2>5, <1>1
    <3>2. u[j] \in S /\ u[i] \in T
      BY <1>2, <1>3, <2>5, <3>1
    <3> QED
      BY <1>5, <3>2
  <2> QED
    BY <2>2, <2>3, <2>4, <2>5
<1> QED
  BY <1>2, <1>4, <1>5 DEF Lists, B, u

\* The address of a row, and the feeds of a file that subscriptions make.
SourceOf(row) == CHOOSE source \in Sources : RowOf(source) = row
ItemsOf(group) == [i \in 1..Len(group) |-> [source |-> SourceOf(group[i].row), category |-> group[i].category]]
OnShelf(u, category) == {s \in Mine(follows, u) : s.category = category}

\* What a file has of a user's subscriptions, of some categories.
Entries(u, categories) ==
    {x \in OpmlItem :
        /\ channel[x.source] # None /\ x.category \in categories
        /\ \E s \in Mine(follows, u) : s.row = channel[x.source].row /\ s.category = x.category}

\* The address of a row is the one its feed has.
LEMMA SourceIs ==
    ASSUME TablesNow, NEW s \in follows
    PROVE  /\ SourceOf(s.row) \in Sources /\ channel[SourceOf(s.row)] # None /\ channel[SourceOf(s.row)].row = s.row
           /\ \A x \in Sources : channel[x] # None /\ channel[x].row = s.row => x = SourceOf(s.row)
<1>1. /\ ChannelsOK(channel, stored.rows) /\ FeedsMatch(channel, follows)
      /\ s.row \in Nat
  <2>1. Tables(channel, follows, shelf, stored.rows, stored.ids)
    BY DEF TablesNow
  <2> QED
    BY <2>1, RowsAreOld DEF Tables
<1>2. PICK x \in Sources : channel[x] # None /\ channel[x].row = s.row
  BY <1>1 DEF FeedsMatch
<1>3. RowOf(x) = s.row
  BY <1>2 DEF RowOf
<1>4. SourceOf(s.row) \in Sources /\ RowOf(SourceOf(s.row)) = s.row
  BY <1>3 DEF SourceOf
<1>5. channel[SourceOf(s.row)] # None /\ channel[SourceOf(s.row)].row = s.row
  BY <1>1, <1>4, ChannelAssumption DEF RowOf
<1> QED
  BY <1>1, <1>4, <1>5 DEF ChannelsOK

\* The part of a file that is of one category.
LEMMA ShelfListed ==
    ASSUME TablesNow, NEW u \in Owners, NEW c
    PROVE  Lists(ItemsOf(SetToSeq(OnShelf(u, c))), Entries(u, {c}))
<1> DEFINE group == SetToSeq(OnShelf(u, c))
           n == Len(group)
           items == ItemsOf(group)
           E == Entries(u, {c})
<1>1. FollowsOK(follows, stored.ids) /\ OneEach(follows)
  BY DEF TablesNow, Tables
<1>2. OnShelf(u, c) \subseteq follows /\ IsFiniteSet(OnShelf(u, c))
  <2>1. OnShelf(u, c) \subseteq follows
    BY DEF OnShelf, Mine
  <2> QED
    BY <1>1, <2>1, FS_Subset DEF FollowsOK
<1>3. Lists(group, OnShelf(u, c))
  BY <1>2, SetListed
<1> HIDE DEF group
<1>4. n \in Nat /\ \A i \in 1..n : group[i] \in OnShelf(u, c)
  BY <1>3 DEF Lists
<1>5. \A i \in 1..n : /\ group[i] \in follows /\ group[i].owner = u /\ group[i].category = c
                      /\ items[i] = [source |-> SourceOf(group[i].row), category |-> c]
  BY <1>4 DEF OnShelf, Mine, ItemsOf
<1>6. Len(items) = n /\ items = [i \in 1..n |-> items[i]]
  BY <1>4 DEF ItemsOf
<1>7. ASSUME NEW i \in 1..n
      PROVE  items[i] \in E
  <2> DEFINE s == group[i]
             x == [source |-> SourceOf(s.row), category |-> c]
  <2>1. s \in follows /\ s.owner = u /\ s.category = c /\ items[i] = x
    BY <1>5
  <2> HIDE DEF s
  <2>2. SourceOf(s.row) \in Sources /\ channel[SourceOf(s.row)] # None /\ channel[SourceOf(s.row)].row = s.row
    BY <2>1, SourceIs
  <2>3. c \in Shelves \cup {None}
    BY <1>1, <2>1 DEF FollowsOK, FollowRow
  <2>4. x \in OpmlItem /\ x.source = SourceOf(s.row) /\ x.category = c
    BY <2>2, <2>3 DEF OpmlItem
  <2> HIDE DEF x
  <2>5. x \in E
    BY <2>1, <2>2, <2>4 DEF Entries, Mine
  <2> QED
    BY <2>1, <2>5
<1>8. ASSUME NEW x \in E
      PROVE  \E i \in 1..n : items[i] = x
  <2>1. x \in OpmlItem /\ channel[x.source] # None /\ x.category = c
    BY DEF Entries
  <2>2. PICK s \in Mine(follows, u) : s.row = channel[x.source].row /\ s.category = x.category
    BY DEF Entries
  <2>3. s \in OnShelf(u, c) /\ s \in follows
    BY <2>1, <2>2 DEF OnShelf, Mine
  <2>4. PICK i \in 1..n : group[i] = s
    BY <1>3, <2>3 DEF Lists
  <2>5. x.source \in Sources /\ x = [source |-> x.source, category |-> c]
    BY <2>1 DEF OpmlItem
  <2>6. x.source = SourceOf(s.row)
    BY <2>1, <2>2, <2>3, <2>5, SourceIs
  <2>7. items[i] = [source |-> SourceOf(s.row), category |-> c]
    BY <1>5, <2>4
  <2> QED
    BY <2>5, <2>6, <2>7
<1>9. ASSUME NEW i \in 1..n, NEW j \in 1..n, items[i] = items[j]
      PROVE  i = j
  <2>1. group[i] \in follows /\ group[j] \in follows /\ group[i].owner = group[j].owner
    BY <1>5
  <2>2. SourceOf(group[i].row) = SourceOf(group[j].row)
    <3>1. [source |-> SourceOf(group[i].row), category |-> c].source
            = [source |-> SourceOf(group[j].row), category |-> c].source
      BY <1>5, <1>9
    <3> QED
      BY <3>1
  <2>3. group[i].row = group[j].row
    BY <2>1, <2>2, SourceIs
  <2>4. group[i] = group[j]
    BY <1>1, <2>1, <2>3 DEF OneEach
  <2> QED
    BY <1>3, <2>4 DEF Lists
<1> HIDE DEF items, E, n
<1>10. items \in Seq(E)
  <2>1. items \in [1..n -> E]
    BY <1>6, <1>7
  <2> QED
    BY <1>4, <2>1
<1>11. Lists(items, E)
  BY <1>6, <1>8, <1>9, <1>10 DEF Lists
<1> QED
  BY <1>11 DEF items, E, group

\* A file has every subscription of its user, and each of them once.
LEMMA ExportListed ==
    ASSUME TablesNow, NEW u \in Owners
    PROVE  Lists(Exported(u), Entries(u, shelf[u] \cup {None}))
<1> DEFINE m == Cardinality(shelf[u])
           cats == SetToSeq(shelf[u])
           n == m + 1
           Cat(i) == IF i = 1 THEN None ELSE cats[i - 1]
           groups == [i \in 1..n |-> ItemsOf(SetToSeq(OnShelf(u, Cat(i))))]
           C(i) == {Cat(j) : j \in 1..i}
<1>1. shelf[u] \subseteq Shelves /\ IsFiniteSet(shelf[u]) /\ None \notin shelf[u]
  BY ChannelAssumption DEF TablesNow, Tables, ShelvesOK
<1>2. Lists(cats, shelf[u]) /\ Len(cats) = m /\ m \in Nat
  BY <1>1, SetListed, FS_CardinalityType
<1>3. Exported(u) = FlattenSeq(groups)
  BY DEF Exported, ItemsOf, SourceOf, OnShelf
<1> HIDE DEF m, cats
<1>4. n \in Nat /\ n >= 1
  BY <1>2
<1>5. ASSUME NEW i \in 1..n, NEW j \in 1..n, Cat(i) = Cat(j)
      PROVE  i = j
  <2>1. ASSUME NEW k \in 1..n, k # 1
        PROVE  k - 1 \in 1..m /\ cats[k - 1] \in shelf[u]
    <3>1. k - 1 \in 1..m
      BY <1>2, <2>1
    <3> QED
      BY <1>2, <3>1 DEF Lists
  <2>2. CASE i # 1 /\ j # 1
    <3>1. i - 1 = j - 1
      BY <1>2, <1>5, <2>1, <2>2 DEF Lists
    <3> QED
      BY <1>4, <3>1
  <2> QED
    BY <1>1, <1>5, <2>1, <2>2
<1>6. C(n) = shelf[u] \cup {None}
  <2>1. ASSUME NEW j \in 1..n
        PROVE  Cat(j) \in shelf[u] \cup {None}
    <3>1. CASE j # 1
      <4>1. j - 1 \in 1..m
        BY <1>2, <3>1
      <4>2. cats[j - 1] \in shelf[u]
        BY <1>2, <4>1 DEF Lists
      <4> QED
        BY <3>1, <4>2
    <3> QED
      BY <3>1
  <2>2. ASSUME NEW c \in shelf[u]
        PROVE  c \in C(n)
    <3>1. PICK j \in 1..m : cats[j] = c
      BY <1>2 DEF Lists
    <3>2. j + 1 \in 1..n /\ j + 1 # 1 /\ (j + 1) - 1 = j
      BY <1>2
    <3>3. Cat(j + 1) = c
      BY <3>1, <3>2
    <3> QED
      BY <3>2, <3>3
  <2>3. None \in C(n)
    <3>1. 1 \in 1..n /\ Cat(1) = None
      BY <1>4
    <3> QED
      BY <3>1
  <2> QED
    BY <2>1, <2>2, <2>3
<1>7. \A i \in 1..n : Lists(groups[i], Entries(u, {Cat(i)}))
  <2> SUFFICES ASSUME NEW i \in 1..n
               PROVE  Lists(groups[i], Entries(u, {Cat(i)}))
    OBVIOUS
  <2> DEFINE c == Cat(i)
  <2>1. groups[i] = ItemsOf(SetToSeq(OnShelf(u, c)))
    OBVIOUS
  <2> HIDE DEF c, groups
  <2>2. Lists(groups[i], Entries(u, {c}))
    BY <2>1, ShelfListed
  <2> QED
    BY <2>2 DEF c
<1>8. DOMAIN groups = 1..n /\ groups \in Seq(Seq(OpmlItem)) /\ Len(groups) = n
  <2>1. \A i \in 1..n : groups[i] \in Seq(OpmlItem)
    <3> SUFFICES ASSUME NEW i \in 1..n
                 PROVE  groups[i] \in Seq(OpmlItem)
      OBVIOUS
    <3> DEFINE E == Entries(u, {Cat(i)})
    <3>1. E \subseteq OpmlItem
      BY DEF Entries
    <3> HIDE DEF groups, n
    <3>2. Lists(groups[i], E)
      BY <1>7
    <3> HIDE DEF E
    <3> QED
      BY <3>1, <3>2 DEF Lists
  <2>2. groups = [i \in 1..n |-> groups[i]]
    OBVIOUS
  <2> HIDE DEF groups, n
  <2>3. groups \in [1..n -> Seq(OpmlItem)]
    BY <2>1, <2>2
  <2> QED
    BY <1>4, <2>3
<1> HIDE DEF groups
<1>9. PICK d : /\ d[0] = <<>> /\ \A i \in 1..n : d[i] = d[i - 1] \o groups[i]
               /\ FlattenSeq(groups) = d[n]
  <2>1. \E d : /\ d[0] = <<>> /\ \A i \in 0..Len(groups) : d[i] \in Seq(OpmlItem)
               /\ \A i \in 1..Len(groups) : d[i] = d[i - 1] \o groups[i]
               /\ FlattenSeq(groups) = d[Len(groups)]
    <3>1. groups \in Seq(Seq(OpmlItem))
      BY <1>8
    <3> QED
      BY ONLY <3>1, FlattenSteps
  <2>2. Len(groups) = n
    BY <1>8
  <2> QED
    BY <2>1, <2>2
<1> DEFINE S == {i \in 0..n : Lists(d[i], Entries(u, C(i)))}
<1>10. 0 \in S
  <2>1. C(0) = {}
    OBVIOUS
  <2>2. Entries(u, C(0)) = {}
    BY <2>1 DEF Entries
  <2>3. Lists(<<>>, {})
    BY DEF Lists
  <2>4. 0 \in 0..n
    BY <1>4
  <2> HIDE DEF C, n
  <2> QED
    BY <1>9, <2>2, <2>3, <2>4
<1>11. ASSUME NEW i \in 0..(n - 1), i \in S
       PROVE  i + 1 \in S
  <2>1. i + 1 \in 1..n /\ i + 1 \in 0..n /\ (i + 1) - 1 = i
    BY <1>4
  <2>2. C(i + 1) = C(i) \cup {Cat(i + 1)}
    <3>1. 1..(i + 1) = (1..i) \cup {i + 1}
      BY <1>4
    <3> HIDE DEF Cat
    <3> QED
      BY <3>1
  <2>3. Cat(i + 1) \notin C(i)
    <3> SUFFICES ASSUME NEW j \in 1..i, Cat(j) = Cat(i + 1)
                 PROVE  FALSE
      OBVIOUS
    <3>1. j \in 1..n /\ j # i + 1
      BY <1>4, <2>1
    <3> HIDE DEF Cat, n
    <3> QED
      BY <1>5, <2>1, <3>1
  <2> DEFINE c == Cat(i + 1)
             all == C(i)
             more == C(i + 1)
  <2>4. d[i + 1] = d[i] \o groups[i + 1] /\ Lists(d[i], Entries(u, all)) /\ Lists(groups[i + 1], Entries(u, {c}))
    <3> HIDE DEF Cat, C, n
    <3> QED
      BY <1>7, <1>9, <1>11, <2>1
  <2>5. more = all \cup {c} /\ c \notin all
    BY <2>2, <2>3
  <2> HIDE DEF c, all, more
  <2>6. Entries(u, all) \cap Entries(u, {c}) = {} /\ Entries(u, more) = Entries(u, all) \cup Entries(u, {c})
    BY <2>5 DEF Entries
  <2>7. Lists(d[i + 1], Entries(u, more))
    <3> DEFINE A == Entries(u, all)
               B == Entries(u, {c})
               s == d[i]
               t == groups[i + 1]
    <3>1. A \cap B = {} /\ Lists(s, A) /\ Lists(t, B)
      BY <2>4, <2>6
    <3> HIDE DEF A, B, s, t
    <3>2. Lists(s \o t, A \cup B)
      BY <3>1, ListsJoin
    <3> QED
      BY <2>4, <2>6, <3>2 DEF A, B, s, t
  <2> QED
    BY <2>1, <2>7 DEF more
<1>12. n \in S
  <2> HIDE DEF S, n, C
  <2>1. \A i \in 0..n : i \in S
    BY <1>4, <1>10, <1>11, SetUpTo
  <2> QED
    BY <1>4, <2>1
<1> HIDE DEF C
<1> QED
  BY <1>3, <1>6, <1>9, <1>12

\* The file of a user, with the rows that an import finds for it.
FileOf(u, doc, found) ==
    /\ Lists(doc, Entries(u, shelf[u] \cup {None}))
    /\ \A i \in 1..Len(doc) : found[doc[i].source] = channel[doc[i].source].row

\* No feed is in it twice, and it has no more than a user may have.
LEMMA FileIs ==
    ASSUME TablesNow, NEW u \in Owners, NEW doc, NEW found, FileOf(u, doc, found)
    PROVE  /\ doc \in Seq(OpmlItem) /\ Len(doc) \in Nat /\ Len(doc) <= MaxSubscriptions
           /\ \A i \in 1..Len(doc) : /\ doc[i].source \in Sources /\ channel[doc[i].source] # None
                                     /\ doc[i].category \in shelf[u] \cup {None}
           /\ \A i, j \in 1..Len(doc) : channel[doc[i].source].row = channel[doc[j].source].row => i = j
<1> DEFINE n == Len(doc)
           E == Entries(u, shelf[u] \cup {None})
           M == Mine(follows, u)
           Of(i) == {s \in M : s.row = channel[doc[i].source].row /\ s.category = doc[i].category}
           f == [i \in 1..n |-> CHOOSE s \in M : s \in Of(i)]
<1>1. /\ doc \in Seq(E) /\ n \in Nat /\ \A i \in 1..n : doc[i] \in E
      /\ \A i, j \in 1..n : doc[i] = doc[j] => i = j
  <2>1. Lists(doc, E)
    BY DEF FileOf
  <2> HIDE DEF E
  <2> QED
    BY <2>1 DEF Lists
<1>2. \A x \in E : /\ x \in OpmlItem /\ channel[x.source] # None /\ x.category \in shelf[u] \cup {None}
                   /\ \E s \in M : s.row = channel[x.source].row /\ s.category = x.category
  BY DEF Entries
<1>3. ChannelsOK(channel, stored.rows) /\ FollowsOK(follows, stored.ids) /\ OneEach(follows) /\ M \subseteq follows
  BY DEF TablesNow, Tables, Mine
<1>4. IsFiniteSet(M) /\ Cardinality(M) \in Nat /\ Cardinality(M) <= MaxSubscriptions
  <2>1. IsFiniteSet(M)
    BY <1>3, FS_Subset DEF FollowsOK
  <2> QED
    BY <1>3, <2>1, FS_CardinalityType DEF OneEach
<1> HIDE DEF E, n
<1>5. \A i \in 1..n : /\ doc[i] = [source |-> doc[i].source, category |-> doc[i].category]
                      /\ doc[i].source \in Sources /\ channel[doc[i].source] # None
                      /\ doc[i].category \in shelf[u] \cup {None}
  BY <1>1, <1>2 DEF OpmlItem
<1>6. \A i \in 1..n : \E s \in M : s \in Of(i)
  BY <1>1, <1>2
<1>7. \A i \in 1..n : f[i] \in M /\ f[i] \in Of(i)
  <2> HIDE DEF Of, M
  <2> QED
    BY <1>6
<1> HIDE DEF f
<1>8. \A i \in 1..n : f[i] \in M /\ f[i].row = channel[doc[i].source].row /\ f[i].category = doc[i].category
  BY <1>7
<1>9. ASSUME NEW i \in 1..n, NEW j \in 1..n, channel[doc[i].source].row = channel[doc[j].source].row
      PROVE  i = j
  <2>1. doc[i].source = doc[j].source
    BY <1>3, <1>5, <1>9 DEF ChannelsOK
  <2>2. f[i] = f[j]
    <3>1. f[i] \in follows /\ f[j] \in follows /\ f[i].owner = f[j].owner /\ f[i].row = f[j].row
      BY <1>8, <1>9 DEF Mine
    <3> QED
      BY <1>3, <3>1 DEF OneEach
  <2>3. doc[i].category = doc[j].category
    BY <1>8, <2>2
  <2>4. doc[i] = doc[j]
    <3>1. /\ doc[i] = [source |-> doc[i].source, category |-> doc[i].category]
          /\ doc[j] = [source |-> doc[j].source, category |-> doc[j].category]
      BY <1>5
    <3> QED
      BY ONLY <2>1, <2>3, <3>1
  <2> QED
    BY <1>1, <2>4
<1>10. n <= Cardinality(M)
  <2>1. f = [i \in 1..n |-> f[i]]
    BY DEF f
  <2> HIDE DEF M, Of
  <2>2. f \in [1..n -> M]
    BY <1>8, <2>1
  <2>3. \A i, j \in 1..n : f[i] = f[j] => i = j
    BY <1>8, <1>9
  <2>4. f \in Injection(1..n, M)
    BY <2>2, <2>3 DEF Injection, IsInjective
  <2>5. Cardinality(1..n) <= Cardinality(M)
    BY <1>4, <2>4, FS_Injection
  <2>6. Cardinality(1..n) = n
    BY <1>1, FS_Interval
  <2> QED
    BY <2>5, <2>6
<1>11. doc \in Seq(OpmlItem)
  BY <1>1, <1>2
<1>12. n <= MaxSubscriptions
  BY <1>1, <1>4, <1>10, OwnersLimits
<1> QED
  BY <1>1, <1>5, <1>9, <1>11, <1>12 DEF n

Places(subs, w) == {<<s.row, s.category>> : s \in Mine(subs, w)}

\* What an import of such a file has after some feeds of it, for a user who had none.
Got(u, v, doc, i, d) ==
    /\ Judged(d) /\ d.verdict = "ok" /\ d.channel \in [Sources -> Channel \cup {None}]
    /\ \A x \in Sources : channel[x] # None =>
          d.channel[x] # None /\ d.channel[x].row = channel[x].row /\ d.channel[x].disabled = channel[x].disabled
    /\ d.shelf \subseteq shelf[u]
    /\ IsFiniteSet(Mine(d.follows, v)) /\ Cardinality(Mine(d.follows, v)) <= i
    /\ Places(d.follows, v) = {<<channel[doc[j].source].row, doc[j].category>> : j \in 1..i}

\* The next feed of the file: it is disabled, or the user gets it.
LEMMA GotMore ==
    ASSUME TablesNow, NEW u \in Owners, NEW v \in Owners, NEW doc, NEW found, FileOf(u, doc, found),
           NEW i \in Nat, i + 1 <= Len(doc), NEW d, Got(u, v, doc, i, d),
           NEW e, e = ImportFeed(v, found, d, doc[i + 1])
    PROVE  \/ Judged(e) /\ e.verdict = "refused" /\ channel[doc[i + 1].source].disabled
           \/ Got(u, v, doc, i + 1, e)
<1> DEFINE item == doc[i + 1]
           x == item.source
           c == item.category
           feed == d.channel[x]
           row == channel[x].row
           isNew == c # None /\ c \notin d.shelf
           new == [id |-> d.ids + 1, owner |-> v, row |-> row, category |-> c]
           M == Mine(d.follows, v)
<1>1. i + 1 \in 1..Len(doc) /\ i \in 0..Len(doc) /\ Len(doc) \in Nat /\ Len(doc) <= MaxSubscriptions
  BY FileIs
<1>2. x \in Sources /\ channel[x] # None /\ c \in shelf[u] \cup {None}
  BY <1>1, FileIs
<1>3. feed # None /\ feed.row = row /\ feed.disabled = channel[x].disabled /\ feed \in Channel
  BY <1>2 DEF Got
<1>4. found[x] = row
  BY <1>1 DEF FileOf
<1>5. Judged(e)
  BY VerdictStays DEF Got
<1>6. M = Mine(d.follows, v) /\ IsFiniteSet(M) /\ Cardinality(M) <= i /\ Cardinality(M) \in Nat
  BY FS_CardinalityType DEF Got
<1>7. d.shelf \subseteq shelf[u] /\ d.verdict = "ok" /\ Judged(d)
  BY DEF Got
<1>8. ~Follows(d.follows, v, row)
  <2> SUFFICES ASSUME NEW s \in M, s.row = row
               PROVE  FALSE
    BY DEF Follows, Mine
  <2>1. <<s.row, s.category>> \in Places(d.follows, v)
    BY DEF Places
  <2>2. PICK j \in 1..i : <<s.row, s.category>> = <<channel[doc[j].source].row, doc[j].category>>
    BY <2>1 DEF Got
  <2>3. channel[doc[j].source].row = channel[doc[i + 1].source].row
    BY <2>2
  <2>4. j \in 1..Len(doc) /\ j # i + 1
    BY <1>1
  <2> QED
    BY <1>1, <2>3, <2>4, FileIs
<1>9. Cardinality(M) < MaxSubscriptions
  BY <1>1, <1>6, OwnersLimits
<1>10. ~(isNew /\ Cardinality(d.shelf) >= MaxCategories)
  <2> SUFFICES ASSUME isNew
               PROVE  ~(Cardinality(d.shelf) >= MaxCategories)
    OBVIOUS
  <2> DEFINE own == shelf[u]
             less == own \ {c}
             done == d.shelf
  <2>1. IsFiniteSet(own) /\ Cardinality(own) \in Nat /\ Cardinality(own) <= MaxCategories
    <3>1. IsFiniteSet(own) /\ Cardinality(own) <= MaxCategories
      BY DEF TablesNow, Tables, ShelvesOK
    <3> QED
      BY <3>1, FS_CardinalityType
  <2>2. c \in own /\ done \subseteq less
    BY <1>2, <1>7
  <2> HIDE DEF own
  <2>3. IsFiniteSet(less) /\ Cardinality(less) = Cardinality(own) - 1
    BY <2>1, <2>2, FS_RemoveElement
  <2> HIDE DEF less, done
  <2>4. IsFiniteSet(done) /\ Cardinality(done) <= Cardinality(less)
    BY <2>2, <2>3, FS_Subset
  <2>5. Cardinality(done) \in Nat
    BY <2>4, FS_CardinalityType
  <2> QED
    BY <2>1, <2>3, <2>4, <2>5, OwnersLimits DEF done
<1>11. CASE feed.disabled
  <2>1. e = [d EXCEPT !.verdict = "refused"]
    BY <1>3, <1>4, <1>7, <1>11 DEF ImportFeed
  <2>2. e.verdict = "refused"
    BY <1>7, <2>1 DEF Judged
  <2> QED
    BY <1>3, <1>5, <1>11, <2>2
<1>12. CASE ~feed.disabled
  <2> DEFINE kept == IF isNew THEN d.shelf \cup {c} ELSE d.shelf
             taken == Taken(d.channel, x, row)
  <2>1. e = [verdict |-> "ok", channel |-> taken, rows |-> d.rows, ids |-> d.ids + 1, shelf |-> kept,
             follows |-> d.follows \cup {new}]
    <3> HIDE DEF M
    <3>1. Cardinality(Mine(d.follows, v)) < MaxSubscriptions /\ Cardinality(Mine(d.follows, v)) \in Nat
      BY <1>6, <1>9 DEF M
    <3>2. ~(Cardinality(Mine(d.follows, v)) >= MaxSubscriptions)
      BY <3>1, OwnersLimits
    <3> QED
      BY <1>3, <1>4, <1>7, <1>8, <1>10, <1>12, <3>2, Zenon DEF ImportFeed
  <2>2. e.verdict = "ok" /\ e.channel = taken /\ e.shelf = kept /\ e.follows = d.follows \cup {new}
    BY <2>1
  <2>3. /\ taken \in [Sources -> Channel \cup {None}] /\ taken[x] # None /\ taken[x].row = row
        /\ taken[x].disabled = feed.disabled /\ \A y \in Sources : y # x => taken[y] = d.channel[y]
    <3> DEFINE orphan == [feed EXCEPT !.orphaned = FALSE]
    <3>1. orphan \in Channel /\ orphan.row = row /\ orphan.disabled = feed.disabled
      BY <1>3 DEF Channel
    <3>2. d.channel[x].orphaned = feed.orphaned /\ taken = [d.channel EXCEPT ![x] = orphan]
      BY <1>3 DEF Taken
    <3>3. orphan # None
      BY <3>1, ChannelAssumption
    <3> HIDE DEF orphan, taken
    <3>4. d.channel \in [Sources -> Channel \cup {None}]
      BY DEF Got
    <3> QED
      BY <1>2, <3>1, <3>2, <3>3, <3>4
  <2>4. \A y \in Sources : channel[y] # None =>
           taken[y] # None /\ taken[y].row = channel[y].row /\ taken[y].disabled = channel[y].disabled
    <3> HIDE DEF taken
    <3> QED
      BY <1>3, <2>3 DEF Got
  <2>5. kept \subseteq shelf[u]
    BY <1>2, <1>7
  <2>6. Mine(e.follows, v) = M \cup {new}
    BY <2>2 DEF Mine
  <2>7. new.row = row /\ new.category = c
    OBVIOUS
  <2> HIDE DEF taken, kept, M, new, row, c
  <2>8. IsFiniteSet(Mine(e.follows, v)) /\ Cardinality(Mine(e.follows, v)) <= i + 1
    <3>1. IsFiniteSet(M \cup {new}) /\ Cardinality(M \cup {new}) \in {Cardinality(M), Cardinality(M) + 1}
      BY <1>6, FS_AddElement
    <3> QED
      BY <1>6, <2>6, <3>1
  <2>9. Places(e.follows, v) = {<<channel[doc[j].source].row, doc[j].category>> : j \in 1..(i + 1)}
    <3>1. Places(e.follows, v) = {<<s.row, s.category>> : s \in M} \cup {<<row, c>>}
      BY <2>6, <2>7 DEF Places
    <3>2. {<<s.row, s.category>> : s \in M} = {<<channel[doc[j].source].row, doc[j].category>> : j \in 1..i}
      BY DEF Got, Places, M
    <3>3. <<channel[doc[i + 1].source].row, doc[i + 1].category>> = <<row, c>>
      BY DEF row, c
    <3>4. 1..(i + 1) = (1..i) \cup {i + 1}
      OBVIOUS
    <3> QED
      BY <3>1, <3>2, <3>3, <3>4
  <2> QED
    BY <1>5, <2>2, <2>3, <2>4, <2>5, <2>8, <2>9 DEF Got
<1> QED
  BY <1>3, <1>11, <1>12

\* A user who had nothing gets what another one exports, or a feed of it is disabled.
LEMMA ExportAccepted ==
    ASSUME TablesNow, NEW u \in Owners, NEW v \in Owners, Mine(follows, v) = {}, shelf[v] = {},
           NEW doc, doc = Exported(u),
           NEW found, found = [source \in SourcesOf(doc) |-> RowOf(source)],
           NEW done, done = Imported(v, found, doc)
    PROVE  \/ done.verdict = "refused" /\ \E source \in SourcesOf(doc) : channel[source].disabled
           \/ done.verdict = "ok" /\ Places(done.follows, v) = Places(follows, u)
<1> DEFINE n == Len(doc)
           E == Entries(u, shelf[u] \cup {None})
           Bars(e) == Judged(e) /\ e.verdict = "refused" /\ \E source \in SourcesOf(doc) : channel[source].disabled
<1>1. Lists(doc, E)
  BY ExportListed
<1>2. doc \in Seq(E) /\ n \in Nat /\ \A i \in 1..n : doc[i] \in E
  <2> HIDE DEF E
  <2> QED
    BY <1>1 DEF Lists
<1>3. FileOf(u, doc, found)
  <2> SUFFICES ASSUME NEW i \in 1..Len(doc)
               PROVE  found[doc[i].source] = channel[doc[i].source].row
    BY <1>1 DEF FileOf
  <2>1. channel[doc[i].source] # None
    BY <1>2 DEF Entries
  <2>2. doc[i].source \in SourcesOf(doc)
    BY DEF SourcesOf
  <2> QED
    BY <2>1, <2>2 DEF RowOf
<1>4. doc \in Seq(OpmlItem)
  BY <1>3, FileIs
<1>5. PICK d : /\ d[0] = Unbegun(v)
               /\ \A i \in 1..n : d[i] = ImportFeed(v, found, d[i - 1], doc[i])
               /\ done = d[n]
  BY <1>4, ImportSteps
<1> DEFINE S == {i \in 0..n : Bars(d[i]) \/ Got(u, v, doc, i, d[i])}
<1>6. 0 \in S
  <2> DEFINE bare == Unbegun(v)
  <2>1. bare.verdict = "ok" /\ bare.channel = channel /\ bare.shelf = {} /\ bare.follows = follows /\ Judged(bare)
    BY DEF Unbegun, Judged, ImportVerdicts
  <2> HIDE DEF bare
  <2>2. channel \in [Sources -> Channel \cup {None}]
    BY DEF TablesNow, Tables, ChannelsOK
  <2>3. IsFiniteSet({}) /\ Cardinality({}) = 0 /\ Places(follows, v) = {} /\ 1..0 = {}
    BY FS_EmptySet DEF Places
  <2>4. Got(u, v, doc, 0, bare)
    BY <2>1, <2>2, <2>3 DEF Got
  <2>5. 0 \in 0..n
    BY <1>2
  <2> QED
    BY <1>5, <2>4, <2>5 DEF bare
<1>7. ASSUME NEW i \in 0..(n - 1), i \in S
      PROVE  i + 1 \in S
  <2> DEFINE was == d[i]
             is == d[i + 1]
             item == doc[i + 1]
  <2>1. i + 1 \in 1..n /\ i + 1 \in 0..n /\ (i + 1) - 1 = i /\ i \in Nat /\ i + 1 <= n
    BY <1>2
  <2>2. is = ImportFeed(v, found, was, doc[i + 1])
    BY <1>5, <2>1
  <2>3. Bars(was) \/ Got(u, v, doc, i, was)
    BY <1>7
  <2>4. doc[i + 1].source \in SourcesOf(doc)
    BY <2>1 DEF SourcesOf
  <2> HIDE DEF was, is
  <2>5. CASE Bars(was)
    <3>1. is = was
      BY <2>2, <2>5 DEF ImportFeed
    <3> QED
      BY <2>1, <2>5, <3>1 DEF is
  <2>6. CASE Got(u, v, doc, i, was)
    <3>1. \/ Judged(is) /\ is.verdict = "refused" /\ channel[doc[i + 1].source].disabled
          \/ Got(u, v, doc, i + 1, is)
      BY <1>3, <2>1, <2>2, <2>6, GotMore
    <3> QED
      BY <2>1, <2>4, <3>1 DEF is
  <2> QED
    BY <2>3, <2>5, <2>6
<1>8. Bars(done) \/ Got(u, v, doc, n, done)
  <2>1. n \in S
    <3> HIDE DEF S, n
    <3>1. \A i \in 0..n : i \in S
      BY <1>2, <1>6, <1>7, SetUpTo
    <3> QED
      BY <1>2, <3>1
  <2> QED
    BY <1>5, <2>1
<1>9. ASSUME Got(u, v, doc, n, done)
      PROVE  Places(done.follows, v) = Places(follows, u)
  <2> DEFINE Row(j) == channel[doc[j].source].row
  <2>1. Places(done.follows, v) = {<<Row(j), doc[j].category>> : j \in 1..n}
    BY <1>9 DEF Got
  <2>2. ASSUME NEW j \in 1..n
        PROVE  <<Row(j), doc[j].category>> \in Places(follows, u)
    <3>1. PICK s \in Mine(follows, u) : s.row = channel[doc[j].source].row /\ s.category = doc[j].category
      BY <1>2 DEF Entries
    <3> QED
      BY <3>1 DEF Places
  <2>3. ASSUME NEW s \in Mine(follows, u)
        PROVE  \E j \in 1..n : <<Row(j), doc[j].category>> = <<s.row, s.category>>
    <3> DEFINE x == [source |-> SourceOf(s.row), category |-> s.category]
    <3>1. s \in follows /\ s.owner = u
      BY DEF Mine
    <3>2. SourceOf(s.row) \in Sources /\ channel[SourceOf(s.row)] # None /\ channel[SourceOf(s.row)].row = s.row
      BY <3>1, SourceIs
    <3>3. s.category \in shelf[u] \cup {None} /\ s.category \in Shelves \cup {None}
      BY <3>1 DEF TablesNow, Tables, ShelvesOK, FollowsOK, FollowRow
    <3>4. x \in OpmlItem /\ x.source = SourceOf(s.row) /\ x.category = s.category
      BY <3>2, <3>3 DEF OpmlItem
    <3> HIDE DEF x
    <3>5. x \in E
      BY <3>2, <3>3, <3>4 DEF Entries
    <3>6. PICK j \in 1..n : doc[j] = x
      <4> HIDE DEF E
      <4> QED
        BY <1>1, <3>5 DEF Lists
    <3> QED
      BY <3>2, <3>4, <3>6
  <2> HIDE DEF Row
  <2>4. Places(done.follows, v) \subseteq Places(follows, u)
    BY <2>1, <2>2
  <2>5. Places(follows, u) \subseteq Places(done.follows, v)
    <3> SUFFICES ASSUME NEW p \in Places(follows, u)
                 PROVE  p \in Places(done.follows, v)
      OBVIOUS
    <3>1. PICK s \in Mine(follows, u) : p = <<s.row, s.category>>
      BY DEF Places
    <3>2. PICK j \in 1..n : <<Row(j), doc[j].category>> = p
      BY <2>3, <3>1
    <3> QED
      BY <2>1, <3>2
  <2> QED
    BY <2>4, <2>5
<1> QED
  BY <1>8, <1>9 DEF Got

\* It is so of every two users of sound tables.
LEMMA OrganizationExports == OrganizationInv => ExportsImport
<1> SUFFICES ASSUME OrganizationInv, NEW u \in Owners, NEW v \in Owners, Mine(follows, v) = {}, shelf[v] = {}
             PROVE  LET doc == Exported(u)
                        done == Imported(v, [source \in SourcesOf(doc) |-> RowOf(source)], doc)
                    IN \/ done.verdict = "refused" /\ \E source \in SourcesOf(doc) : channel[source].disabled
                       \/ done.verdict = "ok" /\ Places(done.follows, v) = Places(follows, u)
  BY Zenon DEF ExportsImport, Places
<1>1. TablesNow
  BY DEF OrganizationInv
<1> DEFINE doc == Exported(u)
           found == [source \in SourcesOf(doc) |-> RowOf(source)]
           done == Imported(v, found, doc)
<1> HIDE DEF done, found, doc
<1>2. \/ done.verdict = "refused" /\ \E source \in SourcesOf(doc) : channel[source].disabled
      \/ done.verdict = "ok" /\ Places(done.follows, v) = Places(follows, u)
  BY <1>1, ExportAccepted DEF done, found, doc
<1> QED
  BY <1>2 DEF done, found, doc

\* What a user exports another one may import, with every feed where it was, unless one
\* was disabled since: feeds/opml.rs, where every read of a transaction is current.
THEOREM ExportsAreImports == ~Snapshots => (ReaderSpec => []ExportsImport)
BY OrganizationInvariant, OrganizationExports, PTL

\* What a reader gets is what was asked for: translations, exports and imports.
THEOREM AnswersFaithful == ~Snapshots => (ReaderSpec => []AnswersAreFaithful)
<1>1. (SettingsUsable /\ ArticleIsItsOwn /\ CutsFit /\ StreamsInOrder) /\ ExportsImport => AnswersAreFaithful
  BY DEF AnswersAreFaithful
<1> QED
  BY <1>1, TranslationsFaithful, ExportsAreImports, PTL
===============================================================================
